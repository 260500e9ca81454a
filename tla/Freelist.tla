------------------------------ MODULE Freelist ------------------------------
(***************************************************************************)
(* 14_putting_it_together/04_freelist.c: first-fit malloc/free over one    *)
(* heap, with boundary tags (the size repeated as a footer) and immediate  *)
(* coalescing.                                                             *)
(*                                                                         *)
(* Addresses and sizes count units of ALIGN = 16 bytes from heap_base;     *)
(* only what the caller asks for is in bytes.  mem holds the size_flags    *)
(* words, wherever the code has left one: a word is read as a tag only if  *)
(* the code reads it there, and the caller overwrites its payload.  The    *)
(* list links, in a header the caller never owns, are kept as the          *)
(* sequence of the chunks on the list; FreeLinks models the links.         *)
(***************************************************************************)
EXTENDS Integers, Sequences, FiniteSets

CONSTANTS Cap,      \* units of the heap
          Requests, \* the sizes, in bytes, that the caller asks for
          SizeMod,  \* size_t arithmetic is modulo SizeMod (2^64)
          NULL

HDR_SZ == 2
FTR_SZ == 1
MIN_CHUNK == HDR_SZ + 1 + FTR_SZ

Units == 0 .. Cap - 1

(* The caller's side of the contract: no request is so close to SIZE_MAX   *)
(* that adding the header and the footer wraps around.                     *)
ASSUME CapAssumption == Cap \in Nat /\ Cap >= MIN_CHUNK
ASSUME RequestsAssumption == Requests \subseteq Nat
ASSUME NoWrapAssumption ==
  SizeMod \in Nat /\ \A r \in Requests : r + 63 < SizeMod
ASSUME NullAssumption == NULL \notin Int

VARIABLES
  mem,       \* mem[u]: the word at unit u, a tag or Junk
  free_list, \* the chunks reachable from free_head, in order
  live,      \* the pointers the caller holds
  asked      \* asked[p]: what the caller asked for when it got p

vars == <<mem, free_list, live, asked>>

Bit == {0, 1}
Tags == [size : Nat, free : Bit] \* size_flags; free is its low bit
Junk == [size |-> 0, free |-> 1] \* what the caller writes, read as a tag
-----------------------------------------------------------------------------
csz(h) == mem[h].size
cfree(h) == mem[h].free = 1
next_of(h) == h + csz(h)
NoNeighbour(h) == NULL
prev_of(h) == IF h = 0 THEN NULL ELSE h - mem[h - FTR_SZ].size

(* Mistakes for the mutation runs, here and below: no left neighbour is    *)
(* ever seen, the footer is not written, the chunk stays on the list, and  *)
(* no room is made for the footer.                                         *)
SetHeaderOnly(mm, h, sz, free) == [mm EXCEPT ![h] = [size |-> sz, free |-> free]]
RemoveNothing(l, h) == l
NeedForgetsFooter(req) ==
  LET need == (req + 16 * HDR_SZ + 15) \div 16
  IN  IF need < MIN_CHUNK THEN MIN_CHUNK ELSE need

(* set_size(): the memory after header and footer of h are written. *)
set_size(mm, h, sz, free) ==
  [mm EXCEPT ![h] = [size |-> sz, free |-> free],
             ![h + sz - FTR_SZ] = [size |-> sz, free |-> free]]

fl_insert(l, h) == <<h>> \o l

fl_remove(l, h) ==
  LET at == CHOOSE j \in DOMAIN l : l[j] = h
  IN  [j \in 1 .. Len(l) - 1 |-> IF j < at THEN l[j] ELSE l[j + 1]]

Need(req) ==
  LET need == ((req + 16 * (HDR_SZ + FTR_SZ) + 15) % SizeMod) \div 16
  IN  IF need < MIN_CHUNK THEN MIN_CHUNK ELSE need

(* The units a caller may write: the ones that hold the bytes it asked for. *)
Payload(p) == p .. p + ((asked[p] + 15) \div 16) - 1
-----------------------------------------------------------------------------
(* my_init().  Its mmap() is not checked: if it fails set_size() writes    *)
(* through MAP_FAILED and the program is killed before it has a heap.      *)
Init == /\ mem = set_size([u \in Units |-> Junk], 0, Cap, 1)
        /\ free_list = <<0>>
        /\ live = {}
        /\ asked = [u \in Units |-> 0]

(* Further mistakes: the first chunk is taken whatever its size, and the   *)
(* part split off is forgotten.                                            *)
FitsAny(need, j) == j = 1 /\ j \in DOMAIN free_list
CarveLosesRest(h, need) ==
  /\ mem' = set_size(mem, h, need, 0)
  /\ free_list' = fl_remove(free_list, h)

(* The loop of my_malloc() stops at the first chunk that is large enough. *)
FirstFit(need, j) == /\ j \in DOMAIN free_list
                     /\ csz(free_list[j]) >= need
                     /\ \A l \in 1 .. j - 1 : csz(free_list[l]) < need

Carve(h, need) ==
  LET leftover == csz(h) - need
      rest == fl_remove(free_list, h)
  IN  IF leftover >= MIN_CHUNK
      THEN /\ mem' = set_size(set_size(mem, h, need, 0),
                              h + need, leftover, 1)
           /\ free_list' = fl_insert(rest, h + need)
      ELSE /\ mem' = set_size(mem, h, csz(h), 0)
           /\ free_list' = rest

Malloc(req) ==
  /\ req > 0
  /\ \E j \in DOMAIN free_list :
       LET h == free_list[j] IN
       /\ FirstFit(Need(req), j)
       /\ Carve(h, Need(req))
       /\ live' = live \cup {h + HDR_SZ}
       /\ asked' = [asked EXCEPT ![h + HDR_SZ] = req]

(* my_malloc() returns NULL. *)
MallocFails(req) ==
  /\ req = 0 \/ \A j \in DOMAIN free_list : csz(free_list[j]) < Need(req)
  /\ UNCHANGED vars

(* my_free(p): absorb a free right neighbour, then be absorbed by a free   *)
(* left neighbour, then go to the head of the list.                        *)
Free(p) ==
  LET h == p - HDR_SZ
      n == next_of(h)
      next_free == n < Cap /\ cfree(n)
      size1 == IF next_free THEN csz(h) + csz(n) ELSE csz(h)
      list1 == IF next_free THEN fl_remove(free_list, n) ELSE free_list
      mem1 == set_size(set_size(mem, h, csz(h), 1), h, size1, 1)
      pr == prev_of(h)
      prev_free == pr # NULL /\ cfree(pr)
  IN  /\ \/ /\ prev_free
            /\ mem' = set_size(mem1, pr, csz(pr) + size1, 1)
            /\ free_list' = fl_insert(fl_remove(list1, pr), pr)
         \/ /\ ~prev_free
            /\ mem' = mem1
            /\ free_list' = fl_insert(list1, h)
      /\ live' = live \ {p}
      /\ asked' = [asked EXCEPT ![p] = 0]

FreeNull == UNCHANGED vars

(* The caller writes over what it was given. *)
UserWrite(p) == /\ mem' = [u \in Units |-> IF u \in Payload(p) THEN Junk ELSE mem[u]]
                /\ UNCHANGED <<free_list, live, asked>>

Next == \/ \E req \in Requests : Malloc(req) \/ MallocFails(req)
        \/ \E p \in live : Free(p) \/ UserWrite(p)
        \/ FreeNull

Spec == Init /\ [][Next]_vars
-----------------------------------------------------------------------------
FreeChunks == {free_list[j] : j \in DOMAIN free_list}
LiveChunks == {p - HDR_SZ : p \in live}
Chunks == FreeChunks \cup LiveChunks
Extent(h) == h .. h + csz(h) - 1

TypeOK == /\ mem \in [Units -> Tags]
          /\ free_list \in Seq(Units)
          /\ live \subseteq Units
          /\ asked \in [Units -> Nat]

(* The chunks on the list and the chunks in use tile the heap: every       *)
(* chunk's footer repeats its header, chunks do not overlap, each ends     *)
(* where another begins or at heap_end, and no unit is lost.               *)
Tiling ==
  /\ \A h \in Chunks : /\ csz(h) >= MIN_CHUNK
                       /\ next_of(h) = Cap \/ next_of(h) \in Chunks
                       /\ mem[h + csz(h) - FTR_SZ] = mem[h]
  /\ \A g, h \in Chunks : g < h => next_of(g) <= h
  /\ \A u \in Units : \E h \in Chunks : u \in Extent(h)

(* The list holds the chunks whose tag says free, and each of them once. *)
ListIsFree ==
  /\ \A h \in FreeChunks : cfree(h)
  /\ \A h \in LiveChunks : ~cfree(h)
  /\ \A i, j \in DOMAIN free_list : free_list[i] = free_list[j] => i = j

(* Coalescing is complete: no two free chunks are neighbours. *)
NoAdjacentFree == \A h \in FreeChunks : next_of(h) \notin FreeChunks

(* "after all freed, one big chunk again" (the comment in main()). *)
AllFreedIsOneChunk == live = {} => free_list = <<0>> /\ csz(0) = Cap

(* my_malloc() returns NULL only if memory is short: when no free chunk is *)
(* large enough there is no gap of that many units between live chunks.    *)
NullOnlyIfNoRoom ==
  \A need \in MIN_CHUNK .. Cap :
    (\A h \in FreeChunks : csz(h) < need) =>
      ~ \E u \in Units : /\ u + need <= Cap
                         /\ \A h \in LiveChunks :
                              Extent(h) \cap (u .. u + need - 1) = {}

(* What the caller may write holds no tag and no links of any chunk. *)
PayloadIsPrivate ==
  \A p \in live, h \in Chunks :
    Payload(p) \cap {h, h + 1, h + csz(h) - FTR_SZ} = {}

(* The allocator as its caller sees it. *)
Blocks == INSTANCE BlockAllocator WITH Region <- Units,
                                       held <- {Payload(p) : p \in live}

ImplementsBlocks == Blocks!Spec
=============================================================================
