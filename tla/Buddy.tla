------------------------------- MODULE Buddy --------------------------------
(***************************************************************************)
(* 14_putting_it_together/05_buddy.c: a buddy allocator over 2^MAX_ORDER   *)
(* pages.  A block is named by its first page, counted from base; fl[o] is *)
(* the list of the free blocks of 2^o pages.  Callers free what they got,  *)
(* with the page count they asked for.                                     *)
(***************************************************************************)
EXTENDS Integers, SequencesExt

CONSTANTS MAX_ORDER,
          Requests   \* the page counts callers ask for

(* Everything stays an int: (1 << (o - 1)) << PG_LOG2, where buddy_alloc() *)
(* splits, for orders up to 19, `sz <<= 1` for page counts up to 2^30.     *)
BuddyAssumption == MAX_ORDER \in 0 .. 19 /\ Requests \subseteq 0 .. 2 ^ 30

Orders == 0 .. MAX_ORDER
Pages == 0 .. 2 ^ MAX_ORDER - 1

VARIABLES fl,  \* fl[o]: the free list of order o
          live \* the pairs <<p, pages>> that callers hold

vars == <<fl, live>>
-----------------------------------------------------------------------------
(* Mistakes for the mutation runs: rounding the order down, the last list  *)
(* not searched, and merging that keeps the block's own start.             *)
OrderRoundedDown(pages) == CHOOSE o \in 0 .. 30 : /\ pages < 2 ^ (o + 1)
                                                  /\ o = 0 \/ 2 ^ o <= pages
SearchStopsEarly(order) == {o \in order .. MAX_ORDER - 1 : fl[o] # <<>>}
MergeKeepsStart(p, b) == p

(* The loop that both functions start with. *)
OrderOf(pages) == CHOOSE o \in 0 .. 30 : /\ pages <= 2 ^ o
                                         /\ o = 0 \/ 2 ^ (o - 1) < pages

(* off ^ bsz flips bit o of the page number. *)
BuddyOf(p, o) == IF (p \div 2 ^ o) % 2 = 0 THEN p + 2 ^ o ELSE p - 2 ^ o

(* fl_push(), and fl_remove() of a block that is on the list. *)
fl_push(list, b) == <<b>> \o list
fl_remove(list, target) ==
  LET k == CHOOSE k \in DOMAIN list :
             list[k] = target /\ \A i \in 1 .. k - 1 : list[i] # target
  IN  [j \in 1 .. Len(list) - 1 |-> list[IF j < k THEN j ELSE j + 1]]

(* buddy_init().  Its mmap() is not checked: if it fails fl_push() writes  *)
(* through MAP_FAILED and the program is killed before it uses the lists.  *)
Init == /\ fl = [o \in Orders |-> IF o = MAX_ORDER THEN <<0>> ELSE <<>>]
        /\ live = {}
-----------------------------------------------------------------------------
(* The orders at which buddy_alloc()'s search would stop. *)
Candidates(order) == {o \in order .. MAX_ORDER : fl[o] # <<>>}

UpperHalf(b, o) == b + 2 ^ o

buddy_alloc(pages) ==
  LET order == OrderOf(pages) IN
  \E o \in Candidates(order) :
    LET b == Head(fl[o]) IN
    /\ \A other \in Candidates(order) : o <= other
    /\ fl' = [j \in Orders |-> IF j = o THEN Tail(fl[j])
                               ELSE IF j \in order .. o - 1
                                    THEN fl_push(fl[j], UpperHalf(b, j))
                               ELSE fl[j]]
    /\ live' = live \cup {<<b, pages>>}

(* buddy_alloc() returns NULL: too large, or nothing to split. *)
AllocFails(pages) == Candidates(OrderOf(pages)) = {} /\ UNCHANGED vars

(* Whether the loop of buddy_free() merges at order o, b being the buddy. *)
Merges(b, o) == o < MAX_ORDER /\ Contains(fl[o], b)

LowerOf(p, b) == IF b < p THEN b ELSE p

(* A round of that loop, at order o with q: what p becomes, or -1 if the   *)
(* loop ends there or has ended before.                                    *)
Merged(q, o) == LET b == BuddyOf(q, o)
                IN  IF q # -1 /\ Merges(b, o) THEN LowerOf(q, b) ELSE -1

buddy_free(p, pages) ==
  LET order == OrderOf(pages)
      \* what p is when the loop gets to order o, or -1 if it never does
      at[o \in order .. MAX_ORDER] == IF o = order THEN p ELSE Merged(at[o - 1], o - 1)
      last == CHOOSE o \in order .. MAX_ORDER :
                at[o] # -1 /\ (o = MAX_ORDER \/ at[o + 1] = -1)
  IN  /\ fl' = [j \in Orders |-> IF j = last THEN fl_push(fl[j], at[j])
                                 ELSE IF j \in order .. last - 1
                                      THEN fl_remove(fl[j], BuddyOf(at[j], j))
                                 ELSE fl[j]]
      /\ live' = live \ {<<p, pages>>}

Next == \/ \E pages \in Requests : buddy_alloc(pages) \/ AllocFails(pages)
        \/ \E r \in live : buddy_free(r[1], r[2])
-----------------------------------------------------------------------------
FreeBlocks == {b \in Orders \X Pages : Contains(fl[b[1]], b[2])}
LiveBlocks == {<<OrderOf(r[2]), r[1]>> : r \in live}
Extent(b) == b[2] .. b[2] + 2 ^ b[1] - 1

TypeOK == /\ fl \in [Orders -> Seq(Pages)]
          /\ live \subseteq Pages \X Requests

(* The blocks on the lists, each there once, and the blocks in use tile    *)
(* the arena, and every block starts at a multiple of its size: what       *)
(* buddy_free() computes with an exclusive or is then a block.             *)
Tiling ==
  /\ TypeOK
  /\ \A b \in FreeBlocks \cup LiveBlocks : b[2] % (2 ^ b[1]) = 0
  /\ \A b, c \in FreeBlocks \cup LiveBlocks : b # c => Extent(b) \cap Extent(c) = {}
  /\ FreeBlocks \cap LiveBlocks = {}
  /\ UNION {Extent(b) : b \in FreeBlocks \cup LiveBlocks} = Pages
  /\ \A o \in Orders : IsInjective(fl[o])

(* Merging is complete: no block and its buddy are both free, and once     *)
(* everything is freed the arena is one block, as after buddy_init().      *)
NoFreeBuddies ==
  /\ \A b \in FreeBlocks : <<b[1], BuddyOf(b[2], b[1])>> \notin FreeBlocks
  /\ live = {} => Init

(* buddy_alloc() returns NULL only if every aligned run of the pages it    *)
(* rounds the request up to holds a page in use.                           *)
NullOnlyIfNoRoom ==
  \A pages \in Requests :
    Candidates(OrderOf(pages)) = {} =>
      \A p \in Pages :
        p % (2 ^ OrderOf(pages)) = 0 /\ OrderOf(pages) <= MAX_ORDER =>
          \E b \in LiveBlocks : Extent(b) \cap Extent(<<OrderOf(pages), p>>) # {}

Blocks == INSTANCE BlockAllocator
            WITH Region <- Pages, held <- {r[1] .. r[1] + r[2] - 1 : r \in live}

(* The allocator as its callers see it: the pages they asked for are in    *)
(* the arena and nobody else's.                                            *)
ImplementsBlocks == Blocks!Spec
=============================================================================
