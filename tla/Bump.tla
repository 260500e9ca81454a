-------------------------------- MODULE Bump --------------------------------
(***************************************************************************)
(* 14_putting_it_together/01_bump.c: an arena that only moves a pointer.   *)
(* Addresses are bytes from base; a block is the set of bytes the caller   *)
(* asked for.                                                              *)
(***************************************************************************)
EXTENDS Integers

CONSTANTS Base,     \* the address mmap() gave the arena
          Cap,      \* bytes of the arena
          Requests, \* the sizes the caller asks for
          SizeMod   \* arithmetic on size_t and addresses is modulo SizeMod (2^64)

ALIGN == 16

(* The caller's side: no request so close to SIZE_MAX that rounding it, or *)
(* adding it to an address of the arena, wraps.  Nothing in arena_alloc()  *)
(* guards against the second: it would take a request just below 2^64 for  *)
(* one that fits, and move bump back.                                      *)
RequestsAssumption ==
  /\ Base \in Nat /\ Cap \in Nat /\ SizeMod \in Nat
  /\ \A r \in Requests : r \in Nat /\ Base + Cap + r + ALIGN - 1 < SizeMod

VARIABLES bump,   \* a->bump - a->base
          mapped, \* whether the arena is mapped
          held    \* the blocks in the caller's hands

vars == <<bump, mapped, held>>

(* A mistake for the mutation runs: comparing the start of the block with  *)
(* the end of the arena.                                                   *)
StartFits(sz) == bump <= Cap

ALIGN_UP(x) == LET y == (x + ALIGN - 1) % SizeMod IN y - (y % ALIGN)

-----------------------------------------------------------------------------
(* mmap() may fail in arena_init(); main() does not look, bump and end are *)
(* never set and the first arena_alloc() is undefined: the model stops.    *)
Init == bump = 0 /\ mapped \in BOOLEAN /\ held = {}

(* a->bump + sz, an address *)
Sum(sz) == (Base + bump + sz) % SizeMod

Fits(sz) == Sum(sz) <= Base + Cap

arena_alloc(req) ==
  /\ mapped
  /\ \/ /\ Fits(ALIGN_UP(req))
        /\ held' = held \cup {bump .. bump + req - 1}
        /\ bump' = Sum(ALIGN_UP(req)) - Base
     \/ /\ ~Fits(ALIGN_UP(req))
        /\ UNCHANGED <<bump, held>>
  /\ UNCHANGED mapped

(* The caller's blocks are void after a reset. *)
arena_reset == /\ mapped
               /\ bump' = 0
               /\ held' = {}
               /\ UNCHANGED mapped

arena_destroy == /\ mapped
                 /\ mapped' = FALSE
                 /\ held' = {}
                 /\ UNCHANGED bump

NoArena == ~mapped /\ UNCHANGED vars

Next == \/ \E req \in Requests : arena_alloc(req)
        \/ arena_reset \/ arena_destroy \/ NoArena

Spec == Init /\ [][Next]_vars
-----------------------------------------------------------------------------
TypeOK == bump \in 0 .. Cap /\ mapped \in BOOLEAN

Blocks == INSTANCE BlockAllocator WITH Region <- 0 .. Cap - 1

(* Blocks handed out between two resets lie in the arena and are disjoint. *)
ImplementsBlocks == Blocks!Spec
=============================================================================
