-------------------------------- MODULE Slab --------------------------------
(***************************************************************************)
(* 14_putting_it_together/03_slab.c: a cache of equal objects carved out   *)
(* of slabs, each with its own free list, and a list of the slabs that     *)
(* still have a free object.                                               *)
(*                                                                         *)
(* Slabs are numbered in the order new_slab() maps them, so all_slabs is   *)
(* nslabs, nslabs - 1, ..., 1.  Object <<s, j>> is the one at              *)
(* s->base + j * obj_sz; word holds its first word: n->next while it is    *)
(* free, the caller's data while it is not.                                *)
(***************************************************************************)
EXTENDS Chains, Integers

CONSTANTS MaxSlabs,      \* the slabs mmap() can give before it fails for good
          objs_per_slab,
          Data,          \* what a caller may leave in an object's first word
          Foreign,       \* pointers into no slab
          NULL

Objects == (1 .. MaxSlabs) \X (0 .. objs_per_slab - 1)

(* With no object to a slab cache_alloc() would read through a NULL list.  *)
SlabAssumption == MaxSlabs \in Nat /\ objs_per_slab \in Nat \ {0}
ForeignAssumption == /\ Foreign \cap Objects = {}
                     /\ NULL \notin Objects \cup (1 .. MaxSlabs)

VARIABLES
  nslabs,       \* slabs mapped so far
  partial,      \* c->partial
  next_partial, \* next_partial[s]: s->next_partial, stale while s is full
  free,         \* free[s]: s->free
  in_use,       \* in_use[s]: s->in_use
  word,         \* word[o]: the first word of object o
  live          \* the objects callers hold

vars == <<nslabs, partial, next_partial, free, in_use, word, live>>

Slabs == 1 .. nslabs
ObjectsOf(s) == {s} \X (0 .. objs_per_slab - 1)
-----------------------------------------------------------------------------
(* A mistake for the mutation runs: a slab is put on the list although it  *)
(* is there already.                                                       *)
AlwaysRelinks(s) == TRUE

(* new_slab() pushes the objects in address order. *)
FirstLink(s, j) == IF j = 0 THEN NULL ELSE <<s, j - 1>>

Init == /\ nslabs = 0
        /\ partial = NULL
        /\ next_partial = [s \in 1 .. MaxSlabs |-> NULL]
        /\ free = [s \in 1 .. MaxSlabs |-> NULL]
        /\ in_use = [s \in 1 .. MaxSlabs |-> 0]
        /\ word = [o \in Objects |-> NULL]
        /\ live = {}

(* What becomes of c->partial when an object of s, its head, is taken and  *)
(* rest is what is left of s->free.                                        *)
PartialAfter(s, rest) == IF rest = NULL THEN next_partial'[s] ELSE s

(* The part of cache_alloc() after the slab s is chosen, with the free     *)
(* list (head and words w) that s then has.                                *)
Take(s, head, w) == /\ free' = [free EXCEPT ![s] = w[head]]
                    /\ in_use' = [in_use EXCEPT ![s] = @ + 1]
                    /\ partial' = PartialAfter(s, w[head])
                    /\ live' = live \cup {head}
                    /\ word' = w

cache_alloc ==
  \/ /\ partial # NULL
     /\ UNCHANGED <<nslabs, next_partial>>
     /\ Take(partial, free[partial], word)
  \/ /\ partial = NULL
     /\ nslabs < MaxSlabs
     /\ LET s == nslabs + 1
            w == [o \in Objects |-> IF o[1] = s THEN FirstLink(s, o[2])
                                                ELSE word[o]]
        IN  /\ nslabs' = s
            /\ next_partial' = [next_partial EXCEPT ![s] = partial]
            /\ Take(s, <<s, objs_per_slab - 1>>, w)

(* mmap() fails, as it may at any call. *)
AllocFails == partial = NULL /\ UNCHANGED vars

FreedLink(s) == free[s]
InUseAfterFree(s) == in_use[s] - 1
WasFull(s) == free[s] = NULL

(* cache_free() finds the slab by its address range. *)
cache_free(p) ==
  \E s \in Slabs :
    /\ p \in ObjectsOf(s)
    /\ word' = [word EXCEPT ![p] = FreedLink(s)]
    /\ free' = [free EXCEPT ![s] = p]
    /\ in_use' = [in_use EXCEPT ![s] = InUseAfterFree(s)]
    /\ \/ /\ WasFull(s)
          /\ next_partial' = [next_partial EXCEPT ![s] = partial]
          /\ partial' = s
       \/ /\ ~WasFull(s)
          /\ UNCHANGED <<next_partial, partial>>
    /\ live' = live \ {p}
    /\ UNCHANGED nslabs

(* "pointer not from us": rejected. *)
FreeForeign(p) == /\ \A s \in Slabs : p \notin ObjectsOf(s)
                  /\ UNCHANGED vars

UserWrite(p) == \E d \in Data :
                  /\ word' = [word EXCEPT ![p] = d]
                  /\ UNCHANGED <<nslabs, partial, next_partial, free, in_use, live>>

Next == \/ cache_alloc \/ AllocFails
        \/ \E p \in live : cache_free(p) \/ UserWrite(p)
        \/ \E p \in Foreign : FreeForeign(p)

Spec == Init /\ [][Next]_vars
-----------------------------------------------------------------------------
TypeOK == /\ nslabs \in 0 .. MaxSlabs
          /\ partial \in Slabs \cup {NULL}
          /\ next_partial \in [1 .. MaxSlabs -> Slabs \cup {NULL}]
          /\ free \in [1 .. MaxSlabs -> Objects \cup {NULL}]
          /\ in_use \in [1 .. MaxSlabs -> 0 .. objs_per_slab]
          /\ word \in [Objects -> Objects \cup Data \cup {NULL}]
          /\ live \subseteq Objects

(* Each slab's list holds the objects of that slab that nobody holds, each *)
(* once, and in_use counts the others: an object goes back to the slab it  *)
(* came from, whatever callers wrote into their objects.                   *)
SlabAccounts ==
  \A s \in Slabs :
    /\ IsChainOf(Chain(free[s], word, objs_per_slab + 1, NULL),
                 ObjectsOf(s) \ live)
    /\ in_use[s] = Cardinality(ObjectsOf(s) \cap live)

(* "partial = head of slabs with at least one free object" (the comment at *)
(* the top): it lists exactly those, and each of them once, so             *)
(* cache_alloc() never meets a full slab and never maps one in vain.       *)
PartialHasRoom ==
  IsChainOf(Chain(partial, next_partial, MaxSlabs + 1, NULL),
            {s \in Slabs : ObjectsOf(s) \ live # {}})
=============================================================================
