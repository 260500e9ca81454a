------------------------------ MODULE FreeLinks ------------------------------
(***************************************************************************)
(* The doubly linked free list of 14_putting_it_together/04_freelist.c:    *)
(* fl_insert() and fl_remove() on the prev_free and next_free fields.      *)
(* Freelist uses the sequence this module shows them to implement.         *)
(***************************************************************************)
EXTENDS Chains

CONSTANTS Chunks, NULL

NullAssumption == NULL \notin Chunks /\ IsFiniteSet(Chunks)

VARIABLES free_head, prev_free, next_free

vars == <<free_head, prev_free, next_free>>

Pointers == Chunks \cup {NULL}

List == Chain(free_head, next_free, Cardinality(Chunks) + 1, NULL)
OnList == Nodes(List)

(* A mistake for the mutation runs: fl_remove() without the back link of   *)
(* the next node.                                                          *)
RemoveForgetsBackLink(h) == prev_free

Init == /\ free_head = NULL
        /\ prev_free = [c \in Chunks |-> NULL]
        /\ next_free = [c \in Chunks |-> NULL]

InsertPrev(h) == [c \in Chunks |-> IF c = free_head THEN h
                                   ELSE IF c = h THEN NULL ELSE prev_free[c]]

fl_insert(h) == /\ prev_free' = InsertPrev(h)
                /\ next_free' = [next_free EXCEPT ![h] = free_head]
                /\ free_head' = h

RemovePrev(h) == [c \in Chunks |-> IF c = next_free[h] THEN prev_free[h]
                                   ELSE prev_free[c]]

fl_remove(h) == /\ IF prev_free[h] # NULL
                   THEN /\ next_free' = [next_free EXCEPT ![prev_free[h]] = next_free[h]]
                        /\ free_head' = free_head
                   ELSE /\ free_head' = next_free[h]
                        /\ next_free' = next_free
                /\ prev_free' = RemovePrev(h)

(* The fields of a chunk that is not on the list hold anything: a header   *)
(* swallowed by coalescing lies inside what a later caller writes.         *)
Overwrite(h) == \E p, n \in Pointers :
                  /\ prev_free' = [prev_free EXCEPT ![h] = p]
                  /\ next_free' = [next_free EXCEPT ![h] = n]
                  /\ UNCHANGED free_head

Next == \/ \E h \in Chunks \ OnList : fl_insert(h) \/ Overwrite(h)
        \/ \E h \in OnList : fl_remove(h)

Spec == Init /\ [][Next]_vars
-----------------------------------------------------------------------------
(* Forward and backward links agree and the list does not run in a circle. *)
WellLinked ==
  /\ IsChainOf(List, OnList)
  /\ \A j \in DOMAIN List : prev_free[List[j]] = IF j = 1 THEN NULL ELSE List[j - 1]

(* fl_insert() puts its argument in front and fl_remove() takes its        *)
(* argument out and keeps the order of the others.                         *)
Sequence == INSTANCE FreeSequence WITH list <- List

ImplementsSequence == Sequence!Spec
=============================================================================
