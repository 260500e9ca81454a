-------------------------------- MODULE Pool --------------------------------
(***************************************************************************)
(* 14_putting_it_together/02_pool.c: fixed-size objects whose free list    *)
(* runs through the free objects themselves.  word[s] is the first word of *)
(* slot s: node->next while the slot is free, the caller's data while it   *)
(* is not.                                                                 *)
(***************************************************************************)
EXTENDS Chains, Integers

CONSTANTS Cap,  \* slots of the pool
          Data, \* what a caller may leave in the first word of a slot
          NULL

PoolAssumption == Cap \in Nat /\ NULL \notin Int

Slots == 1 .. Cap \* slot s is at base + (s - 1) * obj_sz

VARIABLES word, free_head,
          live,  \* the slots callers hold
          mapped \* whether the pool is mapped

vars == <<word, free_head, live, mapped>>

(* A mistake for the mutation runs: popping without following the link. *)
PopKeepsHead == free_head

(* pool_init() pushes the slots in address order.  If its mmap() fails the *)
(* list is never set; main() does not look and the model stops there.      *)
FirstLink(s) == IF s = 1 THEN NULL ELSE s - 1

Init == /\ word = [s \in Slots |-> FirstLink(s)]
        /\ free_head = IF Cap = 0 THEN NULL ELSE Cap
        /\ live = {}
        /\ mapped \in BOOLEAN

PopHead == word[free_head]

pool_alloc == \/ /\ free_head # NULL
                 /\ live' = live \cup {free_head}
                 /\ free_head' = PopHead
                 /\ UNCHANGED <<word, mapped>>
              \/ /\ free_head = NULL
                 /\ UNCHANGED vars

PushLink(q) == [word EXCEPT ![q] = free_head]

pool_free(q) == /\ word' = PushLink(q)
                /\ free_head' = q
                /\ live' = live \ {q}
                /\ UNCHANGED mapped

(* The caller writes its object, the first word included. *)
UserWrite(q) == \E d \in Data : /\ word' = [word EXCEPT ![q] = d]
                                /\ UNCHANGED <<free_head, live, mapped>>

(* The callers' objects are void once the pool is unmapped. *)
pool_destroy == /\ mapped' = FALSE
                /\ live' = {}
                /\ UNCHANGED <<word, free_head>>

Next == \/ /\ mapped
           /\ \/ pool_alloc \/ pool_destroy
              \/ \E q \in live : pool_free(q) \/ UserWrite(q)
        \/ ~mapped /\ UNCHANGED vars

Spec == Init /\ [][Next]_vars
-----------------------------------------------------------------------------
TypeOK == /\ word \in [Slots -> Slots \cup Data \cup {NULL}]
          /\ free_head \in Slots \cup {NULL}
          /\ live \subseteq Slots
          /\ mapped \in BOOLEAN

(* The list through the free slots holds every slot the caller does not    *)
(* hold, and each once: nothing leaks and nothing is handed out twice,     *)
(* whatever callers have written into their objects.                       *)
ListIsFree == mapped => IsChainOf(Chain(free_head, word, Cap + 1, NULL), Slots \ live)
=============================================================================
