------------------------------- MODULE Chains -------------------------------
(***************************************************************************)
(* Singly linked lists in memory, as pool.c, slab.c and freelist.c keep    *)
(* them: a head pointer and, in each node, the pointer to the next.        *)
(***************************************************************************)
EXTENDS Naturals, Sequences, FiniteSets

(* The nodes met from head on, in order: at most bound of them, so that a  *)
(* cyclic list shows up as one with repeated nodes.                        *)
Chain(head, next, bound, NULL) ==
  LET node[n \in 1 .. bound] ==
        IF n = 1 THEN head
        ELSE IF node[n - 1] = NULL THEN NULL ELSE next[node[n - 1]]
  IN  [n \in {m \in 1 .. bound : node[m] # NULL} |-> node[n]]

Nodes(s) == {s[j] : j \in DOMAIN s}

(* The list holds exactly the nodes of S, and each of them once. *)
IsChainOf(s, S) == Nodes(s) = S /\ Len(s) = Cardinality(S)
=============================================================================
