---------------------------- MODULE FreeSequence ----------------------------
(***************************************************************************)
(* The free list of 04_freelist.c as its users see it: a sequence of       *)
(* distinct chunks that grows at the front and loses elements anywhere.    *)
(***************************************************************************)
EXTENDS Naturals, Sequences

CONSTANT Chunks

VARIABLE list

Members == {list[j] : j \in DOMAIN list}

Init == list = <<>>

Insert(h) == h \notin Members /\ list' = <<h>> \o list

Remove(h) == \E k \in DOMAIN list :
               /\ list[k] = h
               /\ list' = [j \in 1 .. Len(list) - 1 |-> list[IF j < k THEN j ELSE j + 1]]

Next == \E h \in Chunks : Insert(h) \/ Remove(h)

Spec == Init /\ [][Next]_list
=============================================================================
