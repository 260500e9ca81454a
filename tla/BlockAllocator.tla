--------------------------- MODULE BlockAllocator ---------------------------
(***************************************************************************)
(* What every allocator of 14_putting_it_together promises its caller: a   *)
(* block handed out lies inside the region and overlaps no block the       *)
(* caller still holds.  Nothing is said about which block is chosen.       *)
(***************************************************************************)
CONSTANT Region \* the addresses the allocator manages

VARIABLE held   \* the blocks in the caller's hands, each a set of addresses

Init == held = {}

Alloc == \E e \in held' : /\ e \subseteq Region
                          /\ \A b \in held : b \cap e = {}
                          /\ held' = held \cup {e}

Free == \E b \in held : held' = held \ {b}

FreeAll == held' = {}

Next == Alloc \/ Free \/ FreeAll

Spec == Init /\ [][Next]_held
=============================================================================
