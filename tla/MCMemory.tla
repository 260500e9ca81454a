------------------------------ MODULE MCMemory ------------------------------
(***************************************************************************)
(* The programs of AddressSpace and 00_fundamentals/01_memory_hierarchy.c  *)
(* for TLC: one of them runs, the variables of the other keep their        *)
(* initial values.                                                         *)
(***************************************************************************)
EXTENDS AddressSpace, PointerChase

ASSUME MemoryAssumption == LargeAssumption /\ AddressAssumption /\ ChaseAssumption

allVars == <<vars, chaseVars>>

MCInit == program \in Programs /\ Init /\ ChaseInit

(* The step of memory_hierarchy: main() of 01_memory_hierarchy.c. *)
Measuring == \/ Chaser /\ UNCHANGED vars
             \/ /\ Through /\ Advance
                /\ UNCHANGED <<memory, kept, refused, files, log, failed, chaseVars>>
             \/ /\ Crashed /\ Segv(FALSE) /\ failed' = TRUE
                /\ UNCHANGED <<memory, kept, refused, files, log, chaseVars>>

MCProcess == (Process /\ UNCHANGED chaseVars) \/ (At("measure") /\ Measuring)
MCReclaim == \E a \in Addresses : Reclaim(a) /\ UNCHANGED chaseVars

MCNext == MCProcess \/ MCReclaim

(* The process is scheduled; the kernel need not reclaim anything. *)
MCSpec == MCInit /\ [][MCNext]_allVars /\ WF_allVars(MCProcess)
-----------------------------------------------------------------------------
(* Every program comes to its end: no SIGSEGV handler returns to the       *)
(* access that faulted, and no loop goes on for ever.                      *)
EverythingEnds == <>(end # "running")
=============================================================================
