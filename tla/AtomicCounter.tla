---------------------------- MODULE AtomicCounter ----------------------------
(***************************************************************************)
(* The abstract promise of the counter demos: every worker adds one to a   *)
(* shared counter N times and each addition is a single indivisible step.  *)
(***************************************************************************)
EXTENDS Naturals

CONSTANTS Workers, \* the threads that increment
          N        \* increments each of them performs

VARIABLES shared, \* the counter
          done    \* done[w]: increments w has completed

vars == <<shared, done>>

Init == /\ shared = 0
        /\ done = [w \in Workers |-> 0]

Increment(w) == /\ done[w] < N
                /\ done' = [done EXCEPT ![w] = @ + 1]
                /\ shared' = shared + 1

Next == \E w \in Workers : Increment(w)

Spec == Init /\ [][Next]_vars
=============================================================================
