------------------------------- MODULE EventFd ------------------------------
(***************************************************************************)
(* 10_ipc_memory/07_eventfd.c: a worker thread adds 1 to an eventfd N      *)
(* times and main() reads it N times.  A read() takes the whole counter,   *)
(* so that several writes may make one wake-up.                            *)
(*                                                                         *)
(* No call is checked.  Without a descriptor every read() and write()      *)
(* fails at once, and main() prints a v that nothing has set; without a    *)
(* worker pthread_join() is undefined, and the model stops there.          *)
(***************************************************************************)
EXTENDS Naturals

CONSTANT N \* writes and reads (5 in the program)

NAssumption == N \in Nat \ {0}

VARIABLES
  efd,     \* whether eventfd() has given a descriptor
  counter, \* the eventfd
  worker,  \* where the worker is: "new", "loop" or "returned"
  writes,  \* iterations it has done
  main,    \* where main() is
  reads,   \* iterations it has done
  got      \* the sum of the counts it has read

vars == <<efd, counter, worker, writes, main, reads, got>>

Init == /\ efd = FALSE
        /\ counter = 0
        /\ worker = "new"
        /\ writes = 0
        /\ main = "open"
        /\ reads = 0
        /\ got = 0

(* eventfd() *)
Open == /\ main = "open"
        /\ main' = "create"
        /\ efd' \in BOOLEAN
        /\ UNCHANGED <<counter, worker, writes, reads, got>>

(* pthread_create(): the worker is made or not, main() goes on. *)
Create == /\ main = "create"
          /\ main' = "loop"
          /\ worker' \in {"loop", "new"}
          /\ UNCHANGED <<efd, counter, writes, reads, got>>

(* Mistakes for the mutation runs: a read that leaves the counter as it    *)
(* is, a write that sets it, and a worker that is one write short.         *)
ReadKeeps == counter
WriteSets == 1
LastWriteShort == N - 1

CounterAfterWrite == counter + 1
CounterAfterRead == 0
WritesToDo == N

(* worker() *)
Write == /\ worker = "loop"
         /\ writes < WritesToDo
         /\ counter' = IF efd THEN CounterAfterWrite ELSE counter
         /\ writes' = writes + 1
         /\ UNCHANGED <<efd, worker, main, reads, got>>

WorkerReturn == /\ worker = "loop"
                /\ writes = WritesToDo
                /\ worker' = "returned"
                /\ UNCHANGED <<efd, counter, writes, main, reads, got>>

(* read() blocks while the counter is 0, and fails without a descriptor. *)
Read == /\ main = "loop"
        /\ reads < N
        /\ \/ /\ efd
              /\ counter > 0
              /\ got' = got + counter
              /\ counter' = CounterAfterRead
           \/ /\ ~efd
              /\ UNCHANGED <<got, counter>>
        /\ reads' = reads + 1
        /\ UNCHANGED <<efd, worker, writes, main>>

LoopDone == /\ main = "loop"
            /\ reads = N
            /\ main' = "join"
            /\ UNCHANGED <<efd, counter, worker, writes, reads, got>>

(* pthread_join(), close() *)
Join == /\ main = "join"
        /\ \/ worker = "returned" /\ main' = "returned"
           \/ worker = "new" /\ main' = "undefined"
        /\ UNCHANGED <<efd, counter, worker, writes, reads, got>>

Main == Open \/ Create \/ Read \/ LoopDone \/ Join
Worker == Write \/ WorkerReturn

Next == Main \/ Worker

(* Both threads are scheduled. *)
Spec == Init /\ [][Next]_vars /\ WF_vars(Main) /\ WF_vars(Worker)
-----------------------------------------------------------------------------
(* Every wake-up the worker wrote is in a count main() has read or in the  *)
(* counter, and is never in both: none is lost, none reported twice.       *)
NoWakeupLost == /\ writes \in 0 .. N
                /\ efd => reads \in 0 .. got /\ got + counter = writes
                /\ ~efd => got = 0 /\ counter = 0

Working == efd /\ worker # "new"

(* main() always gets to see every write. *)
AllWritesSeen == Working ~> (got = N)

(* main() comes out of its loop if no two writes were taken by one read();  *)
(* if some were, it waits for ever for a count that nobody will write.     *)
ReturnsUnlessMerged == <>Working /\ [](got = reads) => <>(main = "returned")
BlocksIfMerged == [](got > reads => [](main = "loop"))

(* If pthread_create() has failed nobody writes: main() never comes out of *)
(* its loop, unless eventfd() has failed too, for then read() does not     *)
(* block, and main() gets as far as the join in any case.                  *)
BlocksAlone == [](efd /\ main = "loop" /\ worker = "new" => [](main = "loop"))
FailingReadsEnd ==
  (main = "loop" /\ ~efd) ~> (main = IF worker = "new" THEN "undefined" ELSE "returned")
=============================================================================
