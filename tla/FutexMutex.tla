----------------------------- MODULE FutexMutex -----------------------------
(***************************************************************************)
(* 09_threads_memory/05_futex_basic.c: a mutex built on one futex word and *)
(* the program that uses it, main() creating and joining workers that each *)
(* increment `shared` N times under the lock.                              *)
(*                                                                         *)
(* One step per access to shared memory: each atomic read-modify-write of  *)
(* m, each system call, and the load and the store of `shared++`, which is *)
(* not atomic.  The orderings the code asks for (acquire on lock, release  *)
(* on unlock) make an interleaving of these steps the right semantics.     *)
(***************************************************************************)
EXTENDS Integers

CONSTANTS NThreads, \* workers main() creates (2 in the program)
          N         \* iterations of each worker (100000 in the program)

ASSUME NThreadsAssumption == NThreads \in Nat \ {0}
ASSUME NAssumption == N \in Nat \ {0}

Threads == 1..NThreads

VARIABLES
  m,      \* the futex word: 0 unlocked, 1 locked, 2 locked and contended
  shared, \* the counter the mutex protects
  pc,     \* pc[t]: where worker t is
  i,      \* i[t]: iterations of worker()'s loop that t has completed
  reg,    \* reg[t]: what t loaded from `shared`
  main,   \* what main() is doing
  k       \* the thread main() creates or joins next

vars == <<m, shared, pc, i, reg, main, k>>

Labels == {"new", "lock", "xchg", "fwait", "sleep", "load", "store",
           "unlock", "fwake", "exited"}

(* The critical section: from the return of lock() to the exchange in      *)
(* unlock() that gives the mutex up.                                       *)
InCS(t) == pc[t] \in {"load", "store", "unlock"}

Sleepers == {t \in Threads : pc[t] = "sleep"}

Goto(t, l) == pc' = [pc EXCEPT ![t] = l]
-----------------------------------------------------------------------------
(* Mistakes one could make in the functions below, each an operator with   *)
(* the parameters of the one it would replace; nothing else uses them.     *)

(* A counting lock word in place of the two locked states. *)
LockXchgCounts(t) == /\ pc[t] = "xchg"
                     /\ m' = m + 1
                     /\ Goto(t, IF m = 0 THEN "load" ELSE "fwait")
                     /\ UNCHANGED <<shared, i, reg, main, k>>

(* A woken waiter that takes the lock as uncontended. *)
LockXchgForgetsWaiters(t) == /\ pc[t] = "xchg"
                             /\ m' = IF m = 0 THEN 1 ELSE 2
                             /\ Goto(t, IF m = 0 THEN "load" ELSE "fwait")
                             /\ UNCHANGED <<shared, i, reg, main, k>>

(* `if` where the source has `while`: no second look after the wait. *)
FutexWaitOnce(t) == /\ pc[t] = "fwait"
                    /\ Goto(t, IF m = 2 THEN "sleep" ELSE "load")
                    /\ UNCHANGED <<m, shared, i, reg, main, k>>

(* One iteration too many. *)
NextIterationOffByOne(t) == IF i[t] + 1 <= N THEN "lock" ELSE "exited"

(* Releasing without a wake-up. *)
UnlockNeverWakes(t) == /\ pc[t] = "unlock"
                       /\ m' = 0
                       /\ Goto(t, IF i[t] + 1 < N THEN "lock" ELSE "exited")
                       /\ i' = [i EXCEPT ![t] = @ + 1]
                       /\ UNCHANGED <<shared, reg, main, k>>
-----------------------------------------------------------------------------
(* lock() *)

LockCAS(t) == /\ pc[t] = "lock"
              /\ \/ /\ m = 0
                    /\ m' = 1
                    /\ Goto(t, "load")
                 \/ /\ m # 0
                    /\ m' = m
                    /\ Goto(t, "xchg")
              /\ UNCHANGED <<shared, i, reg, main, k>>

LockXchg(t) == /\ pc[t] = "xchg"
               /\ m' = 2
               /\ Goto(t, IF m = 0 THEN "load" ELSE "fwait")
               /\ UNCHANGED <<shared, i, reg, main, k>>

(* FUTEX_WAIT compares the word with 2 and queues the caller in one step;  *)
(* a word that has changed makes it return at once (EAGAIN).               *)
FutexWait(t) == /\ pc[t] = "fwait"
                /\ Goto(t, IF m = 2 THEN "sleep" ELSE "xchg")
                /\ UNCHANGED <<m, shared, i, reg, main, k>>

(* FUTEX_WAIT may return although nobody woke the caller. *)
SpuriousWake(t) == /\ pc[t] = "sleep"
                   /\ Goto(t, "xchg")
                   /\ UNCHANGED <<m, shared, i, reg, main, k>>
-----------------------------------------------------------------------------
(* worker(): the loop body and its end *)

Load(t) == /\ pc[t] = "load"
           /\ reg' = [reg EXCEPT ![t] = shared]
           /\ Goto(t, "store")
           /\ UNCHANGED <<m, shared, i, main, k>>

Store(t) == /\ pc[t] = "store"
            /\ shared' = reg[t] + 1
            /\ Goto(t, "unlock")
            /\ UNCHANGED <<m, i, reg, main, k>>

NextIteration(t) == IF i[t] + 1 < N THEN "lock" ELSE "exited"
-----------------------------------------------------------------------------
(* unlock() *)

Unlock(t) == /\ pc[t] = "unlock"
             /\ m' = 0
             /\ \/ /\ m = 2
                   /\ Goto(t, "fwake")
                   /\ i' = i
                \/ /\ m # 2
                   /\ Goto(t, NextIteration(t))
                   /\ i' = [i EXCEPT ![t] = @ + 1]
             /\ UNCHANGED <<shared, reg, main, k>>

(* FUTEX_WAKE(1) releases one sleeper, the kernel chooses which, if any. *)
FutexWake(t) ==
  /\ pc[t] = "fwake"
  /\ \/ /\ Sleepers = {}
        /\ Goto(t, NextIteration(t))
     \/ \E s \in Sleepers :
          pc' = [pc EXCEPT ![t] = NextIteration(t), ![s] = "xchg"]
  /\ i' = [i EXCEPT ![t] = @ + 1]
  /\ UNCHANGED <<m, shared, reg, main, k>>
-----------------------------------------------------------------------------
(* main(): create every worker, then join every worker, in order.          *)
(* Neither call is checked.  pthread_create() may fail: the worker is then *)
(* never made and its pthread_t never set, and joining it is undefined;    *)
(* the model stops there.                                                  *)

Create == /\ main = "create"
          /\ Goto(k, "lock") \/ pc' = pc
          /\ \/ /\ k < NThreads
                /\ k' = k + 1
                /\ main' = main
             \/ /\ k = NThreads
                /\ k' = 1
                /\ main' = "join"
          /\ UNCHANGED <<m, shared, i, reg>>

Join == /\ main = "join"
        /\ \/ /\ pc[k] = "exited"
              /\ k < NThreads
              /\ k' = k + 1
              /\ main' = main
           \/ /\ pc[k] = "exited"
              /\ k = NThreads
              /\ k' = k
              /\ main' = "print"
           \/ /\ pc[k] = "new"
              /\ k' = k
              /\ main' = "undefined"
        /\ UNCHANGED <<m, shared, pc, i, reg>>

Init == /\ m = 0
        /\ shared = 0
        /\ pc = [t \in Threads |-> "new"]
        /\ i = [t \in Threads |-> 0]
        /\ reg = [t \in Threads |-> 0]
        /\ main = "create"
        /\ k = 1

Step(t) == \/ LockCAS(t) \/ LockXchg(t) \/ FutexWait(t)
           \/ Load(t) \/ Store(t) \/ Unlock(t) \/ FutexWake(t)

(* Nothing is said of what comes after the undefined join. *)
Defined == main # "undefined"

(* The program ends once main() has joined everyone and printed. *)
Terminated == main \in {"print", "undefined"} /\ UNCHANGED vars

Next == \/ Create \/ Join
        \/ Defined /\ \E t \in Threads : Step(t) \/ SpuriousWake(t)
        \/ Terminated

Spec == Init /\ [][Next]_vars

(* The scheduler eventually runs every thread that can run; nobody         *)
(* promises a spurious wake-up.                                            *)
Fairness == /\ WF_vars(Create \/ Join)
            /\ \A t \in Threads : WF_vars(Defined /\ Step(t))

FairSpec == Spec /\ Fairness
-----------------------------------------------------------------------------
(* Every variable stays in the range its C type and use give it. *)
TypeOK == /\ m \in {0, 1, 2}
          /\ shared \in Nat
          /\ pc \in [Threads -> Labels]
          /\ i \in [Threads -> Nat]
          /\ reg \in [Threads -> Nat]
          /\ main \in {"create", "join", "print", "undefined"}
          /\ k \in Threads

(* lock() and unlock() exclude: no two workers are between them. *)
MutualExclusion == \A t, u \in Threads : InCS(t) /\ InCS(u) => t = u

(* No sleeper is forgotten: while a thread sleeps in FUTEX_WAIT, either    *)
(* the word still says 2, so that the unlock to come will wake someone, or *)
(* a wake-up is on its way: a thread about to call FUTEX_WAKE, or one      *)
(* about to write the 2 back.                                              *)
NoLostWakeup ==
  Sleepers # {} => m = 2 \/ \E t \in Threads : pc[t] \in {"fwake", "xchg"}

(* `shared++` under the lock loses no update: every store adds exactly one *)
(* although the load and the store are separate steps.                     *)
NoLostUpdate == [][shared' # shared => shared' = shared + 1]_vars

(* The line main() prints: shared == expected (2 * N in the program); it   *)
(* is reached only when every worker was made.                             *)
PrintsExpected == main = "print" => shared = NThreads * N

(* main() joins every worker: no schedule leaves a worker asleep.  Only a  *)
(* worker that pthread_create() could not make keeps main() from printing. *)
Termination == <>(main = IF \E t \in Threads : pc[t] = "new" THEN "undefined"
                         ELSE "print")

(* The program implements N atomic increments by each worker. *)
Counter == INSTANCE AtomicCounter WITH
             Workers <- Threads,
             done <- [t \in Threads |->
                        IF pc[t] \in {"unlock", "fwake"} THEN i[t] + 1 ELSE i[t]]

ImplementsCounter == Counter!Spec
=============================================================================
