-------------------------- MODULE FutexMutexProofs --------------------------
(***************************************************************************)
(* What the futex mutex guarantees for any number of threads and any       *)
(* number of iterations.                                                   *)
(***************************************************************************)
EXTENDS FutexMutex, FiniteSetTheorems, TLAPS

(* The loop of worker() goes to lock() or to its end. *)
LEMMA NextIterationType == ASSUME NEW t PROVE NextIteration(t) \in Labels
BY DEF NextIteration, Labels

(* The type invariant of 05_futex_basic.c is inductive. *)
THEOREM TypeCorrect == Spec => []TypeOK
<1>1. Init => TypeOK
  BY NThreadsAssumption DEF Init, TypeOK, Threads, Labels
<1>2. TypeOK /\ [Next]_vars => TypeOK'
  <2> SUFFICES ASSUME TypeOK, [Next]_vars PROVE TypeOK'
    OBVIOUS
  <2>1. CASE Create
    <3>1. k' \in Threads
      BY <2>1, NThreadsAssumption DEF Create, TypeOK, Threads
    <3> QED BY <2>1, <3>1 DEF Create, TypeOK, Goto, Labels
  <2>2. CASE Join
    <3>1. k' \in Threads
      BY <2>2, NThreadsAssumption DEF Join, TypeOK, Threads
    <3> QED BY <2>2, <3>1 DEF Join, TypeOK
  <2>3. ASSUME NEW t \in Threads, Step(t) \/ SpuriousWake(t) PROVE TypeOK'
    <3> USE DEF TypeOK, Labels, Goto
    <3>1. CASE LockCAS(t) \/ LockXchg(t)
      BY <3>1 DEF LockCAS, LockXchg
    <3>2. CASE FutexWait(t) \/ SpuriousWake(t)
      BY <3>2 DEF FutexWait, SpuriousWake
    <3>3. CASE Load(t) \/ Store(t)
      BY <3>3 DEF Load, Store
    <3>4. CASE Unlock(t)
      BY <3>4, NextIterationType DEF Unlock
    <3>5. CASE FutexWake(t)
      BY <3>5, NextIterationType DEF FutexWake, Sleepers
    <3> QED BY <2>3, <3>1, <3>2, <3>3, <3>4, <3>5 DEF Step
  <2>4. CASE Terminated \/ UNCHANGED vars
    BY <2>4 DEF Terminated, vars, TypeOK
  <2> QED BY <2>1, <2>2, <2>3, <2>4 DEF Next
<1> QED BY <1>1, <1>2, PTL DEF Spec
-----------------------------------------------------------------------------
(* Mutual exclusion is not inductive alone: an exchange that returns 0     *)
(* admits a thread whatever the others do.  It becomes so with the fact    *)
(* that a held lock never reads 0.                                         *)
HeldIsNonZero == \A t \in Threads : InCS(t) => m # 0

Exclusion == HeldIsNonZero /\ MutualExclusion

(* Nobody starts inside the critical section. *)
LEMMA InitExclusion == Init => Exclusion
BY DEF Init, Exclusion, HeldIsNonZero, MutualExclusion, InCS

(* The futex word is 0 exactly while nobody is inside: each step of lock() *)
(* and unlock() keeps that.                                                *)
LEMMA NextExclusion == TypeOK /\ Exclusion /\ [Next]_vars => Exclusion'
<1> SUFFICES ASSUME TypeOK, Exclusion, [Next]_vars PROVE Exclusion'
  OBVIOUS
<1> USE DEF Exclusion, HeldIsNonZero, MutualExclusion, InCS, TypeOK, Goto
<1>1. CASE Create
  BY <1>1 DEF Create
<1>2. CASE Join \/ Terminated \/ UNCHANGED vars
  BY <1>2 DEF Join, Terminated, vars
<1>3. ASSUME NEW t \in Threads, Step(t) \/ SpuriousWake(t) PROVE Exclusion'
  <2>0. NextIteration(t) \in {"lock", "exited"}
    BY DEF NextIteration
  <2>1. CASE LockCAS(t)
    BY <2>1 DEF LockCAS
  <2>2. CASE LockXchg(t)
    BY <2>2 DEF LockXchg
  <2>3. CASE FutexWait(t) \/ SpuriousWake(t)
    BY <2>3 DEF FutexWait, SpuriousWake
  <2>4. CASE Load(t) \/ Store(t)
    BY <2>4 DEF Load, Store
  <2>5. CASE Unlock(t)
    BY <2>0, <2>5 DEF Unlock
  <2>6. CASE FutexWake(t)
    BY <2>0, <2>6 DEF FutexWake, Sleepers
  <2> QED BY <1>3, <2>1, <2>2, <2>3, <2>4, <2>5, <2>6 DEF Step
<1> QED BY <1>1, <1>2, <1>3 DEF Next

(* lock() and unlock() exclude, whatever the number of threads. *)
THEOREM MutexCorrect == Spec => []MutualExclusion
<1>1. Exclusion => MutualExclusion
  BY DEF Exclusion
<1> QED BY <1>1, TypeCorrect, InitExclusion, NextExclusion, PTL DEF Spec
-----------------------------------------------------------------------------
(* main() starts each worker at most once, and gets past its join only if  *)
(* the worker was made and has ended; a worker inside its loop has an      *)
(* iteration left.                                                         *)
Lifecycle == /\ main = "create" => \A t \in Threads : t >= k => pc[t] = "new"
             /\ main = "join" => \A t \in Threads : t < k => pc[t] = "exited"
             /\ main = "print" => \A t \in Threads : pc[t] = "exited"

LoopBound == \A t \in Threads : IF pc[t] = "exited" THEN i[t] = N ELSE i[t] < N

(* What a thread has loaded is current until it stores. *)
RegCurrent == \A t \in Threads : pc[t] = "store" => reg[t] = shared

IInv == TypeOK /\ Exclusion /\ Lifecycle /\ LoopBound /\ RegCurrent

(* The strengthened invariant holds before main() creates a thread. *)
LEMMA InitIInv == Init => IInv
<1> SUFFICES ASSUME Init PROVE IInv
  OBVIOUS
<1>1. TypeOK
  BY NThreadsAssumption DEF Init, TypeOK, Threads, Labels
<1>2. Lifecycle /\ LoopBound /\ RegCurrent
  BY NAssumption DEF Init, Lifecycle, LoopBound, RegCurrent
<1> QED BY <1>1, <1>2, InitExclusion DEF IInv

(* Every step of main() and of the workers keeps it. *)
LEMMA NextIInv == IInv /\ TypeOK' /\ [Next]_vars => IInv'
<1> SUFFICES ASSUME IInv, TypeOK', [Next]_vars
             PROVE  (Lifecycle /\ LoopBound /\ RegCurrent)'
  BY NextExclusion DEF IInv
<1> USE NAssumption DEF IInv, TypeOK, Goto
<1>1. CASE Create
  <2>1. Lifecycle'
    BY <1>1, NThreadsAssumption DEF Create, Lifecycle, Threads
  <2>2. LoopBound' /\ RegCurrent'
    BY <1>1 DEF Create, Lifecycle, LoopBound, RegCurrent, Threads
  <2> QED BY <2>1, <2>2
<1>2. CASE Join
  <2>1. Lifecycle'
    BY <1>2, NThreadsAssumption DEF Join, Lifecycle, Threads
  <2>2. LoopBound' /\ RegCurrent'
    BY <1>2 DEF Join, LoopBound, RegCurrent
  <2> QED BY <2>1, <2>2
<1>3. CASE Terminated \/ UNCHANGED vars
  BY <1>3 DEF Terminated, vars, Lifecycle, LoopBound, RegCurrent
<1>4. ASSUME NEW t \in Threads, Step(t) \/ SpuriousWake(t)
      PROVE  (Lifecycle /\ LoopBound /\ RegCurrent)'
  <2>0. pc[t] \notin {"new", "exited"} /\ UNCHANGED <<main, k>>
    BY <1>4 DEF Step, LockCAS, LockXchg, FutexWait, SpuriousWake, Load,
                Store, Unlock, FutexWake
  <2>1. Lifecycle'
    <3>1. ASSUME NEW u \in Threads, pc[u] \in {"new", "exited"}
          PROVE  pc'[u] = pc[u]
      BY <1>4, <2>0, <3>1
         DEF Step, LockCAS, LockXchg, FutexWait, SpuriousWake, Load, Store,
             Unlock, FutexWake, Sleepers
    <3> QED BY <2>0, <3>1 DEF Lifecycle
  <2>2. LoopBound'
    <3>1. CASE UNCHANGED i /\ \A u \in Threads : pc'[u] = "exited" <=> pc[u] = "exited"
      BY <3>1 DEF LoopBound
    <3>2. CASE Unlock(t) \/ FutexWake(t)
      BY <3>2 DEF Unlock, FutexWake, Sleepers, NextIteration, LoopBound
    <3> QED
      BY <1>4, <3>1, <3>2 DEF Step, LockCAS, LockXchg, FutexWait,
                               SpuriousWake, Load, Store
  <2>3. RegCurrent'
    <3>1. CASE Load(t)
      BY <3>1 DEF Load, RegCurrent
    <3>2. CASE Store(t)
      BY <3>2 DEF Store, RegCurrent, Exclusion, MutualExclusion, InCS
    <3>3. CASE UNCHANGED <<shared, reg>>
               /\ \A u \in Threads : pc'[u] = "store" => pc[u] = "store"
      BY <3>3 DEF RegCurrent
    <3> QED
      BY <1>4, <3>1, <3>2, <3>3
         DEF Step, LockCAS, LockXchg, FutexWait, SpuriousWake, Unlock,
             FutexWake, Sleepers, NextIteration
  <2> QED BY <2>1, <2>2, <2>3
<1> QED BY <1>1, <1>2, <1>3, <1>4 DEF Next

(* Hence it holds throughout. *)
LEMMA IInvHolds == Spec => []IInv
BY TypeCorrect, InitIInv, NextIInv, PTL DEF Spec
-----------------------------------------------------------------------------
(* The sleepers' guarantee needs only that main() starts no thread twice:  *)
(* unlock() keeps it by turning the 2 it erases into a FUTEX_WAKE, and     *)
(* FUTEX_WAKE by turning a sleeper into a thread that writes the 2 back.   *)
THEOREM WakeupCorrect == Spec => []NoLostWakeup
<1>1. Init => NoLostWakeup
  BY DEF Init, NoLostWakeup, Sleepers
<1>2. IInv /\ NoLostWakeup /\ [Next]_vars => NoLostWakeup'
  <2> SUFFICES ASSUME IInv, NoLostWakeup, [Next]_vars PROVE NoLostWakeup'
    OBVIOUS
  <2> USE DEF NoLostWakeup, Sleepers, IInv, TypeOK, Goto
  <2>1. CASE Create
    <3>1. CASE pc' = pc
      BY <2>1, <3>1 DEF Create
    <3>2. CASE pc' = [pc EXCEPT ![k] = "lock"]
      BY <2>1, <3>2 DEF Create, Lifecycle, Threads
    <3> QED BY <2>1, <3>1, <3>2 DEF Create
  <2>2. CASE Join \/ Terminated \/ UNCHANGED vars
    BY <2>2 DEF Join, Terminated, vars
  <2>3. ASSUME NEW t \in Threads, Step(t) \/ SpuriousWake(t)
        PROVE NoLostWakeup'
    <3>0. NextIteration(t) \in {"lock", "exited"}
      BY DEF NextIteration
    <3>1. CASE LockCAS(t)
      BY <3>1 DEF LockCAS
    <3>2. CASE LockXchg(t)
      BY <3>2 DEF LockXchg
    <3>3. CASE FutexWait(t) \/ SpuriousWake(t)
      BY <3>3 DEF FutexWait, SpuriousWake
    <3>4. CASE Load(t) \/ Store(t)
      BY <3>4 DEF Load, Store
    <3>5. CASE Unlock(t)
      BY <3>0, <3>5 DEF Unlock
    <3>6. CASE FutexWake(t)
      BY <3>0, <3>6 DEF FutexWake
    <3> QED BY <2>3, <3>1, <3>2, <3>3, <3>4, <3>5, <3>6 DEF Step
  <2> QED BY <2>1, <2>2, <2>3 DEF Next
<1> QED BY <1>1, <1>2, IInvHolds, PTL DEF Spec
-----------------------------------------------------------------------------
(* Every store to `shared` adds one although it is a separate load and     *)
(* store.                                                                  *)
THEOREM NoUpdateLost == Spec => NoLostUpdate
<1>1. IInv /\ [Next]_vars => [shared' # shared => shared' = shared + 1]_vars
  <2> SUFFICES ASSUME IInv, Next, shared' # shared PROVE shared' = shared + 1
    BY DEF vars
  <2>1. PICK t \in Threads : Store(t)
    BY DEF Next, Create, Join, Step, LockCAS, LockXchg, FutexWait,
           SpuriousWake, Load, Unlock, FutexWake, Terminated, vars
  <2> QED BY <2>1 DEF Store, IInv, RegCurrent
<1> QED BY <1>1, IInvHolds, PTL DEF Spec, NoLostUpdate
-----------------------------------------------------------------------------
(* The program implements AtomicCounter: the store of `shared++` is the    *)
(* abstract increment, every other step a stutter.                         *)
Done == [t \in Threads |->
           IF pc[t] \in {"unlock", "fwake"} THEN i[t] + 1 ELSE i[t]]

(* A store to `shared` is an increment of the counter; every other step    *)
(* leaves the counter alone.                                               *)
LEMMA StepRefines == IInv /\ IInv' /\ [Next]_vars =>
                       \/ UNCHANGED <<shared, Done>>
                       \/ \E t \in Threads : /\ Done[t] < N
                                             /\ Done' = [Done EXCEPT ![t] = @ + 1]
                                             /\ shared' = shared + 1
<1> SUFFICES ASSUME IInv, [Next]_vars
             PROVE  \/ UNCHANGED <<shared, Done>>
                    \/ \E t \in Threads : /\ Done[t] < N
                                          /\ Done' = [Done EXCEPT ![t] = @ + 1]
                                          /\ shared' = shared + 1
  OBVIOUS
<1> USE DEF IInv, TypeOK, Goto, Done
<1>1. CASE Create
  <2>1. CASE pc' = pc
    BY <1>1, <2>1 DEF Create
  <2>2. CASE pc' = [pc EXCEPT ![k] = "lock"]
    BY <1>1, <2>2 DEF Create, Lifecycle, Threads
  <2> QED BY <1>1, <2>1, <2>2 DEF Create
<1>2. CASE Join \/ Terminated \/ UNCHANGED vars
  BY <1>2 DEF Join, Terminated, vars
<1>3. ASSUME NEW t \in Threads, Store(t)
      PROVE  /\ Done[t] < N
             /\ Done' = [Done EXCEPT ![t] = @ + 1]
             /\ shared' = shared + 1
  BY <1>3, NAssumption DEF Store, RegCurrent, LoopBound
<1>4. ASSUME NEW t \in Threads, SpuriousWake(t) \/ Step(t), ~Store(t)
      PROVE  UNCHANGED <<shared, Done>>
  <2>0. NextIteration(t) \in {"lock", "exited"}
    BY DEF NextIteration
  <2>1. CASE LockCAS(t) \/ LockXchg(t) \/ FutexWait(t) \/ SpuriousWake(t) \/ Load(t)
    BY <2>1 DEF LockCAS, LockXchg, FutexWait, SpuriousWake, Load
  <2>2. CASE Unlock(t)
    BY <2>0, <2>2 DEF Unlock
  <2>3. CASE FutexWake(t)
    BY <2>0, <2>3 DEF FutexWake, Sleepers
  <2> QED BY <1>4, <2>1, <2>2, <2>3 DEF Step
<1> QED BY <1>1, <1>2, <1>3, <1>4 DEF Next

(* The workers of 05_futex_basic.c implement an atomic counter. *)
THEOREM RefinesCounter == Spec => ImplementsCounter
<1>1. Init => Counter!Init
  BY DEF Init, Counter!Init
<1>2. IInv /\ IInv' /\ [Next]_vars => [Counter!Next]_(Counter!vars)
  BY StepRefines DEF Counter!Next, Counter!Increment, Counter!vars, Done
<1> QED BY <1>1, <1>2, IInvHolds, PTL DEF Spec, ImplementsCounter, Counter!Spec
-----------------------------------------------------------------------------
(* The sum of the workers' increments without a sum: the pairs (worker,    *)
(* increment) that have happened.                                          *)
Performed == {p \in Threads \X (1..N) : p[2] <= Done[p[1]]}

CountInv == shared = Cardinality(Performed)

(* There are N * NThreads increments. *)
LEMMA AllPairs == /\ IsFiniteSet(Threads \X (1..N))
                  /\ Cardinality(Threads \X (1..N)) = NThreads * N
<1>1. /\ IsFiniteSet(Threads)
      /\ Cardinality(Threads) = NThreads
  BY NThreadsAssumption, FS_Interval DEF Threads
<1>2. /\ IsFiniteSet(1..N)
      /\ Cardinality(1..N) = N
  BY NAssumption, FS_Interval
<1> QED BY <1>1, <1>2, FS_Product

(* The line main() prints is `shared=` N * NThreads. *)
THEOREM PrintCorrect == Spec => []PrintsExpected
<1>1. Init => CountInv
  <2> SUFFICES ASSUME Init PROVE CountInv
    OBVIOUS
  <2>1. Performed = {}
    BY NAssumption DEF Init, Performed, Done
  <2> QED BY <2>1, FS_EmptySet DEF CountInv, Init
<1>2. IInv /\ IInv' /\ CountInv /\ [Next]_vars => CountInv'
  <2> SUFFICES ASSUME IInv, IInv', CountInv, [Next]_vars PROVE CountInv'
    OBVIOUS
  <2>1. CASE UNCHANGED <<shared, Done>>
    BY <2>1 DEF CountInv, Performed
  <2>2. ASSUME NEW t \in Threads, Done[t] < N,
               Done' = [Done EXCEPT ![t] = @ + 1], shared' = shared + 1
        PROVE  CountInv'
    <3>1. Done \in [Threads -> Nat]
      BY DEF IInv, TypeOK, Done
    <3>2. Performed' = Performed \cup {<<t, Done[t] + 1>>}
      BY <2>2, <3>1, NAssumption DEF Performed
    <3>3. <<t, Done[t] + 1>> \notin Performed
      BY <3>1 DEF Performed
    <3>4. IsFiniteSet(Performed)
      BY AllPairs, FS_Subset DEF Performed
    <3> QED BY <2>2, <3>2, <3>3, <3>4, FS_AddElement DEF CountInv
  <2> QED BY <2>1, <2>2, StepRefines
<1>3. IInv /\ CountInv => PrintsExpected
  <2> SUFFICES ASSUME IInv, CountInv, main = "print"
               PROVE  shared = NThreads * N
    BY DEF PrintsExpected
  <2>1. Performed = Threads \X (1..N)
    BY NAssumption DEF IInv, Lifecycle, LoopBound, Performed, Done
  <2> QED BY <2>1, AllPairs DEF CountInv
<1> QED BY <1>1, <1>2, <1>3, IInvHolds, PTL DEF Spec
=============================================================================
