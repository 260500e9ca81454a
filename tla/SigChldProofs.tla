--------------------------- MODULE SigChldProofs ----------------------------
(***************************************************************************)
(* Proofs about SigChld, for every number of children.  The count needs    *)
(* one fact beyond the properties themselves: a child main() has not       *)
(* forked yet is neither a zombie nor reaped.                              *)
(***************************************************************************)
EXTENDS SigChld, FiniteSetTheorems, TLAPS

Reaped == {c \in Children : child[c] = "reaped"}
States == {"none", "running", "zombie", "reaped", "failed"}
Places == {"fork", "test", "pause", "asleep", "print", "exited"}

Types == /\ pc \in Places
         /\ i \in 0 .. N
         /\ child \in [Children -> States]
         /\ pending \in {0, 1}
         /\ handler \in {"idle", "loop"}
         /\ reaped \in Nat

NotYetForked == \A c \in Children : c > i => child[c] = "none"
CountsReaped == reaped = Cardinality(Reaped)
ReportsAll == pc \in {"print", "exited"} => reaped >= N

IInv == Types /\ NotYetForked /\ CountsReaped /\ ReportsAll /\ NoZombieForgotten

(* The children are a finite set of N. *)
LEMMA ChildrenFinite == IsFiniteSet(Children) /\ Cardinality(Children) = N
BY NAssumption, FS_Interval DEF Children

(* So are the ones reaped, and when there are N of them they are all.      *)
LEMMA ReapedFacts == /\ IsFiniteSet(Reaped)
                     /\ Cardinality(Reaped) \in Nat
                     /\ Cardinality(Reaped) <= N
                     /\ Cardinality(Reaped) = N => Reaped = Children
<1>1. Reaped \subseteq Children
  BY DEF Reaped
<1>2. IsFiniteSet(Reaped) /\ Cardinality(Reaped) <= Cardinality(Children)
      /\ (Cardinality(Reaped) = Cardinality(Children) => Reaped = Children)
  BY <1>1, ChildrenFinite, FS_Subset
<1>3. Cardinality(Reaped) \in Nat
  BY <1>2, FS_CardinalityType
<1> QED BY <1>2, <1>3, ChildrenFinite

(* Nobody has been forked when main() enters its loop. *)
LEMMA InitIInv == Init => IInv
<1> SUFFICES ASSUME Init PROVE IInv
  OBVIOUS
<1>1. Types /\ NotYetForked /\ ReportsAll /\ NoZombieForgotten
  BY NAssumption DEF Init, Types, Places, States, NotYetForked, ReportsAll,
                     NoZombieForgotten, Zombies
<1>2. Reaped = {}
  BY DEF Init, Reaped
<1> QED BY <1>1, <1>2, FS_EmptySet DEF IInv, CountsReaped, Init

(* Each step of main(), of on_chld(), of the kernel and of the children    *)
(* keeps the invariant; only a successful waitpid() changes the count.     *)
LEMMA NextIInv == IInv /\ [Next]_vars => IInv'
<1> SUFFICES ASSUME IInv, [Next]_vars PROVE IInv'
  OBVIOUS
<1> USE DEF IInv, Types, Places, States
<1>1. CASE Fork
  <2>1. i + 1 \in Children /\ child[i + 1] = "none"
    BY <1>1, NAssumption DEF Fork, Children, NotYetForked
  <2>2. Reaped' = Reaped /\ Zombies' = Zombies
    BY <1>1, <2>1 DEF Fork, Reaped, Zombies
  <2>3. Types' /\ NotYetForked'
    BY <1>1, <2>1, NAssumption DEF Fork, Main, NotYetForked, Children
  <2> QED BY <1>1, <2>2, <2>3
          DEF Fork, Main, CountsReaped, ReportsAll, NoZombieForgotten
<1>2. CASE AllForked \/ Pause \/ Report \/ Test \/ UNCHANGED vars
  <2>1. UNCHANGED <<i, child, pending, handler, reaped>> /\ pc' \in Places
    BY <1>2 DEF AllForked, Pause, Report, Test, Main, vars
  <2>2. Reaped' = Reaped /\ Zombies' = Zombies
    BY <2>1 DEF Reaped, Zombies
  <2>3. ReportsAll'
    BY <1>2, NAssumption
       DEF AllForked, Pause, Report, Test, Main, vars, ReportsAll, Enough
  <2> QED BY <2>1, <2>2, <2>3 DEF NotYetForked, CountsReaped, NoZombieForgotten
<1>3. ASSUME NEW c \in Children, ChildExit(c) PROVE IInv'
  <2>1. Reaped' = Reaped
    BY <1>3 DEF ChildExit, Reaped
  <2>2. Types' /\ NotYetForked'
    BY <1>3 DEF ChildExit, NotYetForked
  <2> QED BY <1>3, <2>1, <2>2 DEF ChildExit, CountsReaped, ReportsAll, NoZombieForgotten
<1>4. CASE Deliver
  <2>1. Reaped' = Reaped
    BY <1>4 DEF Deliver, Reaped
  <2> QED BY <1>4, <2>1
          DEF Deliver, NotYetForked, CountsReaped, ReportsAll, NoZombieForgotten
<1>5. CASE Reap
  <2>1. PICK c \in Zombies : child' = [child EXCEPT ![c] = "reaped"]
    BY <1>5 DEF Reap
  <2>2. c \in Children /\ c \notin Reaped /\ Reaped' = Reaped \cup {c}
    BY <2>1 DEF Zombies, Reaped
  <2>3. Cardinality(Reaped') = Cardinality(Reaped) + 1
    BY <2>2, ReapedFacts, FS_AddElement
  <2>4. Types' /\ NotYetForked'
    BY <1>5, <2>1, <2>2, NAssumption DEF Reap, NotYetForked, Zombies, Children
  <2>5. CountsReaped'
    BY <1>5, <2>3 DEF Reap, CountsReaped
  <2>6. ReportsAll'
    BY <1>5, NAssumption DEF Reap, ReportsAll
  <2>7. NoZombieForgotten'
    BY <1>5 DEF Reap, NoZombieForgotten
  <2> QED BY <2>4, <2>5, <2>6, <2>7
<1>6. CASE ReapNothing
  <2>1. Reaped' = Reaped /\ Zombies' = {}
    BY <1>6 DEF ReapNothing, Reaped, Zombies
  <2> QED BY <1>6, <2>1
          DEF ReapNothing, NotYetForked, CountsReaped, ReportsAll, NoZombieForgotten
<1> QED BY <1>1, <1>2, <1>3, <1>4, <1>5, <1>6 DEF Next, Parent

(* Hence it holds throughout. *)
LEMMA Invariance == Spec => []IInv
BY InitIInv, NextIInv, PTL DEF Spec

(* The parent never counts more children in on_chld() than it forked. *)
THEOREM TypeCorrect == Spec => []TypeOK
<1>1. IInv => TypeOK
  BY ReapedFacts, NAssumption DEF IInv, Types, Places, States, CountsReaped, TypeOK
<1> QED BY <1>1, Invariance, PTL

(* The WNOHANG loop of on_chld() makes up for the signals that merge: a    *)
(* zombie always has a signal or a running handler to its name.            *)
THEOREM ZombiesCorrect == Spec => []NoZombieForgotten
<1>1. IInv => NoZombieForgotten
  BY DEF IInv
<1> QED BY <1>1, Invariance, PTL

(* on_chld() counts each child once, and main() reports only when every    *)
(* one of the N has been reaped.                                           *)
THEOREM CountCorrect == Spec => []CountIsRight
<1>1. ASSUME IInv PROVE CountIsRight
  <2>1. reaped = Cardinality(Reaped)
    BY <1>1 DEF IInv, CountsReaped
  <2>2. ASSUME pc \in {"print", "exited"} PROVE Reaped = Children
    BY <1>1, <2>1, <2>2, ReapedFacts, NAssumption DEF IInv, ReportsAll, Types
  <2> QED BY <2>1, <2>2 DEF CountIsRight, Reaped
<1> QED BY <1>1, Invariance, PTL
=============================================================================
