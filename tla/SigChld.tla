------------------------------- MODULE SigChld ------------------------------
(***************************************************************************)
(* 08_process_syscalls/10_sigchld.c: a parent forks N children, reaps them *)
(* in a SIGCHLD handler that loops over waitpid(WNOHANG), and pauses until *)
(* it has counted N.  SIGCHLD is one bit: two exits may make one signal.   *)
(* The handler runs between two steps of main(), with SIGCHLD blocked.     *)
(***************************************************************************)
EXTENDS Naturals, FiniteSets

CONSTANT N \* children (5 in the program)

ASSUME NAssumption == N \in Nat

Children == 1 .. N

VARIABLES
  pc,      \* where main() is
  i,       \* children main() has tried to fork
  child,   \* child[c]: what has become of child c
  pending, \* the bit that says a SIGCHLD is pending
  handler, \* on_chld(): "idle" or "loop"
  reaped

vars == <<pc, i, child, pending, handler, reaped>>

Zombies == {c \in Children : child[c] = "zombie"}

Main(from, to) == handler = "idle" /\ pc = from /\ pc' = to

(* Mistakes for the mutation runs: the handler the comment warns about,    *)
(* which reaps one child per signal, and a loop in main() that ends one    *)
(* child early.                                                            *)
ReapOne == /\ handler = "loop"
           /\ handler' = "idle"
           /\ \E c \in Zombies : /\ child' = [child EXCEPT ![c] = "reaped"]
                                 /\ reaped' = reaped + 1
           /\ UNCHANGED <<pc, i, pending>>
EnoughEarly == reaped >= N - 1
-----------------------------------------------------------------------------
(* After sigaction(). *)
Init == /\ pc = "fork"
        /\ i = 0
        /\ child = [c \in Children |-> "none"]
        /\ pending = 0
        /\ handler = "idle"
        /\ reaped = 0

(* The loop takes no notice of a fork() that fails. *)
Fork == /\ i < N
        /\ Main("fork", "fork")
        /\ i' = i + 1
        /\ \/ child' = [child EXCEPT ![i + 1] = "running"]
           \/ child' = [child EXCEPT ![i + 1] = "failed"]
        /\ UNCHANGED <<pending, handler, reaped>>

AllForked == /\ i = N
             /\ Main("fork", "test")
             /\ UNCHANGED <<i, child, pending, handler, reaped>>

Enough == reaped >= N

(* while (reaped < 5) *)
Test == /\ Main("test", IF Enough THEN "print" ELSE "pause")
        /\ UNCHANGED <<i, child, pending, handler, reaped>>

Pause == /\ Main("pause", "asleep")
         /\ UNCHANGED <<i, child, pending, handler, reaped>>

Report == /\ Main("print", "exited")
         /\ UNCHANGED <<i, child, pending, handler, reaped>>

(* A child's _exit(): it becomes a zombie and SIGCHLD becomes pending. *)
ChildExit(c) == /\ child[c] = "running"
                /\ child' = [child EXCEPT ![c] = "zombie"]
                /\ pending' = 1
                /\ UNCHANGED <<pc, i, handler, reaped>>

Deliver == /\ pending = 1 /\ handler = "idle" /\ pc # "exited"
           /\ pending' = 0
           /\ handler' = "loop"
           /\ pc' = IF pc = "asleep" THEN "test" ELSE pc
           /\ UNCHANGED <<i, child, reaped>>

(* on_chld(): one successful call of waitpid(), and the one that is not. *)
Reap == /\ handler = "loop"
        /\ \E c \in Zombies : child' = [child EXCEPT ![c] = "reaped"]
        /\ reaped' = reaped + 1
        /\ UNCHANGED <<pc, i, pending, handler>>

ReapNothing == /\ handler = "loop"
               /\ Zombies = {}
               /\ handler' = "idle"
               /\ UNCHANGED <<pc, i, child, pending, reaped>>

Parent == Fork \/ AllForked \/ Test \/ Pause \/ Report \/ Deliver \/ Reap \/ ReapNothing

Next == Parent \/ \E c \in Children : ChildExit(c)

(* The parent is scheduled, signals are delivered and every child's sleep  *)
(* ends.                                                                   *)
Spec == /\ Init /\ [][Next]_vars
        /\ WF_vars(Parent)
        /\ \A c \in Children : WF_vars(ChildExit(c))
-----------------------------------------------------------------------------
TypeOK == /\ pc \in {"fork", "test", "pause", "asleep", "print", "exited"}
          /\ i \in 0 .. N
          /\ child \in [Children -> {"none", "running", "zombie", "reaped", "failed"}]
          /\ pending \in {0, 1}
          /\ handler \in {"idle", "loop"}
          /\ reaped \in 0 .. N

(* No exit is forgotten although signals merge: while there is a zombie a  *)
(* signal is still to come or on_chld() is in its loop.                    *)
NoZombieForgotten == Zombies # {} => pending = 1 \/ handler = "loop"

(* reaped counts the children reaped, and main() reports all of them.      *)
CountIsRight == /\ reaped = Cardinality({c \in Children : child[c] = "reaped"})
                /\ pc \in {"print", "exited"} =>
                     \A c \in Children : child[c] = "reaped"

(* Every child that exits is reaped in the end. *)
EveryChildReaped == \A c \in Children : child[c] = "zombie" ~> child[c] = "reaped"

(* "sleep generously so SIGCHLDs land": once they have, main() reports the *)
(* children.  It does not if on_chld() counts the last one after the test  *)
(* of reaped and before pause() has gone to sleep.                         *)
AllReapedIsReported == (reaped = N) ~> pc = "exited"
=============================================================================
