------------------------------ MODULE SignalFd ------------------------------
(***************************************************************************)
(* 10_ipc_memory/08_signalfd.c: SIGINT and SIGTERM are blocked and read    *)
(* from a descriptor, where a signal that came early waits.  Compare       *)
(* SignalHandler, where it may come between the test and the sleep.        *)
(***************************************************************************)
EXTENDS Naturals

CONSTANT MaxSignals \* the signals sent to the process, in all

SIGINT == 2
SIGTERM == 15
Signals == {SIGINT, SIGTERM}

VARIABLES
  pc,      \* the next statement of main()
  blocked, \* the signal mask
  pending, \* signals sent and not yet delivered or read
  taken,   \* the signal main() has read, 0 before
  sent     \* how many were sent

vars == <<pc, blocked, pending, taken, sent>>

Alive == pc \notin {"exited", "failed", "killed"}

(* A mistake for the mutation runs: only one of the signals is blocked. *)
OnlyInterrupt == {SIGINT}

Mask == Signals

Init == /\ pc = "sigprocmask"
        /\ blocked = {}
        /\ pending = {}
        /\ taken = 0
        /\ sent = 0

Sigprocmask == /\ pc = "sigprocmask"
               /\ pc' = "signalfd"
               /\ blocked' = Mask
               /\ UNCHANGED <<pending, taken, sent>>

Signalfd == /\ pc = "signalfd"
            /\ pc' \in {"read", "failed"}
            /\ UNCHANGED <<blocked, pending, taken, sent>>

(* read() waits for a signal of the set, takes the lowest and main() ends. *)
Read == /\ pc = "read"
        /\ \E sig \in pending \cap Signals :
             /\ \A other \in pending : sig <= other
             /\ taken' = sig
             /\ pending' = pending \ {sig}
        /\ pc' = "exited"
        /\ UNCHANGED <<blocked, sent>>

(* The default action of a signal that is not blocked. *)
Deliver(sig) == /\ Alive
                /\ sig \in pending \ blocked
                /\ pending' = pending \ {sig}
                /\ pc' = "killed"
                /\ UNCHANGED <<blocked, taken, sent>>

Send(sig) == /\ Alive
             /\ sent < MaxSignals
             /\ sent' = sent + 1
             /\ pending' = pending \cup {sig}
             /\ UNCHANGED <<pc, blocked, taken>>

Process == \/ Sigprocmask \/ Signalfd \/ Read
           \/ \E sig \in Signals : Deliver(sig)

Next == Process \/ \E sig \in Signals : Send(sig)

Spec == Init /\ [][Next]_vars /\ WF_vars(Process)
-----------------------------------------------------------------------------
(* A signal that comes after the mask is set never kills: main() reads it  *)
(* and exits.                                                              *)
ReadNotKilled == (blocked # {} /\ pending # {}) ~> pc \in {"exited", "failed"}
=============================================================================
