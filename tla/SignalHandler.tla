--------------------------- MODULE SignalHandler ----------------------------
(***************************************************************************)
(* 08_process_syscalls/06_signal_handler.c: main() sleeps in pause() until *)
(* a handler for SIGINT and SIGTERM has set g_stop.                        *)
(*                                                                         *)
(* One thread: the handler runs between two steps of main(), and between   *)
(* two steps of itself for the other signal, because sa_mask is empty.     *)
(* stack holds the handler activations, the innermost first.               *)
(***************************************************************************)
EXTENDS Naturals, Sequences

CONSTANT MaxSignals \* the signals sent to the process, in all

MaxSignalsAssumption == MaxSignals \in Nat

SIGINT == 2
SIGTERM == 15
Signals == {SIGINT, SIGTERM}

VARIABLES
  pc,        \* where main() is
  handled,   \* the signals whose action sigaction() has set
  g_stop,
  g_lastsig,
  stack,     \* the activations of handler()
  pending,   \* signals sent and not yet delivered; each is there at most once
  last,      \* the signal delivered to handler() last, 0 before the first
  overtook,  \* whether it came while handler() had yet to note another one
  sent       \* how many were sent

vars == <<pc, handled, g_stop, g_lastsig, stack, pending, last, overtook, sent>>

Alive == pc \notin {"exited", "killed"}

(* Main's own steps wait for the handlers to return. *)
Main(from, to) == stack = <<>> /\ pc = from /\ pc' = to

Frame(sig, at) == [sig |-> sig, at |-> at]
Running(at) == Alive /\ stack # <<>> /\ Head(stack).at = at
GoOn(at) == stack' = <<Frame(Head(stack).sig, at)>> \o Tail(stack)
-----------------------------------------------------------------------------
Init == /\ pc = "sigint"
        /\ handled = {}
        /\ g_stop = 0
        /\ g_lastsig = 0
        /\ stack = <<>>
        /\ pending = {}
        /\ last = 0
        /\ overtook = FALSE
        /\ sent = 0

(* The two calls of sigaction() in main(). *)
Sigaction == /\ \/ Main("sigint", "sigterm") /\ handled' = {SIGINT}
                \/ Main("sigterm", "test") /\ handled' = Signals
             /\ UNCHANGED <<g_stop, g_lastsig, stack, pending, last, overtook, sent>>

(* while (!g_stop) *)
Test == /\ Main("test", IF g_stop = 0 THEN "pause" ELSE "print")
        /\ UNCHANGED <<handled, g_stop, g_lastsig, stack, pending, last, overtook, sent>>

(* pause() goes to sleep; only the delivery of a signal ends it. *)
Pause == /\ Main("pause", "asleep")
         /\ UNCHANGED <<handled, g_stop, g_lastsig, stack, pending, last, overtook, sent>>

Report == /\ Main("print", "exited")
         /\ UNCHANGED <<handled, g_stop, g_lastsig, stack, pending, last, overtook, sent>>

(* handler() *)
HandlerStop == /\ Running("stop")
               /\ g_stop' = 1
               /\ GoOn("lastsig")
               /\ UNCHANGED <<pc, handled, g_lastsig, pending, last, overtook, sent>>

(* A mistake for the mutation runs: a handler that keeps the first signal. *)
KeepsFirst == /\ Running("lastsig")
              /\ g_lastsig' = IF g_lastsig = 0 THEN Head(stack).sig ELSE g_lastsig
              /\ GoOn("write")
              /\ UNCHANGED <<pc, handled, g_stop, pending, last, overtook, sent>>

HandlerLastsig == /\ Running("lastsig")
                  /\ g_lastsig' = Head(stack).sig
                  /\ GoOn("write")
                  /\ UNCHANGED <<pc, handled, g_stop, pending, last, overtook, sent>>

HandlerReturn == /\ Running("write")
                 /\ stack' = Tail(stack)
                 /\ UNCHANGED <<pc, handled, g_stop, g_lastsig, pending, last, overtook, sent>>

(* The kernel: an unhandled signal kills, a handled one starts handler(),  *)
(* not inside an activation for the same signal, and ends a pause().       *)
Deliver(sig) ==
  /\ Alive
  /\ sig \in pending
  /\ \A j \in DOMAIN stack : stack[j].sig # sig
  /\ pending' = pending \ {sig}
  /\ \/ /\ sig \notin handled
        /\ pc' = "killed"
        /\ UNCHANGED <<stack, last, overtook>>
     \/ /\ sig \in handled
        /\ stack' = <<Frame(sig, "stop")>> \o stack
        /\ pc' = IF pc = "asleep" THEN "test" ELSE pc
        /\ last' = sig
        /\ overtook' = \E j \in DOMAIN stack : stack[j].at # "write"
  /\ UNCHANGED <<handled, g_stop, g_lastsig, sent>>

(* Ctrl-C, or kill -TERM from another shell. *)
Send(sig) == /\ Alive
             /\ sent < MaxSignals
             /\ sent' = sent + 1
             /\ pending' = pending \cup {sig}
             /\ UNCHANGED <<pc, handled, g_stop, g_lastsig, stack, last, overtook>>

Process == \/ Sigaction \/ Test \/ Pause \/ Report
           \/ HandlerStop \/ HandlerLastsig \/ HandlerReturn
           \/ \E sig \in Signals : Deliver(sig)

Next == Process \/ \E sig \in Signals : Send(sig)

(* The process is scheduled and signals are delivered; nobody need send    *)
(* one.                                                                    *)
Spec == Init /\ [][Next]_vars /\ WF_vars(Process)
-----------------------------------------------------------------------------
TypeOK == /\ pc \in {"sigint", "sigterm", "test", "pause", "asleep", "print",
                     "exited", "killed"}
          /\ handled \subseteq Signals
          /\ g_stop \in {0, 1}
          /\ g_lastsig \in Signals \cup {0}
          /\ stack \in Seq([sig : Signals, at : {"stop", "lastsig", "write"}])
          /\ pending \subseteq Signals
          /\ last \in Signals \cup {0}
          /\ overtook \in BOOLEAN
          /\ sent \in 0 .. MaxSignals

(* "exiting; last sig = %d": main() prints a signal that came, and it is   *)
(* the one that came last unless that one interrupted handler() before its *)
(* assignment to g_lastsig for the other; then it is the other.            *)
PrintsLastSignal ==
  pc \in {"print", "exited"} /\ stack = <<>> =>
    g_lastsig # 0 /\ (g_lastsig = last <=> ~overtook)

(* A signal for a process asleep in pause() makes it exit. *)
AwakenedProcessExits == (pc = "asleep" /\ pending # {}) ~> pc = "exited"

(* "Press Ctrl-C; the handler will set a flag; main loop notices and       *)
(* exits."  It does not if handler() runs after the test of g_stop and     *)
(* before pause() has gone to sleep.                                       *)
MainLoopNotices == last # 0 ~> ~Alive
=============================================================================
