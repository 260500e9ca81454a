------------------------------- MODULE MCTasks ------------------------------
(***************************************************************************)
(* The programs with several threads, several processes or signals, for    *)
(* TLC: those of Threads, 08_process_syscalls/05_clone_thread.c and        *)
(* 13_advanced/03_userfaultfd.c; the signal and process programs of        *)
(* 08_process_syscalls and 10_ipc_memory/08_signalfd.c.  One of them runs, *)
(* the variables of the others keep their initial values.                  *)
(***************************************************************************)
EXTENDS Integers, Sequences

CONSTANTS NThreads, Rounds, Iters, \* Threads
          N,               \* CloneThread
          NPages,          \* UserFault
          MaxSignals       \* SignalHandler, SignalFd

VARIABLES
  program,                                             \* the one that runs
  main, call, thread, counter, loaded, done, key, slot, block, printed, \* Threads
  clone_main, task, shared_counter, added, shown,      \* CloneThread
  fault_main, server, off, page, fault, serving, seen, \* UserFault
  pc, handled, g_stop, g_lastsig, stack, pending, last, overtook, sent, \* SignalHandler
  fd_pc, blocked, fd_pending, fd_taken, fd_sent,       \* SignalFd
  life, ppid, status, session, finished, report, logged, mapped \* ProcessLife

Differing == [t \in 1 .. 4 |-> t] \* Rounds for TLC

Threads == INSTANCE Threads
CloneThread == INSTANCE CloneThread WITH main <- clone_main
UserFault == INSTANCE UserFault WITH main <- fault_main
SignalHandler == INSTANCE SignalHandler
SignalFd == INSTANCE SignalFd WITH pc <- fd_pc, pending <- fd_pending,
                                   taken <- fd_taken, sent <- fd_sent
ProcessLife == INSTANCE ProcessLife WITH pc <- life, stack <- mapped

ASSUME TasksAssumption == /\ Threads!ThreadsAssumption
                          /\ CloneThread!NAssumption
                          /\ UserFault!NPagesAssumption
                          /\ SignalHandler!MaxSignalsAssumption

threadsVars == <<main, call, thread, counter, loaded, done, key, slot, block, printed>>
cloneVars == <<clone_main, task, shared_counter, added, shown>>
faultVars == <<fault_main, server, off, page, fault, serving, seen>>
handlerVars == <<pc, handled, g_stop, g_lastsig, stack, pending, last, overtook, sent>>
fdVars == <<fd_pc, blocked, fd_pending, fd_taken, fd_sent>>
lifeVars == <<life, ppid, status, session, finished, report, logged, mapped>>

vars == <<program, threadsVars, cloneVars, faultVars, handlerVars, fdVars, lifeVars>>

Init == /\ program \in {"clone_thread", "userfaultfd", "signal_handler", "signalfd"}
                         \cup Threads!Programs \cup ProcessLife!Programs
        /\ Threads!Init /\ CloneThread!Init /\ UserFault!Init
        /\ SignalHandler!Init /\ SignalFd!Init /\ ProcessLife!Init

InThreads == /\ program \in Threads!Programs
             /\ UNCHANGED <<cloneVars, faultVars, handlerVars, fdVars, lifeVars>>
InClone == /\ program = "clone_thread"
           /\ UNCHANGED <<program, threadsVars, faultVars, handlerVars, fdVars, lifeVars>>
InFault == /\ program = "userfaultfd"
           /\ UNCHANGED <<program, threadsVars, cloneVars, handlerVars, fdVars, lifeVars>>
InHandler == /\ program = "signal_handler"
             /\ UNCHANGED <<program, threadsVars, cloneVars, faultVars, fdVars, lifeVars>>
InFd == /\ program = "signalfd"
        /\ UNCHANGED <<program, threadsVars, cloneVars, faultVars, handlerVars, lifeVars>>
InLife == /\ program \in ProcessLife!Programs
          /\ UNCHANGED <<threadsVars, cloneVars, faultVars, handlerVars, fdVars>>

(* main() of the program, in its first process. *)
Main == \/ InThreads /\ Threads!Main
        \/ InClone /\ CloneThread!Main
        \/ InFault /\ UserFault!Main
        \/ InHandler /\ SignalHandler!Process
        \/ InFd /\ SignalFd!Process
        \/ InLife /\ ProcessLife!StepP

Thread(t) == InThreads /\ Threads!Thread(t)

(* The thread or the child that main() made, and what becomes of it. *)
Second == \/ InClone /\ CloneThread!Task
          \/ InFault /\ UserFault!Server
          \/ InLife /\ ProcessLife!StepC
Daemon == InLife /\ ProcessLife!DaemonLog
Serving == InLife /\ ProcessLife!DaemonExit
Reapers == InLife /\ ProcessLife!Reapers

(* What nobody need do: send a signal. *)
Senders == \/ InHandler /\ \E sig \in SignalHandler!Signals : SignalHandler!Send(sig)
           \/ InFd /\ \E sig \in SignalFd!Signals : SignalFd!Send(sig)
           \/ InLife /\ \E p \in ProcessLife!Processes : ProcessLife!Kill(p)

Next == \/ Main \/ Second \/ Daemon \/ Serving \/ Reapers \/ Senders
        \/ \E t \in Threads!AllIds : Thread(t)

(* Threads and processes are scheduled; init and the shell reap their      *)
(* children.  How long the daemon of 07_daemonise.c serves is left open.   *)
Spec == /\ Init /\ [][Next]_vars
        /\ WF_vars(Main) /\ WF_vars(Second) /\ WF_vars(Daemon) /\ WF_vars(Reapers)
        /\ \A t \in Threads!AllIds : WF_vars(Thread(t))
-----------------------------------------------------------------------------
(* 02_tls_compiler.c and 04_cacheline_falsesharing.c: each thread counts   *)
(* to its own number and main's counter is still 100.  05_clone_thread.c:  *)
(* what main() prints is all of both tasks' additions.                     *)
CountsAreRight == Threads!CountersArePrivate /\ CloneThread!PrintsAll

(* The programs of Threads: every block is freed when main() returns,      *)
(* none before its last use, and main() reads the result of the thread it  *)
(* joined.                                                                 *)
NoLeak == Threads!NoLeak

(* 03_userfaultfd.c: a page main() is blocked on is being seen to, and     *)
(* main() never sees one that is not filled.                               *)
FaultIsServed == UserFault!FaultIsServed /\ UserFault!SeesOnlyU

(* 06_signal_handler.c: "last sig" is the signal that came last, unless it *)
(* interrupted the handler for the other one before its assignment to      *)
(* g_lastsig.                                                              *)
LastSignal == SignalHandler!TypeOK /\ SignalHandler!PrintsLastSignal

(* 01_fork.c, 02_fork_exec_wait.c, 03_vfork.c, 04_clone_raw.c and          *)
(* 09_zombie_orphan.c: whoever waits leaves no child behind, and what is   *)
(* printed of its end tells whether it did its work, but for 03_vfork.c    *)
(* and a child that was killed.                                            *)
ReportsAreTrue == ProcessLife!WaitedAndTrue

(* 06_signal_handler.c: a signal for a process asleep in pause() makes it  *)
(* exit.  08_signalfd.c: a signal that comes once the mask is set, however *)
(* early, is read by main(), which then exits, and does not kill.          *)
SignalsAreNoticed == SignalHandler!AwakenedProcessExits /\ SignalFd!ReadNotKilled

(* 07_daemonise.c: the daemon is in a session that it does not lead, and   *)
(* the leader leaves it to init while it serves.                           *)
DaemonDetached == ProcessLife!DaemonDetached

(* main() gets through its joins, through the polling of 05_clone_thread.c *)
(* and through the page faults of 03_userfaultfd.c, as long as the fault   *)
(* thread is there and its copying succeeds; every process of the programs *)
(* that fork comes to its end and is reaped.                               *)
GetsThrough == /\ Threads!JoinsEnd
               /\ CloneThread!PollEnds
               /\ UserFault!GetsThrough
               /\ program \in ProcessLife!Programs => ProcessLife!EverybodyReaped
=============================================================================
