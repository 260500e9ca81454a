---------------------------- MODULE ProcessLife -----------------------------
(***************************************************************************)
(* The programs of 08_process_syscalls that make processes and wait for    *)
(* them, or do not: 01_fork.c, 02_fork_exec_wait.c, 03_vfork.c,            *)
(* 04_clone_raw.c, 09_zombie_orphan.c in its two modes and 07_daemonise.c. *)
(*                                                                         *)
(* P is the process the shell starts, C its child and G the child of C,    *)
(* which only the daemon has.  The variable counter of 01_fork.c, of which *)
(* each process has its own copy, is left out.  A sleep() is a step that   *)
(* may come at any time.  A child may be killed by a signal from outside.  *)
(***************************************************************************)
EXTENDS Integers

Programs == {"fork", "exec", "vfork", "clone", "zombie", "orphan", "daemon"}
Processes == {"P", "C", "G"}

(* The status a process leaves, as waitpid() hands it on: the exit code in *)
(* the second byte or, after a signal from outside, its number.            *)
NONE == -3
Exited(code) == code * 256
SIGKILL == 9

WIFEXITED(s) == s % 128 = 0
WEXITSTATUS(s) == s \div 256

VARIABLES
  program,
  pc,      \* pc[p]: where process p is; "none" before it exists, then a
           \* point of its program, then "zombie", then "reaped"
  ppid,    \* ppid[p]: its parent
  status,  \* status[p]: the status it left, NONE before
  session, \* session[p]: the process that leads its session
  finished,\* whether C got to the end of what it was made for
  report,  \* what P printed of the child's end, NONE before
  logged,  \* the parent that the daemon wrote to the log, "nobody" before
  stack    \* whether the stack for clone() is mapped in P

vars == <<program, pc, ppid, status, session, finished, report, logged, stack>>

Waiting == {"fork", "exec", "vfork", "clone", "zombie"} \* programs that wait

Alive(p) == pc[p] \notin {"none", "zombie", "reaped"}

(* Mistakes for the mutation runs: a parent that does not wait, and a      *)
(* session leader that waits for the daemon.                               *)
ForgetsToWait == "exit"
WaitsToo == "wait"
-----------------------------------------------------------------------------
Init == /\ pc = [p \in Processes |-> IF p = "P" THEN "start" ELSE "none"]
        /\ ppid = [p \in Processes |-> IF p = "P" THEN "shell" ELSE "nobody"]
        /\ status = [p \in Processes |-> NONE]
        /\ session = [p \in Processes |-> "shell"]
        /\ finished = FALSE
        /\ report = NONE
        /\ logged = "nobody"
        /\ stack = FALSE

Go(p, to) == pc' = [pc EXCEPT ![p] = to]

(* The end of a process, and what the kernel does at it: the children      *)
(* become init's.                                                          *)
End(p, s) ==
  /\ Go(p, "zombie")
  /\ status' = [status EXCEPT ![p] = s]
  /\ ppid' = [c \in Processes |-> IF ppid[c] = p THEN "init" ELSE ppid[c]]
  /\ UNCHANGED <<program, session, report, logged, stack>>

(* exit() or _exit() before the work is done, or in another process than C.*)
Exit(p, code) == End(p, Exited(code)) /\ UNCHANGED finished

(* p makes c, which goes on at `at`, while p goes on at `to`. *)
MakeChild(p, to, c, at) ==
  /\ pc' = [pc EXCEPT ![p] = to, ![c] = at]
  /\ ppid' = [ppid EXCEPT ![c] = p]
  /\ session' = [session EXCEPT ![c] = session[p]]
  /\ UNCHANGED <<program, status, finished, report, logged, stack>>

(* 04_clone_raw.c maps a stack first. *)
MapStack == /\ program = "clone"
            /\ pc["P"] = "start" /\ ~stack
            /\ \/ /\ stack' = TRUE
                  /\ UNCHANGED <<program, pc, ppid, status, session, finished, report, logged>>
               \/ Exit("P", 1)

AfterFork == CASE program = "vfork" -> "suspended"
               [] program \in {"orphan", "daemon"} -> "exit"
               [] OTHER -> "wait"

(* fork(), vfork() or clone() in P.  After vfork() the parent is suspended *)
(* until the child executes a program or exits.                            *)
Fork == /\ pc["P"] = "start"
        /\ program = "clone" => stack
        /\ MakeChild("P", AfterFork,
                     "C", CASE program \in {"exec", "vfork"} -> "exec"
                            [] program = "daemon" -> "setsid"
                            [] OTHER -> "exit")

(* When it fails all but 09_zombie_orphan.c return 1; that one goes on, its*)
(* waitpid(-1) fails at once and it returns 0.                             *)
ForkFails == /\ pc["P"] = "start"
             /\ program = "clone" => stack
             /\ Exit("P", IF program \in {"zombie", "orphan"} THEN 0 ELSE 1)

Resume == /\ pc["P"] = "suspended"
          /\ pc["C"] # "exec"
          /\ Go("P", "wait")
          /\ UNCHANGED <<program, ppid, status, session, finished, report, logged, stack>>

(* execve() of /bin/echo, or _exit(127) if it fails. *)
Exec == /\ pc["C"] = "exec"
        /\ \/ /\ Go("C", "exit")
              /\ UNCHANGED <<program, ppid, status, session, finished, report, logged, stack>>
           \/ Exit("C", 127)

(* The child's own _exit(0), echo's end or the return from child_fn(). *)
Success == IF program = "clone" THEN 42 ELSE 0

ChildExit == /\ pc["C"] = "exit"
             /\ End("C", Exited(Success))
             /\ finished' = TRUE

(* A signal from outside. *)
Kill(p) == /\ p # "P" /\ Alive(p)
           /\ End(p, SIGKILL)
           /\ UNCHANGED finished

WaitEnds(c) == pc[c] = "zombie"

(* What is printed of the status s: 01_fork.c prints -1 for a signal,      *)
(* 02_fork_exec_wait.c says that there was one (here -2), 03_vfork.c and   *)
(* 04_clone_raw.c do not ask, and 09_zombie_orphan.c says nothing.         *)
Says(s) == CASE program = "fork" -> IF WIFEXITED(s) THEN WEXITSTATUS(s) ELSE -1
             [] program = "exec" -> IF WIFEXITED(s) THEN WEXITSTATUS(s) ELSE -2
             [] program = "zombie" -> NONE
             [] OTHER -> WEXITSTATUS(s)

(* waitpid() and the printing after it. *)
Wait == /\ pc["P"] = "wait"
        /\ WaitEnds("C")
        /\ pc' = [pc EXCEPT !["P"] = "exit", !["C"] = "reaped"]
        /\ report' = Says(status["C"])
        /\ stack' = FALSE
        /\ UNCHANGED <<program, ppid, status, session, finished, logged>>

ParentExit == pc["P"] = "exit" /\ Exit("P", 0)
-----------------------------------------------------------------------------
(* daemonise() *)
NewSession == [session EXCEPT !["C"] = "C"]

Setsid == /\ pc["C"] = "setsid"
          /\ \/ /\ Go("C", "fork")
                /\ session' = NewSession
                /\ UNCHANGED <<program, ppid, status, finished, report, logged, stack>>
             \/ Exit("C", 1)

(* "session leader leaves" *)
AfterForkAgain == "exit"

ForkAgain == /\ pc["C"] = "fork"
             /\ MakeChild("C", AfterForkAgain, "G", "log")

ForkAgainFails == pc["C"] = "fork" /\ Exit("C", 1)

(* chdir(), umask(), the descriptors and syslog(), which reads getppid(). *)
DaemonLog == /\ pc["G"] = "log"
             /\ Go("G", "serve")
             /\ logged' = ppid["G"]
             /\ UNCHANGED <<program, ppid, status, session, finished, report, stack>>

(* The end of sleep(30). *)
DaemonExit == pc["G"] = "serve" /\ Exit("G", 0)
-----------------------------------------------------------------------------
(* init and the shell wait for their children. *)
Reap(p) == /\ pc[p] = "zombie"
           /\ ppid[p] \in {"init", "shell"}
           /\ Go(p, "reaped")
           /\ UNCHANGED <<program, ppid, status, session, finished, report, logged, stack>>

StepP == MapStack \/ Fork \/ ForkFails \/ Resume \/ Wait \/ ParentExit
StepC == Exec \/ ChildExit \/ Setsid \/ ForkAgain \/ ForkAgainFails

Reapers == \E p \in Processes : Reap(p)

Next == \/ StepP \/ StepC \/ DaemonLog \/ DaemonExit \/ Reapers
        \/ \E p \in Processes : Kill(p)

(* Every process is scheduled, and init and the shell reap; nobody need    *)
(* kill, and how long the daemon serves is left open: nothing that is      *)
(* promised of it may rest on its end.                                     *)
Spec == /\ program \in Programs /\ Init /\ [][Next]_vars
        /\ WF_vars(StepP) /\ WF_vars(StepC) /\ WF_vars(DaemonLog)
        /\ WF_vars(Reapers)
-----------------------------------------------------------------------------
(* The programs that wait leave no child behind, running or a zombie.      *)
(* What they print of its end is the code of a child that did its work     *)
(* exactly if it did, except in 03_vfork.c: "child exit = 0" is also what  *)
(* it prints of a child that was killed.  (04_clone_raw.c prints 0 then,   *)
(* which child_fn() never returns.)                                        *)
WaitedAndTrue ==
  /\ ~Alive("P") /\ program \in Waiting => pc["C"] \in {"none", "reaped"}
  /\ report # NONE =>
       (report = Success <=> finished \/ (program = "vfork" /\ status["C"] = SIGKILL))

(* "After this, ps -ef shows ppid=1 and no controlling tty": the daemon is *)
(* in a session of its own without being its leader; its parent is the     *)
(* leader for as long as that one is there, then init, for good; and the   *)
(* leader does leave while the daemon serves, however long it does.  The   *)
(* parent it logs, at line 56, may still be the leader.                    *)
DaemonDetached ==
  /\ [](pc["G"] \in {"log", "serve"} =>
          /\ session["G"] \notin {"shell", "G"}
          /\ ppid["G"] = IF Alive("C") THEN "C" ELSE "init")
  /\ [](logged = "init" => ppid["G"] = "init")
  /\ pc["G"] = "serve" ~> (~Alive("G") \/ ppid["G"] = "init")

(* Every process comes to its end and is reaped, by the parent that waits  *)
(* for it or, after that parent's own end, by init; only the daemon may    *)
(* still be serving.                                                       *)
EverybodyReaped ==
  <>[](\A p \in Processes : pc[p] \in {"none", "reaped"} \/ (p = "G" /\ pc[p] = "serve"))
=============================================================================
