----------------------------- MODULE TaskProofs ------------------------------
(***************************************************************************)
(* The safety properties of the programs with several threads, several     *)
(* processes or signals, for every number of threads, rounds, additions,   *)
(* pages and signals.                                                      *)
(***************************************************************************)
EXTENDS MCTasks, SequenceTheorems, TLAPS

(* One program runs: a step is a step of one of the components and leaves  *)
(* the variables of the others alone.                                      *)
LEMMA OneRuns ==
  ASSUME [Next]_vars
  PROVE  /\ \/ program \in Threads!Programs /\ Threads!Main
            \/ \E t \in Threads!AllIds : program \in Threads!Programs /\ Threads!Thread(t)
            \/ UNCHANGED threadsVars
         /\ CloneThread!Next \/ UNCHANGED cloneVars
         /\ UserFault!Next \/ UNCHANGED faultVars
         /\ SignalHandler!Next \/ UNCHANGED handlerVars
         /\ (program \in ProcessLife!Programs /\ ProcessLife!Next) \/ UNCHANGED lifeVars
BY DEF Next, vars, Main, Thread, Second, Daemon, Serving, Reapers, Senders,
       InThreads, InClone, InFault, InHandler, InFd, InLife,
       CloneThread!Next, UserFault!Next, SignalHandler!Next, ProcessLife!Next

(* It is always the same one. *)
LEMMA SameProgram ==
  ASSUME [Next]_vars
  PROVE  UNCHANGED program
<1>1. ASSUME Threads!Main PROVE UNCHANGED program
  BY <1>1 DEF Threads!Main, Threads!Start, Threads!AllocShared, Threads!CountVmas,
              Threads!Create, Threads!Join, Threads!Finish, Threads!MainReturn
<1>2. ASSUME NEW t, Threads!Thread(t) PROVE UNCHANGED program
  BY <1>2 DEF Threads!Thread, Threads!Malloc, Threads!Fill, Threads!Load, Threads!Store,
              Threads!Batch, Threads!Report, Threads!Return
<1>3. ASSUME ProcessLife!Next PROVE UNCHANGED program
  BY <1>3 DEF ProcessLife!Next, ProcessLife!StepP, ProcessLife!StepC, ProcessLife!DaemonExit,
              ProcessLife!Reapers, ProcessLife!Reap, ProcessLife!Kill, ProcessLife!MapStack,
              ProcessLife!Fork, ProcessLife!ForkFails, ProcessLife!Resume, ProcessLife!Wait,
              ProcessLife!ParentExit, ProcessLife!Exec, ProcessLife!ChildExit,
              ProcessLife!Setsid, ProcessLife!ForkAgain, ProcessLife!ForkAgainFails,
              ProcessLife!DaemonLog, ProcessLife!Exit, ProcessLife!End, ProcessLife!MakeChild
<1> QED
  BY <1>1, <1>2, <1>3
     DEF Next, vars, Main, Thread, Second, Daemon, Serving, Reapers, Senders,
         InThreads, InClone, InFault, InHandler, InFd, InLife, ProcessLife!Next
-----------------------------------------------------------------------------
(* 05_clone_thread.c: shared_counter is what the two have added, and       *)
(* main() leaves its polling only when that is all.                        *)
CloneInv ==
  /\ added \in [{"main", "task"} -> 0 .. N]
  /\ shared_counter = added["main"] + added["task"]
  /\ clone_main \in {"print", "returned"} => shared_counter = 2 * N
  /\ CloneThread!PrintsAll

(* Every step of main() and of the task keeps it. *)
LEMMA CloneStep == CloneInv /\ [Next]_vars => CloneInv'
<1> SUFFICES ASSUME CloneInv, [Next]_vars PROVE CloneInv'
  OBVIOUS
<1> USE DEF CloneInv, CloneThread!PrintsAll
<1>0. N \in Nat
  BY TasksAssumption DEF CloneThread!NAssumption
<1>1. CASE CloneThread!MmapAndClone \/ CloneThread!AllAdded \/ CloneThread!Poll
           \/ CloneThread!Return \/ CloneThread!TaskReturn
  BY <1>0, <1>1 DEF CloneThread!MmapAndClone, CloneThread!AllAdded, CloneThread!Poll,
                    CloneThread!Return, CloneThread!TaskReturn, CloneThread!Target
<1>2. ASSUME NEW w \in {"main", "task"}, CloneThread!Add(w),
             clone_main = "add" \/ CloneThread!Running
      PROVE  CloneInv'
  <2>1. /\ added' \in [{"main", "task"} -> 0 .. N]
        /\ shared_counter' = added'["main"] + added'["task"]
    BY <1>0, <1>2 DEF CloneThread!Add
  <2>2. clone_main # "print"
    BY <1>0, <1>2 DEF CloneThread!Add, CloneThread!Running
  <2> QED BY <1>2, <2>1, <2>2 DEF CloneThread!Add, CloneThread!Running
<1>3. CASE UNCHANGED cloneVars
  BY <1>3 DEF cloneVars
<1> QED
  BY <1>1, <1>2, <1>3, OneRuns DEF CloneThread!Next, CloneThread!Main, CloneThread!Task
-----------------------------------------------------------------------------
(* 03_userfaultfd.c: a page is missing or a page of 'U'; the thread serves *)
(* a page of the region from the read() of its message to the ioctl(), and *)
(* nothing otherwise.                                                      *)
FaultInv ==
  /\ page \in [UserFault!Pages -> {"missing", "U"}]
  /\ seen \in [UserFault!Pages -> {"nothing", "U"}]
  /\ off \in Nat \ {0}
  /\ fault \in 0 .. NPages
  /\ serving \in 0 .. NPages
  /\ server # "copy" => serving = 0
  /\ server = "copy" => serving # 0
  /\ fault_main = "setup" => server = "none"
  /\ fault_main = "blocked" => off <= NPages
  /\ UserFault!FaultIsServed

(* Every step of main() and of the fault thread keeps it. *)
LEMMA FaultStep == FaultInv /\ [Next]_vars => FaultInv'
<1> SUFFICES ASSUME FaultInv, [Next]_vars PROVE FaultInv'
  OBVIOUS
<1> USE DEF FaultInv, UserFault!FaultIsServed, UserFault!Pages
<1>0. NPages \in Nat
  BY TasksAssumption DEF UserFault!NPagesAssumption
<1>1. CASE UserFault!Main
  BY <1>0, <1>1 DEF UserFault!Main, UserFault!Setup, UserFault!Fault, UserFault!Access,
                    UserFault!Finish
<1>2. CASE UserFault!ReadMessage
  BY <1>0, <1>2 DEF UserFault!ReadMessage
<1>3. CASE UserFault!Copy
  BY <1>0, <1>3 DEF UserFault!Copy, UserFault!Destination, UserFault!AfterCopy
<1>4. CASE UNCHANGED faultVars
  BY <1>4 DEF faultVars
<1> QED
  BY <1>1, <1>2, <1>3, <1>4, OneRuns DEF UserFault!Next, UserFault!Server

(* 03_userfaultfd.c, for a region of any size: a page main() is blocked on *)
(* is being seen to, and main() never sees one that is not filled.         *)
THEOREM UserFaultCorrect == Spec => []FaultIsServed
<1>1. Init => FaultInv
  BY TasksAssumption DEF Init, UserFault!Init, FaultInv, UserFault!FaultIsServed,
     UserFault!Pages, UserFault!NPagesAssumption
<1>2. FaultInv => FaultIsServed
  BY DEF FaultInv, FaultIsServed, UserFault!SeesOnlyU
<1> QED BY <1>1, <1>2, FaultStep, PTL DEF Spec
-----------------------------------------------------------------------------
(* The stack of activations after a push. *)
LEMMA Pushed ==
  ASSUME NEW S, NEW f \in S, NEW s \in Seq(S), NEW c, c = <<f>> \o s
  PROVE  /\ c \in Seq(S)
         /\ DOMAIN c = 1 .. Len(s) + 1
         /\ c[1] = f
         /\ \A j \in 1 .. Len(s) : c[j + 1] = s[j]
         /\ \A j \in 1 .. Len(s) + 1 : j = 1 \/ (j - 1 \in 1 .. Len(s) /\ c[j] = s[j - 1])
<1>0. <<f>> \in Seq(S) /\ Len(<<f>>) = 1 /\ <<f>>[1] = f
  OBVIOUS
<1>1. /\ c \in Seq(S) /\ Len(c) = 1 + Len(s)
      /\ \A i \in 1 .. 1 + Len(s) : c[i] = IF i <= 1 THEN <<f>>[i] ELSE s[i - 1]
  BY <1>0, ConcatProperties
<1>2. Len(s) \in Nat
  OBVIOUS
<1>3. DOMAIN c = 1 .. Len(s) + 1
  BY <1>1, <1>2
<1>4. c[1] = f
  BY <1>0, <1>1, <1>2
<1>5. \A j \in 1 .. Len(s) : c[j + 1] = s[j]
  BY <1>1, <1>2
<1>6. \A j \in 1 .. Len(s) + 1 : j = 1 \/ (j - 1 \in 1 .. Len(s) /\ c[j] = s[j - 1])
  BY <1>1, <1>2
<1> QED BY <1>1, <1>3, <1>4, <1>5, <1>6

(* 06_signal_handler.c: g_stop is set only if g_lastsig is, or an          *)
(* activation is about to set it; the assignment that will come last, that *)
(* of the outermost activation yet to make it, decides whether g_lastsig   *)
(* ends up as the last signal, and it does unless that one overtook.       *)
Noted == g_stop = 0 \/ g_lastsig # 0 \/ \E j \in DOMAIN stack : stack[j].at = "lastsig"
Outermost ==
  \A j \in DOMAIN stack :
    stack[j].at # "write" /\ (\A i \in DOMAIN stack : i > j => stack[i].at = "write") =>
      (stack[j].sig = last <=> ~overtook)
AllNoted == (\A j \in DOMAIN stack : stack[j].at = "write") => (g_lastsig = last <=> ~overtook)
HandlerInv == /\ SignalHandler!TypeOK /\ Noted /\ Outermost /\ AllNoted
              /\ pc \in {"print", "exited"} => g_stop = 1

Frames == [sig : SignalHandler!Signals, at : {"stop", "lastsig", "write"}]

(* Every step of main(), of handler() and of the kernel keeps it. *)
LEMMA HandlerStep == HandlerInv /\ [Next]_vars => HandlerInv'
<1> SUFFICES ASSUME HandlerInv, [Next]_vars PROVE HandlerInv'
  OBVIOUS
<1>0. MaxSignals \in Nat /\ stack \in Seq(Frames)
  BY TasksAssumption DEF SignalHandler!MaxSignalsAssumption, HandlerInv,
     SignalHandler!TypeOK, Frames
<1>1. CASE SignalHandler!Sigaction \/ SignalHandler!Pause \/ SignalHandler!Report
  BY <1>1 DEF HandlerInv, Noted, Outermost, AllNoted, SignalHandler!TypeOK,
     SignalHandler!Sigaction, SignalHandler!Pause, SignalHandler!Report, SignalHandler!Main,
     SignalHandler!Signals
<1>2. CASE SignalHandler!Test
  <2>1. UNCHANGED <<handled, g_stop, g_lastsig, stack, pending, last, overtook, sent>>
    BY <1>2 DEF SignalHandler!Test
  <2>2. pc' = IF g_stop = 0 THEN "pause" ELSE "print"
    BY <1>2 DEF SignalHandler!Test, SignalHandler!Main
  <2> QED BY <2>1, <2>2 DEF HandlerInv, Noted, Outermost, AllNoted, SignalHandler!TypeOK
<1>3. ASSUME NEW at \in {"lastsig", "write"}, stack # <<>>, SignalHandler!GoOn(at)
      PROVE  /\ stack' \in Seq(Frames) /\ DOMAIN stack' = DOMAIN stack
             /\ 1 \in DOMAIN stack /\ DOMAIN stack \subseteq Nat \ {0}
             /\ stack'[1].at = at /\ stack'[1].sig = stack[1].sig
             /\ \A j \in DOMAIN stack : j = 1 \/ stack'[j] = stack[j]
  <2> DEFINE f == SignalHandler!Frame(Head(stack).sig, at)
             s == Tail(stack)
  <2>1. /\ Head(stack) \in Frames /\ Head(stack) = stack[1]
        /\ s \in Seq(Frames) /\ Len(s) = Len(stack) - 1
        /\ \A i \in 1 .. Len(s) : s[i] = stack[i + 1]
        /\ Len(stack) \in Nat \ {0} /\ DOMAIN stack = 1 .. Len(stack)
    BY <1>0, <1>3, HeadTailProperties
  <2>2. f \in Frames /\ f.at = at /\ f.sig = stack[1].sig
    BY <2>1 DEF Frames, SignalHandler!Frame
  <2>3. stack' = <<f>> \o s
    BY <1>3 DEF SignalHandler!GoOn
  <2> HIDE DEF f, s
  <2>4. /\ stack' \in Seq(Frames)
        /\ DOMAIN stack' = 1 .. Len(s) + 1
        /\ stack'[1] = f
        /\ \A j \in 1 .. Len(s) + 1 : j = 1 \/ (j - 1 \in 1 .. Len(s) /\ stack'[j] = s[j - 1])
    BY <2>1, <2>2, <2>3, Pushed
  <2> QED BY <2>1, <2>2, <2>4
<1>4. CASE SignalHandler!HandlerStop
  <2>1. /\ stack # <<>> /\ stack[1].at = "stop" /\ SignalHandler!GoOn("lastsig") /\ g_stop' = 1
        /\ UNCHANGED <<pc, handled, g_lastsig, pending, last, overtook, sent>>
    BY <1>4, <1>0, HeadTailProperties DEF SignalHandler!HandlerStop, SignalHandler!Running
  <2>2. SignalHandler!TypeOK' /\ Noted'
    BY <1>3, <2>1 DEF HandlerInv, SignalHandler!TypeOK, Frames, Noted
  <2>3. Outermost'
    BY <1>3, <2>1 DEF HandlerInv, Outermost
  <2>4. AllNoted'
    BY <1>3, <2>1 DEF AllNoted
  <2> QED BY <2>1, <2>2, <2>3, <2>4 DEF HandlerInv
<1>5. CASE SignalHandler!HandlerLastsig
  <2>1. /\ stack # <<>> /\ stack[1].at = "lastsig" /\ SignalHandler!GoOn("write")
        /\ g_lastsig' = stack[1].sig
        /\ UNCHANGED <<pc, handled, g_stop, pending, last, overtook, sent>>
    BY <1>5, <1>0, HeadTailProperties DEF SignalHandler!HandlerLastsig, SignalHandler!Running
  <2>. stack[1] \in Frames
    BY <1>0, <2>1, HeadTailProperties
  <2>2. g_lastsig' \in {2, 15}
    BY <2>1 DEF Frames, SignalHandler!Signals, SignalHandler!SIGINT, SignalHandler!SIGTERM
  <2>3. SignalHandler!TypeOK' /\ Noted'
    BY <1>3, <2>1, <2>2 DEF HandlerInv, SignalHandler!TypeOK, Frames, Noted,
       SignalHandler!Signals, SignalHandler!SIGINT, SignalHandler!SIGTERM
  <2>4. Outermost'
    BY <1>3, <2>1 DEF HandlerInv, Outermost
  <2>5. AllNoted'
    BY <1>3, <2>1 DEF HandlerInv, Outermost, AllNoted
  <2> QED BY <2>1, <2>3, <2>4, <2>5 DEF HandlerInv
<1>6. CASE SignalHandler!HandlerReturn
  <2>1. /\ stack # <<>> /\ stack[1].at = "write" /\ stack' = Tail(stack)
        /\ UNCHANGED <<pc, handled, g_stop, g_lastsig, pending, last, overtook, sent>>
    BY <1>6, <1>0, HeadTailProperties DEF SignalHandler!HandlerReturn, SignalHandler!Running
  <2>2. /\ stack' \in Seq(Frames) /\ DOMAIN stack' = 1 .. Len(stack) - 1
        /\ \A j \in 1 .. Len(stack) - 1 : stack'[j] = stack[j + 1]
        /\ Len(stack) \in Nat \ {0} /\ DOMAIN stack = 1 .. Len(stack)
    BY <1>0, <2>1, HeadTailProperties
  <2>3. \A j \in DOMAIN stack : j = 1 \/ (j - 1 \in DOMAIN stack' /\ stack'[j - 1] = stack[j])
    BY <2>2
  <2>4. SignalHandler!TypeOK' /\ Noted'
    BY <2>1, <2>2, <2>3 DEF HandlerInv, SignalHandler!TypeOK, Frames, Noted
  <2>5. Outermost'
    <3> SUFFICES ASSUME NEW j \in DOMAIN stack', stack'[j].at # "write",
                        \A i \in DOMAIN stack' : i > j => stack'[i].at = "write"
                 PROVE  stack'[j].sig = last <=> ~overtook
      BY <2>1 DEF Outermost
    <3>1. j + 1 \in DOMAIN stack /\ stack[j + 1] = stack'[j]
      BY <2>2
    <3>2. \A i \in DOMAIN stack : i > j + 1 => stack[i].at = "write"
      BY <2>2, <2>3
    <3> QED BY <3>1, <3>2 DEF HandlerInv, Outermost
  <2>6. AllNoted'
    BY <2>1, <2>3 DEF HandlerInv, AllNoted
  <2> QED BY <2>1, <2>4, <2>5, <2>6 DEF HandlerInv
<1>7. ASSUME NEW sig \in SignalHandler!Signals, SignalHandler!Deliver(sig)
      PROVE  HandlerInv'
  <2>1. CASE sig \notin handled /\ pc' = "killed" /\ UNCHANGED <<stack, last, overtook>>
    BY <1>7, <2>1 DEF HandlerInv, SignalHandler!TypeOK, Noted, Outermost, AllNoted,
       SignalHandler!Deliver
  <2>2. CASE /\ stack' = <<SignalHandler!Frame(sig, "stop")>> \o stack
             /\ pc' = IF pc = "asleep" THEN "test" ELSE pc
             /\ last' = sig
             /\ overtook' = \E j \in DOMAIN stack : stack[j].at # "write"
    <3> DEFINE f == SignalHandler!Frame(sig, "stop")
    <3>1. f \in Frames /\ f.sig = sig /\ f.at = "stop"
      BY DEF Frames, SignalHandler!Frame
    <3>2. UNCHANGED <<handled, g_stop, g_lastsig, sent>> /\ pending' = pending \ {sig}
      BY <1>7 DEF SignalHandler!Deliver
    <3>3. stack' = <<f>> \o stack /\ DOMAIN stack = 1 .. Len(stack) /\ Len(stack) \in Nat
      BY <1>0, <2>2
    <3> HIDE DEF f
    <3>4. /\ stack' \in Seq(Frames)
          /\ DOMAIN stack' = 1 .. Len(stack) + 1
          /\ stack'[1] = f
          /\ \A j \in 1 .. Len(stack) : stack'[j + 1] = stack[j]
          /\ \A j \in 1 .. Len(stack) + 1 :
               j = 1 \/ (j - 1 \in 1 .. Len(stack) /\ stack'[j] = stack[j - 1])
      BY <1>0, <3>1, <3>3, Pushed
    <3>5. \A j \in DOMAIN stack : j + 1 \in DOMAIN stack' /\ stack'[j + 1] = stack[j]
      BY <3>3, <3>4
    <3>6. SignalHandler!TypeOK'
      BY <2>2, <3>2, <3>4 DEF HandlerInv, SignalHandler!TypeOK, Frames
    <3>7. Noted'
      BY <3>2, <3>5 DEF HandlerInv, Noted
    <3>8. Outermost'
      <4> SUFFICES ASSUME NEW j \in DOMAIN stack', stack'[j].at # "write",
                          \A i \in DOMAIN stack' : i > j => stack'[i].at = "write"
                   PROVE  stack'[j].sig = last' <=> ~overtook'
        BY DEF Outermost
      <4>1. CASE j = 1
        <5>1. \A i \in DOMAIN stack : stack[i].at = "write"
          <6> TAKE i \in DOMAIN stack
          <6>1. i + 1 \in DOMAIN stack' /\ stack'[i + 1] = stack[i] /\ i + 1 > 1
            BY <3>3, <3>5
          <6> QED BY <4>1, <6>1
        <5>2. ~(\E i \in DOMAIN stack : stack[i].at # "write")
          BY <5>1
        <5>3. stack'[j].sig = last'
          BY <2>2, <3>1, <3>4, <4>1
        <5> QED BY <2>2, <5>2, <5>3
      <4>2. CASE j # 1
        <5>1. j - 1 \in DOMAIN stack /\ stack'[j] = stack[j - 1]
          BY <3>3, <3>4, <4>2
        <5>2. stack[j - 1].sig # sig
          BY <1>7, <5>1 DEF SignalHandler!Deliver
        <5> QED BY <2>2, <5>1, <5>2
      <4> QED BY <4>1, <4>2
    <3>9. AllNoted'
      <4>1. 1 \in DOMAIN stack' /\ stack'[1].at # "write"
        BY <3>1, <3>3, <3>4
      <4> QED BY <4>1 DEF AllNoted
    <3>10. pc' \in {"print", "exited"} => g_stop' = 1
      BY <2>2, <3>2 DEF HandlerInv
    <3> QED BY <3>6, <3>7, <3>8, <3>9, <3>10 DEF HandlerInv
  <2> QED BY <1>7, <2>1, <2>2 DEF SignalHandler!Deliver
<1>8. ASSUME NEW sig \in SignalHandler!Signals, SignalHandler!Send(sig)
      PROVE  HandlerInv'
  BY <1>0, <1>8 DEF HandlerInv, Noted, Outermost, AllNoted, SignalHandler!TypeOK,
     SignalHandler!Send
<1>9. CASE UNCHANGED handlerVars
  BY <1>9 DEF handlerVars, HandlerInv, Noted, Outermost, AllNoted, SignalHandler!TypeOK
<1> QED
  BY <1>1, <1>2, <1>4, <1>5, <1>6, <1>7, <1>8, <1>9, OneRuns
     DEF SignalHandler!Next, SignalHandler!Process

(* It holds at the start. *)
LEMMA HandlerInit == Init => HandlerInv
<1> SUFFICES ASSUME Init PROVE HandlerInv
  OBVIOUS
<1>1. /\ pc = "sigint" /\ handled = {} /\ g_stop = 0 /\ g_lastsig = 0 /\ stack = <<>>
      /\ pending = {} /\ last = 0 /\ overtook = FALSE /\ sent = 0 /\ MaxSignals \in Nat
  BY TasksAssumption DEF Init, SignalHandler!Init, SignalHandler!MaxSignalsAssumption
<1>2. SignalHandler!TypeOK
  <2>1. stack \in Seq([sig : SignalHandler!Signals, at : {"stop", "lastsig", "write"}])
    BY <1>1, EmptySeq
  <2>2. overtook \in BOOLEAN
    BY <1>1, Zenon
  <2>3. /\ last \in SignalHandler!Signals \cup {0}
        /\ g_lastsig \in SignalHandler!Signals \cup {0}
        /\ handled \subseteq SignalHandler!Signals
        /\ pending \subseteq SignalHandler!Signals
    BY <1>1
  <2>4. g_stop \in {0, 1} /\ pc = "sigint" /\ sent \in 0 .. MaxSignals
    BY <1>1
  <2> QED BY <2>1, <2>2, <2>3, <2>4 DEF SignalHandler!TypeOK
<1>3. DOMAIN stack = {}
  BY <1>1
<1> QED BY <1>1, <1>2, <1>3 DEF HandlerInv, Noted, Outermost, AllNoted

(* 06_signal_handler.c: what main() prints as the last signal is the one   *)
(* that came last, for any number of signals and any nesting of handlers,  *)
(* unless it interrupted the other's handler before line 31; then it is    *)
(* not.                                                                    *)
THEOREM LastSignalCorrect == Spec => []LastSignal
<1>1. HandlerInv => LastSignal
  <2> SUFFICES ASSUME HandlerInv, pc \in {"print", "exited"}, stack = <<>>
               PROVE  g_lastsig # 0 /\ (g_lastsig = last <=> ~overtook)
    BY DEF LastSignal, SignalHandler!PrintsLastSignal, HandlerInv
  <2>1. DOMAIN stack = {}
    OBVIOUS
  <2> QED BY <2>1 DEF HandlerInv, Noted, AllNoted
<1> QED BY <1>1, HandlerInit, HandlerStep, PTL DEF Spec
-----------------------------------------------------------------------------
(* 01_fork.c, 02_fork_exec_wait.c, 03_vfork.c, 04_clone_raw.c and          *)
(* 09_zombie_orphan.c: while P waits, C is its child and not yet reaped;   *)
(* P is past its waitpid() only if C was never made or is reaped; what was *)
(* printed of C's end came from a status that C has had ever since.        *)
LifeInv ==
  /\ life \in [ProcessLife!Processes ->
                 {"none", "start", "suspended", "wait", "exec", "exit", "setsid", "fork",
                  "log", "serve", "zombie", "reaped"}]
  /\ status \in [ProcessLife!Processes -> {-3, 9, 0, 256, 10752, 32512}]
  /\ life["G"] # "none" \/ life["C"] \in {"setsid", "fork"} => program = "daemon"
  /\ ppid \in [ProcessLife!Processes -> {"nobody", "shell", "init", "P", "C"}]
  /\ life["P"] \in {"start", "suspended", "wait", "exit", "zombie", "reaped"}
  /\ life["P"] = "start" => life["C"] = "none"
  /\ life["P"] \in {"suspended", "wait"} =>
       life["C"] \in {"exec", "exit", "zombie"} /\ ppid["C"] = "P"
  /\ program \in ProcessLife!Waiting /\ life["P"] \in {"exit", "zombie", "reaped"} =>
       life["C"] \in {"none", "reaped"}
  /\ life["C"] \in {"zombie", "reaped"} <=> status["C"] # -3
  /\ finished \in BOOLEAN
  /\ finished <=> status["C"] = ProcessLife!Success * 256
  /\ life["P"] \in {"suspended", "wait"} => program \in ProcessLife!Waiting
  /\ report # -3 => /\ life["C"] = "reaped" /\ life["P"] # "start"
                    /\ program \in ProcessLife!Waiting
                    /\ report = ProcessLife!Says(status["C"])

(* It holds at the start. *)
LEMMA LifeInit == Init => LifeInv
<1> SUFFICES ASSUME Init PROVE LifeInv
  OBVIOUS
<1>1. /\ life = [p \in {"P", "C", "G"} |-> IF p = "P" THEN "start" ELSE "none"]
      /\ ppid = [p \in {"P", "C", "G"} |-> IF p = "P" THEN "shell" ELSE "nobody"]
      /\ status = [p \in {"P", "C", "G"} |-> -3]
      /\ finished = FALSE /\ report = -3
  BY DEF Init, ProcessLife!Init, ProcessLife!Processes, ProcessLife!NONE
<1>2. ProcessLife!Success * 256 # -3
  BY DEF ProcessLife!Success
<1>3. /\ life["P"] = "start" /\ life["C"] = "none" /\ life["G"] = "none" /\ status["C"] = -3
  BY <1>1
<1>4. /\ life \in [ProcessLife!Processes ->
                    {"none", "start", "suspended", "wait", "exec", "exit", "setsid", "fork",
                     "log", "serve", "zombie", "reaped"}]
      /\ ppid \in [ProcessLife!Processes -> {"nobody", "shell", "init", "P", "C"}]
      /\ status \in [ProcessLife!Processes -> {-3, 9, 0, 256, 10752, 32512}]
  BY <1>1 DEF ProcessLife!Processes
<1>5. ~finished /\ finished \in BOOLEAN /\ report = -3
  BY <1>1, Zenon
<1>6. finished <=> status["C"] = ProcessLife!Success * 256
  BY <1>2, <1>3, <1>5
<1> QED BY <1>3, <1>4, <1>5, <1>6 DEF LifeInv

(* Every step of P, of C, of the daemon, of those who reap and of those    *)
(* who kill keeps it.                                                      *)
LEMMA LifeStep == LifeInv /\ [Next]_vars => LifeInv'
<1> SUFFICES ASSUME LifeInv, [Next]_vars PROVE LifeInv'
  OBVIOUS
<1>0. program' = program
  BY SameProgram
<1>e. /\ ProcessLife!Exited(0) = 0 /\ ProcessLife!Exited(1) = 256
      /\ ProcessLife!Exited(42) = 10752 /\ ProcessLife!Exited(127) = 32512
      /\ ProcessLife!Success \in {0, 42} /\ ProcessLife!Success' = ProcessLife!Success
      /\ ProcessLife!Exited(ProcessLife!Success) = ProcessLife!Success * 256
  BY <1>0 DEF ProcessLife!Exited, ProcessLife!Success
<1>s. ProcessLife!Says(status["C"])' = ProcessLife!Says(status'["C"])
  BY <1>0 DEF ProcessLife!Says
<1> USE DEF LifeInv, ProcessLife!Processes, ProcessLife!Waiting, ProcessLife!NONE,
            ProcessLife!SIGKILL
<1> USE <1>e, <1>s
<1>1. CASE ProcessLife!MapStack \/ ProcessLife!ForkFails \/ ProcessLife!ParentExit
  BY <1>0, <1>1 DEF ProcessLife!MapStack, ProcessLife!ForkFails, ProcessLife!ParentExit,
     ProcessLife!Exit, ProcessLife!End, ProcessLife!Go
<1>2. CASE program \in ProcessLife!Programs /\ ProcessLife!Fork
  BY <1>0, <1>2 DEF ProcessLife!Programs, ProcessLife!Fork, ProcessLife!AfterFork,
     ProcessLife!MakeChild
<1>3. CASE ProcessLife!Resume
  BY <1>0, <1>3 DEF ProcessLife!Resume, ProcessLife!Go
<1>4. CASE ProcessLife!Wait
  BY <1>0, <1>4 DEF ProcessLife!Wait, ProcessLife!WaitEnds
<1>5. CASE ProcessLife!Exec \/ ProcessLife!Setsid \/ ProcessLife!ForkAgainFails
  BY <1>0, <1>5 DEF ProcessLife!Exec, ProcessLife!Setsid, ProcessLife!ForkAgainFails,
     ProcessLife!Exit, ProcessLife!End, ProcessLife!Go
<1>11. CASE ProcessLife!ChildExit
  BY <1>0, <1>11 DEF ProcessLife!ChildExit, ProcessLife!End, ProcessLife!Go
<1>6. CASE ProcessLife!ForkAgain
  BY <1>0, <1>6 DEF ProcessLife!ForkAgain, ProcessLife!AfterForkAgain, ProcessLife!MakeChild
<1>7. CASE ProcessLife!DaemonLog \/ ProcessLife!DaemonExit
  BY <1>0, <1>7 DEF ProcessLife!DaemonExit, ProcessLife!DaemonLog, ProcessLife!Exit,
     ProcessLife!End, ProcessLife!Go
<1>8. ASSUME NEW p \in ProcessLife!Processes, ProcessLife!Reap(p) PROVE LifeInv'
  BY <1>0, <1>8 DEF ProcessLife!Reap, ProcessLife!Go
<1>9. ASSUME NEW p \in ProcessLife!Processes, ProcessLife!Kill(p) PROVE LifeInv'
  BY <1>0, <1>9 DEF ProcessLife!Kill, ProcessLife!Alive, ProcessLife!End, ProcessLife!Go
<1>10. CASE UNCHANGED lifeVars
  BY <1>0, <1>10 DEF lifeVars
<1> HIDE DEF LifeInv, ProcessLife!Processes, ProcessLife!Waiting, ProcessLife!NONE,
             ProcessLife!SIGKILL
<1> QED
  BY <1>1, <1>2, <1>3, <1>4, <1>5, <1>6, <1>7, <1>8, <1>9, <1>10, <1>11, OneRuns
     DEF ProcessLife!Next, ProcessLife!StepP, ProcessLife!StepC, ProcessLife!Reapers

(* 01_fork.c, 02_fork_exec_wait.c, 03_vfork.c, 04_clone_raw.c and          *)
(* 09_zombie_orphan.c: whoever waits leaves no child behind, and what is   *)
(* printed of its end is the success of the child exactly if it did its    *)
(* work, or, in 03_vfork.c, was killed.                                    *)
THEOREM ReportsCorrect == Spec => []ReportsAreTrue
<1>2. LifeInv => ReportsAreTrue
  <2> SUFFICES ASSUME LifeInv PROVE ProcessLife!WaitedAndTrue
    BY DEF ReportsAreTrue
  <2>1. ~ProcessLife!Alive("P") /\ program \in ProcessLife!Waiting =>
          life["C"] \in {"none", "reaped"}
    BY DEF LifeInv, ProcessLife!Alive
  <2>2. ASSUME report # -3
        PROVE  report = ProcessLife!Success
                 <=> finished \/ (program = "vfork" /\ status["C"] = 9)
    <3>1. /\ status["C"] \in {9, 0, 256, 10752, 32512}
          /\ report = ProcessLife!Says(status["C"])
          /\ program \in ProcessLife!Waiting
      BY <2>2 DEF LifeInv, ProcessLife!Processes
    <3>2. /\ ~ProcessLife!WIFEXITED(9) /\ \A c \in {0, 1, 42, 127} : ProcessLife!WIFEXITED(256 * c)
          /\ ProcessLife!WEXITSTATUS(9) = 0
          /\ \A c \in {0, 1, 42, 127} : ProcessLife!WEXITSTATUS(256 * c) = c
      BY DEF ProcessLife!WIFEXITED, ProcessLife!WEXITSTATUS
    <3>3. finished <=> status["C"] = IF program = "clone" THEN 10752 ELSE 0
      BY DEF LifeInv, ProcessLife!Success
    <3>4. CASE status["C"] = 9
      <4>1. ~finished
        BY <3>3, <3>4
      <4>2. report = IF program = "fork" THEN -1 ELSE IF program = "exec" THEN -2 ELSE 0
        BY <2>2, <3>1, <3>2, <3>4 DEF ProcessLife!Says, ProcessLife!NONE
      <4> QED BY <2>2, <3>1, <3>4, <4>1, <4>2
              DEF ProcessLife!Success, ProcessLife!Says, ProcessLife!Waiting, ProcessLife!NONE
    <3>5. ASSUME NEW c \in {0, 1, 42, 127}, status["C"] = 256 * c
          PROVE  report = ProcessLife!Success
                   <=> finished \/ (program = "vfork" /\ status["C"] = 9)
      <4>1. report = c
        BY <2>2, <3>1, <3>2, <3>5 DEF ProcessLife!Says, ProcessLife!NONE
      <4> QED BY <3>3, <3>5, <4>1 DEF ProcessLife!Success
    <3> QED BY <3>1, <3>4, <3>5
  <2> QED BY <2>1, <2>2 DEF ProcessLife!WaitedAndTrue, ProcessLife!NONE, ProcessLife!SIGKILL
<1> QED BY <1>2, LifeInit, LifeStep, PTL DEF Spec

(* 07_daemonise.c: C leads its session from setsid() on, and G is in it;   *)
(* G is C's child until C ends and init's from then on.                    *)
Adopted == /\ life["C"] = "fork" => session["C"] = "C" /\ life["G"] = "none"
           /\ life["C"] \in {"none", "exec", "setsid"} => life["G"] = "none"
           /\ life["G"] = "none" => logged = "nobody"
           /\ life["G"] \in {"log", "serve"} =>
                /\ session["G"] = "C"
                /\ ppid["G"] = IF life["C"] \in {"zombie", "reaped"} THEN "init" ELSE "C"
           /\ logged = "init" => ppid["G"] = "init"
           /\ session \in [ProcessLife!Processes -> {"shell", "C"}]

DaemonInv == LifeInv /\ Adopted

(* Every step keeps it: nobody but C calls setsid(), and it does so once,  *)
(* before it makes G; the end of C makes G a child of init.                *)
LEMMA DaemonStep == DaemonInv /\ [Next]_vars => DaemonInv'
<1> SUFFICES ASSUME DaemonInv, [Next]_vars PROVE Adopted'
  BY LifeStep DEF DaemonInv
<1>0. program' = program
  BY SameProgram
<1> USE DEF DaemonInv, LifeInv, Adopted, ProcessLife!Processes, ProcessLife!Exit,
            ProcessLife!End, ProcessLife!Go
<1>1. CASE ProcessLife!MapStack \/ ProcessLife!ForkFails \/ ProcessLife!ParentExit
  BY <1>1 DEF ProcessLife!MapStack, ProcessLife!ForkFails, ProcessLife!ParentExit
<1>2. CASE ProcessLife!Fork
  BY <1>2 DEF ProcessLife!Fork, ProcessLife!AfterFork, ProcessLife!MakeChild
<1>3. CASE ProcessLife!Resume \/ ProcessLife!Wait
  BY <1>3 DEF ProcessLife!Resume, ProcessLife!Wait, ProcessLife!WaitEnds
<1>4. CASE ProcessLife!Exec \/ ProcessLife!ChildExit \/ ProcessLife!ForkAgainFails
  BY <1>4 DEF ProcessLife!Exec, ProcessLife!ChildExit, ProcessLife!ForkAgainFails
<1>5. CASE ProcessLife!Setsid
  BY <1>5 DEF ProcessLife!Setsid, ProcessLife!NewSession
<1>6. CASE ProcessLife!ForkAgain
  BY <1>6 DEF ProcessLife!ForkAgain, ProcessLife!AfterForkAgain, ProcessLife!MakeChild
<1>7. CASE ProcessLife!DaemonLog \/ ProcessLife!DaemonExit
  BY <1>7 DEF ProcessLife!DaemonLog, ProcessLife!DaemonExit
<1>8. ASSUME NEW p \in ProcessLife!Processes, ProcessLife!Reap(p) PROVE Adopted'
  BY <1>8 DEF ProcessLife!Reap
<1>9. ASSUME NEW p \in ProcessLife!Processes, ProcessLife!Kill(p) PROVE Adopted'
  BY <1>9 DEF ProcessLife!Kill, ProcessLife!Alive
<1>10. CASE UNCHANGED lifeVars
  BY <1>10 DEF lifeVars
<1> HIDE DEF DaemonInv, LifeInv, Adopted, ProcessLife!Processes, ProcessLife!Exit,
             ProcessLife!End, ProcessLife!Go
<1> QED
  BY <1>1, <1>2, <1>3, <1>4, <1>5, <1>6, <1>7, <1>8, <1>9, <1>10, OneRuns
     DEF ProcessLife!Next, ProcessLife!StepP, ProcessLife!StepC, ProcessLife!Reapers

(* 07_daemonise.c: a daemon that serves is never in the session of the     *)
(* shell and never leads its own, so it cannot get a controlling terminal; *)
(* its parent is the leader while that one is there and init from then on, *)
(* for good once it has logged init.  (That the leader leaves is liveness.)*)
THEOREM DaemonSession ==
  Spec => [](/\ life["G"] \in {"log", "serve"} =>
                  /\ session["G"] \notin {"shell", "G"}
                  /\ ppid["G"] = IF ProcessLife!Alive("C") THEN "C" ELSE "init"
             /\ logged = "init" => ppid["G"] = "init")
<1>1. Init => DaemonInv
  BY LifeInit DEF Init, ProcessLife!Init, DaemonInv, Adopted, ProcessLife!Processes
<1>2. DaemonInv =>
        /\ life["G"] \in {"log", "serve"} =>
             /\ session["G"] \notin {"shell", "G"}
             /\ ppid["G"] = IF ProcessLife!Alive("C") THEN "C" ELSE "init"
        /\ logged = "init" => ppid["G"] = "init"
  BY DEF DaemonInv, LifeInv, Adopted, ProcessLife!Alive, ProcessLife!Processes
<1> QED BY <1>1, <1>2, DaemonStep, PTL DEF Spec
-----------------------------------------------------------------------------
(* A sequence of calls in which every thread that is created is joined     *)
(* later on.                                                               *)
JoinsAll(s) ==
  /\ s \in Seq({"create", "join"} \X Threads!AllIds)
  /\ \A k \in 1 .. Len(s) : s[k][1] = "create" =>
       \E j \in k + 1 .. Len(s) : s[j] = <<"join", s[k][2]>>

(* The loops of create and join in the sources make such a sequence. *)
LEMMA CallsJoinAll ==
  ASSUME NEW first \in Nat \ {0}, NEW final \in Nat, first <= final + 1,
         first .. final \subseteq Threads!AllIds
  PROVE  JoinsAll(Threads!Calls(first, final)) /\ Len(Threads!Calls(first, final)) = 2 * (final - first + 1)
<1> DEFINE n == final - first + 1
           s == Threads!Calls(first, final)
<1>1. n \in Nat /\ 2 * n \in Nat
  OBVIOUS
<1>2. s = [k \in 1 .. 2 * n |-> IF k <= n THEN <<"create", first + k - 1>>
                                ELSE <<"join", first + k - 1 - n>>]
  BY DEF Threads!Calls
<1>3. \A k \in 1 .. 2 * n : s[k] \in {"create", "join"} \X Threads!AllIds
  <2> TAKE k \in 1 .. 2 * n
  <2>1. CASE k <= n
    <3>1. first + k - 1 \in first .. final
      BY <2>1
    <3> QED BY <1>2, <2>1, <3>1
  <2>2. CASE k > n
    <3>1. first + k - 1 - n \in first .. final
      BY <2>2
    <3> QED BY <1>2, <2>2, <3>1
  <2> QED BY <2>1, <2>2
<1>4. s \in Seq({"create", "join"} \X Threads!AllIds) /\ Len(s) = 2 * n
  <2> HIDE DEF n, s
  <2>1. s = [k \in 1 .. 2 * n |-> s[k]]
    BY <1>2
  <2> QED BY <1>1, <1>3, <2>1, IsASeq
<1>5. ASSUME NEW k \in 1 .. 2 * n, s[k][1] = "create"
      PROVE  \E j \in k + 1 .. 2 * n : s[j] = <<"join", s[k][2]>>
  <2>1. k <= n
    BY <1>2, <1>5
  <2>2. k + n \in k + 1 .. 2 * n /\ k + n \in 1 .. 2 * n
    BY <1>1, <2>1
  <2>3. first + (k + n) - 1 - n = first + k - 1 /\ ~(k + n <= n)
    OBVIOUS
  <2> HIDE DEF n, s
  <2>4. s[k] = <<"create", first + k - 1>>
    BY <1>2, <2>1
  <2>5. s[k + n] = <<"join", first + k - 1>>
    BY <1>2, <2>2, <2>3
  <2> QED BY <2>2, <2>4, <2>5
<1> QED BY <1>4, <1>5 DEF JoinsAll

(* So does one such sequence after another. *)
LEMMA JoinsAllTwice ==
  ASSUME NEW s, NEW r, JoinsAll(s), JoinsAll(r)
  PROVE  JoinsAll(s \o r) /\ Len(s \o r) = Len(s) + Len(r)
<1> DEFINE c == s \o r
           S == {"create", "join"} \X Threads!AllIds
<1>1. /\ c \in Seq(S) /\ Len(c) = Len(s) + Len(r)
      /\ \A i \in 1 .. Len(s) + Len(r) : c[i] = IF i <= Len(s) THEN s[i] ELSE r[i - Len(s)]
  BY ConcatProperties DEF JoinsAll
<1>2. Len(s) \in Nat /\ Len(r) \in Nat
  BY LenProperties DEF JoinsAll
<1> HIDE DEF c
<1>3. ASSUME NEW k \in 1 .. Len(c), c[k][1] = "create"
      PROVE  \E j \in k + 1 .. Len(c) : c[j] = <<"join", c[k][2]>>
  <2>1. CASE k <= Len(s)
    <3>1. k \in 1 .. Len(s) /\ c[k] = s[k]
      BY <1>1, <1>2, <2>1
    <3>2. PICK j \in k + 1 .. Len(s) : s[j] = <<"join", s[k][2]>>
      BY <1>3, <3>1 DEF JoinsAll
    <3>3. j \in k + 1 .. Len(c) /\ c[j] = s[j]
      BY <1>1, <1>2, <2>1, <3>2
    <3> QED BY <3>1, <3>2, <3>3
  <2>2. CASE k > Len(s)
    <3> DEFINE h == k - Len(s)
    <3>1. h \in 1 .. Len(r) /\ c[k] = r[h]
      BY <1>1, <1>2, <2>2
    <3>2. PICK j \in h + 1 .. Len(r) : r[j] = <<"join", r[h][2]>>
      BY <1>3, <3>1 DEF JoinsAll
    <3>3. j + Len(s) \in k + 1 .. Len(c) /\ j + Len(s) \in 1 .. Len(s) + Len(r)
          /\ j + Len(s) > Len(s) /\ (j + Len(s)) - Len(s) = j
      BY <1>1, <1>2, <2>2, <3>2
    <3>4. c[j + Len(s)] = r[j]
      BY <1>1, <3>3
    <3> QED BY <3>1, <3>2, <3>3, <3>4
  <2> QED BY <1>1, <1>2, <2>1, <2>2
<1> QED BY <1>1, <1>3 DEF JoinsAll, c

(* The same for main() of every program. *)
LEMMA PlanJoinsAll ==
  ASSUME program \in Threads!Programs
  PROVE  JoinsAll(Threads!Plan[program])
<1>1. /\ NThreads \in Nat /\ 1 .. NThreads \subseteq Threads!AllIds
      /\ {1, 2, 3, 4} \subseteq Threads!AllIds
  BY TasksAssumption DEF Threads!ThreadsAssumption, Threads!AllIds
<1>2. JoinsAll(Threads!Calls(1, NThreads))
  <2>1. 1 <= NThreads + 1
    BY <1>1
  <2> QED BY <1>1, <2>1, CallsJoinAll
<1>3. ASSUME NEW a \in 1 .. 4, NEW b \in 1 .. 4, a <= b
      PROVE  JoinsAll(Threads!Calls(a, b))
  <2>1. a .. b \subseteq Threads!AllIds /\ a \in Nat \ {0} /\ b \in Nat /\ a <= b + 1
    BY <1>1, <1>3
  <2> QED BY <2>1, CallsJoinAll
<1>4. JoinsAll(Threads!sharing) /\ JoinsAll(Threads!stack)
  BY <1>3, JoinsAllTwice DEF Threads!sharing, Threads!stack
<1>5. JoinsAll(Threads!arenas)
  BY <1>2 DEF Threads!arenas
<1>6. JoinsAll(Threads!Calls(1, 1))
  BY <1>3
<1> HIDE DEF JoinsAll
<1> QED BY <1>2, <1>4, <1>5, <1>6 DEF Threads!Programs, Threads!Plan

(* 04_pthread_join.c makes one thread, first of all. *)
LEMMA JoinMakesOne ==
  /\ Len(Threads!Plan["join"]) = 2
  /\ Threads!Plan["join"][1] = <<"create", 1>>
  /\ Threads!Plan["join"][2] = <<"join", 1>>
<1>1. Threads!Plan["join"] = Threads!Calls(1, 1)
  BY DEF Threads!Plan
<1>2. Len(Threads!Calls(1, 1)) = 2
  <2>1. 1 .. 1 \subseteq Threads!AllIds
    BY TasksAssumption DEF Threads!ThreadsAssumption, Threads!AllIds
  <2>2. 1 \in Nat \ {0} /\ 1 \in Nat /\ 1 <= 1 + 1
    OBVIOUS
  <2>3. Len(Threads!Calls(1, 1)) = 2 * (1 - 1 + 1)
    BY <2>1, <2>2, CallsJoinAll
  <2> QED BY <2>3
<1> QED BY <1>1, <1>2 DEF Threads!Calls

(* Where main() is in its plan: a thread that runs, or that could not be   *)
(* made, has its join ahead, so that main() gets past the last one only    *)
(* when all have ended.                                                    *)
PlanInv ==
  /\ thread \in [Threads!AllIds ->
                   {"none", "start", "failed", "fill", "return", "store", "ended"}]
  /\ main \in {"start", "calls", "return", "returned", "undefined", "segv"}
  /\ call \in 0 .. Len(Threads!Plan[program])
  /\ \A t \in Threads!AllIds : thread[t] \in {"fill", "return"} => program \in {"key", "join"}
  /\ \A t \in Threads!AllIds : thread[t] = "store" => program \in {"tls", "sharing"}
  /\ main = "start" => call = 0 /\ \A t \in Threads!AllIds : thread[t] = "none"
  /\ main \in {"return", "returned"} => call = Len(Threads!Plan[program])
  /\ \A t \in Threads!AllIds :
       \/ thread[t] \in {"none", "ended"}
       \/ \E j \in call + 1 .. Len(Threads!Plan[program]) :
            Threads!Plan[program][j] = <<"join", t>>

(* Every step of main() and of a thread keeps it. *)
LEMMA PlanStep ==
  ASSUME program \in Threads!Programs, PlanInv, [Next]_vars
  PROVE  PlanInv'
<1>0. program' = program
  BY SameProgram
<1> DEFINE plan == Threads!Plan[program]
           L == Len(plan)
<1>1. /\ plan \in Seq({"create", "join"} \X Threads!AllIds) /\ L \in Nat
      /\ \A k \in 1 .. L : plan[k] \in {"create", "join"} \X Threads!AllIds
      /\ \A k \in 1 .. L : plan[k][1] = "create" =>
            \E j \in k + 1 .. L : plan[j] = <<"join", plan[k][2]>>
      /\ plan' = plan /\ L' = L
  BY <1>0, PlanJoinsAll DEF JoinsAll
<1> HIDE DEF plan, L
<1>2. PlanInv <=>
        /\ thread \in [Threads!AllIds ->
                         {"none", "start", "failed", "fill", "return", "store", "ended"}]
        /\ main \in {"start", "calls", "return", "returned", "undefined", "segv"}
        /\ call \in 0 .. L
        /\ \A t \in Threads!AllIds : thread[t] \in {"fill", "return"} => program \in {"key", "join"}
        /\ \A t \in Threads!AllIds : thread[t] = "store" => program \in {"tls", "sharing"}
        /\ main = "start" => call = 0 /\ \A t \in Threads!AllIds : thread[t] = "none"
        /\ main \in {"return", "returned"} => call = L
        /\ \A t \in Threads!AllIds :
             thread[t] \in {"none", "ended"} \/ \E j \in call + 1 .. L : plan[j] = <<"join", t>>
  BY DEF PlanInv, plan, L
<1>3. PlanInv' <=>
        /\ thread' \in [Threads!AllIds ->
                         {"none", "start", "failed", "fill", "return", "store", "ended"}]
        /\ main' \in {"start", "calls", "return", "returned", "undefined", "segv"}
        /\ call' \in 0 .. L
        /\ \A t \in Threads!AllIds : thread'[t] \in {"fill", "return"} => program \in {"key", "join"}
        /\ \A t \in Threads!AllIds : thread'[t] = "store" => program \in {"tls", "sharing"}
        /\ main' = "start" => call' = 0 /\ \A t \in Threads!AllIds : thread'[t] = "none"
        /\ main' \in {"return", "returned"} => call' = L
        /\ \A t \in Threads!AllIds :
             thread'[t] \in {"none", "ended"} \/ \E j \in call' + 1 .. L : plan[j] = <<"join", t>>
  BY <1>0 DEF PlanInv, plan, L
<1>4. CASE Threads!Start \/ Threads!AllocShared \/ Threads!CountVmas("start", "calls")
           \/ Threads!CountVmas("return", "returned") \/ Threads!Finish \/ Threads!MainReturn
  BY <1>1, <1>2, <1>3, <1>4
     DEF Threads!Start, Threads!AllocShared, Threads!CountVmas, Threads!Finish,
         Threads!MainReturn, plan, L
<1>5. CASE Threads!Create
  <2> DEFINE k == call + 1
             u == plan[k][2]
  <2>1. /\ main = "calls" /\ k \in 1 .. L /\ plan[k][1] = "create" /\ call' = k
        /\ UNCHANGED main
        /\ \/ thread' = [thread EXCEPT ![u] = "start"]
           \/ thread' = [thread EXCEPT ![u] = "failed"]
    BY <1>1, <1>2, <1>5 DEF Threads!Create, plan, L
  <2>2. u \in Threads!AllIds
    BY <1>1, <2>1
  <2>3. \E j \in call' + 1 .. L : plan[j] = <<"join", u>>
    BY <1>1, <2>1
  <2>4. ASSUME NEW t \in Threads!AllIds, t # u
        PROVE  \/ thread'[t] \in {"none", "ended"}
               \/ \E j \in call' + 1 .. L : plan[j] = <<"join", t>>
    <3>1. thread'[t] = thread[t]
      BY <1>2, <2>1, <2>4
    <3>2. ASSUME NEW j \in call + 1 .. L, plan[j] = <<"join", t>>
          PROVE  j \in call' + 1 .. L
      <4>1. j # k
        BY <2>1, <3>2
      <4> QED BY <1>2, <2>1, <4>1, <1>1
    <3> QED BY <1>2, <3>1, <3>2
  <2>5. \A t \in Threads!AllIds :
          thread'[t] \in {"none", "ended"} \/ \E j \in call' + 1 .. L : plan[j] = <<"join", t>>
    BY <2>3, <2>4
  <2> HIDE DEF u
  <2>6. /\ thread' \in [Threads!AllIds ->
                         {"none", "start", "failed", "fill", "return", "store", "ended"}]
        /\ \A t \in Threads!AllIds : thread'[t] \in {"fill", "return"} => program \in {"key", "join"}
        /\ \A t \in Threads!AllIds : thread'[t] = "store" => program \in {"tls", "sharing"}
    BY <1>2, <2>1, <2>2
  <2>7. call' \in 0 .. L /\ main' = "calls"
    BY <1>1, <2>1
  <2> HIDE DEF k
  <2> QED BY <1>3, <2>5, <2>6, <2>7
<1>6. CASE Threads!Join
  <2> DEFINE k == call + 1
             u == plan[k][2]
  <2>1. /\ main = "calls" /\ k \in 1 .. L /\ plan[k][1] = "join" /\ UNCHANGED thread
        /\ \/ thread[u] = "ended" /\ call' = k /\ UNCHANGED main
           \/ main' = "undefined" /\ UNCHANGED call
    BY <1>1, <1>2, <1>6 DEF Threads!Join, Threads!HasEnded, plan, L
  <2>2. ASSUME NEW t \in Threads!AllIds
        PROVE  \/ thread'[t] \in {"none", "ended"}
               \/ \E j \in call' + 1 .. L : plan[j] = <<"join", t>>
    <3>1. ASSUME NEW j \in call + 1 .. L, plan[j] = <<"join", t>>, t # u
          PROVE  j \in call' + 1 .. L
      <4>1. j # k
        BY <3>1
      <4> QED BY <1>2, <2>1, <4>1, <1>1
    <3> QED BY <1>2, <2>1, <3>1
  <2> HIDE DEF u
  <2>3. call' \in 0 .. L /\ main' \in {"calls", "undefined"}
    BY <1>1, <1>2, <2>1
  <2>4. \A t \in Threads!AllIds :
          thread'[t] \in {"none", "ended"} \/ \E j \in call' + 1 .. L : plan[j] = <<"join", t>>
    BY <2>2
  <2> HIDE DEF k
  <2> QED BY <1>2, <1>3, <2>1, <2>3, <2>4
<1>7. ASSUME NEW t \in Threads!AllIds, Threads!Thread(t)
      PROVE  PlanInv'
  <2>1. /\ UNCHANGED call
        /\ main' = main \/ main' = "segv"
        /\ main # "returned"
        /\ \E w \in {"start", "fill", "return", "store", "ended"} :
             /\ thread' = [thread EXCEPT ![t] = w] \/ thread' = thread
             /\ w \in {"fill", "return"} => program \in {"key", "join"}
             /\ w = "store" => program \in {"tls", "sharing"}
        /\ thread[t] \in {"start", "fill", "return", "store"}
    BY <1>2, <1>7 DEF Threads!Thread, Threads!Malloc, Threads!Fill, Threads!Load, Threads!Store,
       Threads!Batch, Threads!Report, Threads!Return, Threads!Running, Threads!heap, Threads!counts
  <2> QED BY <1>2, <1>3, <2>1
<1>8. CASE UNCHANGED threadsVars
  BY <1>2, <1>3, <1>8 DEF threadsVars
<1> QED BY <1>4, <1>5, <1>6, <1>7, <1>8, OneRuns DEF Threads!Main

(* When main() has made all its calls, no thread runs. *)
LEMMA QuietAtTheEnd ==
  ASSUME program \in Threads!Programs, PlanInv, call = Len(Threads!Plan[program])
  PROVE  \A t \in Threads!AllIds : thread[t] \in {"none", "ended"}
<1>1. Len(Threads!Plan[program]) \in Nat
  BY PlanJoinsAll, LenProperties DEF JoinsAll
<1> QED BY <1>1 DEF PlanInv
-----------------------------------------------------------------------------
(* 02_tls_compiler.c and 04_cacheline_falsesharing.c: a thread's counter   *)
(* is the number of its rounds, also between its load and its store, which *)
(* nobody comes between.                                                   *)
CounterInv ==
  /\ counter \in [{0} \cup Threads!AllIds -> Nat]
  /\ done \in [Threads!AllIds -> Nat]
  /\ loaded \in [Threads!AllIds -> Nat]
  /\ printed \in [{0} \cup Threads!AllIds -> Nat]
  /\ \A t \in Threads!AllIds :
       /\ counter[t] = done[t]
       /\ done[t] <= Threads!Goal(t)
       /\ thread[t] = "store" => loaded[t] = done[t] /\ done[t] < Threads!Goal(t)
       /\ printed[t] \in {Threads!NotYet, Threads!Goal(t)}
  /\ counter[0] = IF program = "tls" /\ main # "start" THEN 100 ELSE 0
  /\ printed[0] \in {Threads!NotYet, IF program = "tls" THEN 100 ELSE 0}

(* Every step of main() and of a thread keeps it. *)
LEMMA CounterStep ==
  ASSUME program \in {"tls", "sharing"}, PlanInv, CounterInv, [Next]_vars
  PROVE  CounterInv'
<1>0. /\ program' = program /\ Threads!AllIds \subseteq Nat \ {0}
      /\ \A t \in Threads!AllIds : Threads!Goal(t) \in Nat /\ Threads!Goal(t)' = Threads!Goal(t)
      /\ thread \in [Threads!AllIds ->
                       {"none", "start", "failed", "fill", "return", "store", "ended"}]
  BY SameProgram, TasksAssumption
     DEF Threads!ThreadsAssumption, Threads!AllIds, Threads!Goal, PlanInv
<1> USE DEF CounterInv, Threads!NotYet, Threads!CopyOf
<1>1. CASE Threads!Start \/ Threads!AllocShared \/ Threads!CountVmas("start", "calls")
           \/ Threads!CountVmas("return", "returned") \/ Threads!Finish \/ Threads!MainReturn
  <2>1. UNCHANGED <<done, loaded, thread>>
    BY <1>1 DEF Threads!Start, Threads!AllocShared, Threads!CountVmas, Threads!Finish,
       Threads!MainReturn, Threads!counts
  <2>2. /\ counter' \in [{0} \cup Threads!AllIds -> Nat]
        /\ \A t \in Threads!AllIds : counter'[t] = counter[t]
        /\ counter'[0] = IF program = "tls" /\ main' # "start" THEN 100 ELSE 0
    BY <1>0, <1>1 DEF Threads!Start, Threads!AllocShared, Threads!CountVmas, Threads!Finish,
       Threads!MainReturn, Threads!counts
  <2>3. /\ printed' \in [{0} \cup Threads!AllIds -> Nat]
        /\ \A t \in Threads!AllIds : printed'[t] = printed[t]
        /\ printed'[0] \in {Threads!NotYet, IF program = "tls" THEN 100 ELSE 0}
    BY <1>0, <1>1 DEF Threads!Start, Threads!AllocShared, Threads!CountVmas, Threads!Finish,
       Threads!MainReturn, Threads!counts
  <2> QED BY <1>0, <2>1, <2>2, <2>3
<1>2. CASE Threads!Create \/ Threads!Join
  <2>1. /\ UNCHANGED <<counter, done, loaded, printed>>
        /\ main # "start" /\ main' # "start"
        /\ \A t \in Threads!AllIds : thread'[t] = "store" => thread[t] = "store"
    BY <1>0, <1>2 DEF Threads!Create, Threads!Join, Threads!counts
  <2> QED BY <1>0, <2>1
<1>3. ASSUME NEW t \in Threads!AllIds, Threads!Load(t)
      PROVE  CounterInv'
  BY <1>0, <1>3 DEF Threads!Load
<1>4. ASSUME NEW t \in Threads!AllIds, Threads!Store(t)
      PROVE  CounterInv'
  BY <1>0, <1>4 DEF Threads!Store
<1>5. ASSUME NEW t \in Threads!AllIds, Threads!Report(t)
      PROVE  CounterInv'
  BY <1>0, <1>5 DEF Threads!Report
<1>6. ASSUME NEW t \in Threads!AllIds, Threads!Malloc(t) \/ Threads!Batch(t)
      PROVE  CounterInv'
  BY <1>6 DEF Threads!Malloc, Threads!Batch
<1>7. ASSUME NEW t \in Threads!AllIds, Threads!Fill(t) \/ Threads!Return(t)
      PROVE  CounterInv'
  BY <1>7 DEF Threads!Fill, Threads!Return, PlanInv
<1>8. CASE UNCHANGED threadsVars
  BY <1>0, <1>8 DEF threadsVars
<1> HIDE DEF CounterInv
<1> QED
  BY <1>1, <1>2, <1>3, <1>4, <1>5, <1>6, <1>7, <1>8, OneRuns DEF Threads!Main, Threads!Thread
-----------------------------------------------------------------------------
(* Whose the blocks are, program by program.  03_tls_pthread_key.c: a      *)
(* thread has its block under the key, which is there as long as main()    *)
(* has joins to do, so that the destructor frees it; 04_pthread_join.c:    *)
(* main() frees the block after the join; 08_arenas_threads.c: a thread    *)
(* with a batch that is not yet freed is still in its loop;                *)
(* 04_cacheline_falsesharing.c: b and g are there until the last join.     *)
BlockInv ==
  /\ block \in [Threads!AllIds -> {"none", "raw", "filled", "freed"}]
  /\ slot \in [Threads!AllIds -> BOOLEAN]
  /\ done \in [Threads!AllIds -> Nat]
  /\ main = "start" => \A t \in Threads!AllIds : block[t] = "none"
  /\ program \in {"create", "tls", "stack"} => \A t \in Threads!AllIds : block[t] = "none"
  /\ program = "key" =>
       /\ main = "calls" => key
       /\ \A t \in Threads!AllIds :
            /\ thread[t] = "none" => block[t] = "none"
            /\ thread[t] = "fill" => block[t] = "raw"
            /\ thread[t] = "return" => block[t] = "filled" /\ slot[t]
            /\ thread[t] = "ended" => block[t] = "freed"
  /\ program = "join" =>
       /\ main # "start" /\ call # 0 => thread[1] # "none"
       /\ \A t \in Threads!AllIds :
            /\ ~slot[t]
            /\ t # 1 => thread[t] = "none"
            /\ thread[t] = "none" => block[t] = "none"
            /\ thread[t] = "fill" => block[t] = "raw"
            /\ thread[t] = "return" => block[t] = "filled"
            /\ main = "calls" /\ thread[t] = "ended" => block[t] = "filled"
            /\ main \in {"return", "returned"} => block[t] \in {"none", "freed"}
  /\ program = "arenas" =>
       \A t \in Threads!AllIds :
         /\ block[t] \in {"none", "raw", "freed"}
         /\ block[t] = "raw" => thread[t] \notin {"none", "ended"} /\ done[t] < Iters
  /\ program = "sharing" =>
       /\ \A t \in Threads!AllIds \ {1, 3} : block[t] = "none"
       /\ main \in {"calls", "undefined"} => block[1] = "filled" /\ block[3] = "filled"
       /\ main \in {"return", "returned"} => block[1] = "freed" /\ block[3] = "freed"

(* Every step of main() and of a thread keeps it. *)
LEMMA BlockStep ==
  ASSUME program \in Threads!Programs, PlanInv, BlockInv, [Next]_vars
  PROVE  BlockInv'
<1>0. /\ program' = program /\ {1, 3} \subseteq Threads!AllIds /\ Iters \in Nat
      /\ thread \in [Threads!AllIds ->
                       {"none", "start", "failed", "fill", "return", "store", "ended"}]
      /\ main = "start" => \A t \in Threads!AllIds : thread[t] = "none"
      /\ main \in {"return", "returned"} =>
           \A t \in Threads!AllIds : thread[t] \in {"none", "ended"}
  BY SameProgram, QuietAtTheEnd, TasksAssumption
     DEF Threads!ThreadsAssumption, Threads!AllIds, PlanInv
<1>00. /\ \A t \in Threads!AllIds : thread[t] \in {"fill", "return"} => program \in {"key", "join"}
       /\ \A t \in Threads!AllIds : thread[t] = "store" => program \in {"tls", "sharing"}
       /\ main = "start" => call = 0
       /\ main \in {"start", "calls", "return", "returned", "undefined", "segv"}
  BY DEF PlanInv
<1> USE DEF BlockInv
<1>1. CASE Threads!Start \/ Threads!AllocShared \/ Threads!CountVmas("start", "calls")
  <2>1. CASE Threads!Start
    BY <1>0, <1>00, <2>1 DEF Threads!Start
  <2>2. CASE Threads!AllocShared
    BY <1>0, <1>00, <2>2 DEF Threads!AllocShared, Threads!counts
  <2>3. CASE Threads!CountVmas("start", "calls")
    BY <1>0, <1>00, <2>3 DEF Threads!CountVmas, Threads!heap, Threads!counts
  <2> QED BY <1>1, <2>1, <2>2, <2>3
<1>2. CASE Threads!CountVmas("return", "returned") \/ Threads!MainReturn
  BY <1>0, <1>00, <1>2 DEF Threads!CountVmas, Threads!MainReturn, Threads!heap, Threads!counts
<1>3. CASE Threads!Finish
  <2>1. \A t \in Threads!AllIds : thread[t] \in {"none", "ended"}
    BY <1>3, QuietAtTheEnd DEF Threads!Finish
  <2>2. /\ main = "calls" /\ main' = "return" /\ UNCHANGED <<slot, done, thread, call>>
        /\ block' = [t \in Threads!AllIds |-> IF t \in Threads!MainFrees THEN "freed" ELSE block[t]]
    BY <1>3 DEF Threads!Finish
  <2>3. CASE program = "sharing"
    <3>1. Threads!MainFrees = {1, 3}
      BY <2>3 DEF Threads!MainFrees
    <3> QED BY <1>0, <2>2, <2>3, <3>1
  <2>4. CASE program = "join"
    <3>1. Threads!MainFrees = {1}
      BY <2>4 DEF Threads!MainFrees
    <3>2. thread[1] # "none"
      BY <1>3, <2>4, JoinMakesOne DEF Threads!Finish
    <3>3. \A t \in Threads!AllIds : block'[t] = IF t = 1 THEN "freed" ELSE "none"
      BY <1>0, <2>2, <2>4, <3>1
    <3>4. /\ block' \in [Threads!AllIds -> {"none", "raw", "filled", "freed"}]
          /\ \A t \in Threads!AllIds : thread'[t] \in {"none", "ended"}
          /\ thread'[1] # "none"
      BY <1>0, <2>1, <2>2, <3>2
    <3> QED BY <1>0, <2>2, <2>4, <3>3, <3>4
  <2>5. CASE program \notin {"join", "sharing"}
    <3>1. Threads!MainFrees = {}
      BY <2>5 DEF Threads!MainFrees
    <3> QED BY <1>0, <2>1, <2>2, <2>5, <3>1
  <2> QED BY <2>3, <2>4, <2>5
<1>4. CASE Threads!Create
  <2> DEFINE u == Threads!Plan[program][call + 1][2]
  <2>1. /\ main = "calls" /\ UNCHANGED <<main, key, slot, block, done>> /\ call' = call + 1
        /\ \/ thread' = [thread EXCEPT ![u] = "start"]
           \/ thread' = [thread EXCEPT ![u] = "failed"]
    BY <1>4 DEF Threads!Create, Threads!heap, Threads!counts
  <2>2. program = "join" => u = 1
    BY <1>4, JoinMakesOne DEF Threads!Create, PlanInv
  <2> HIDE DEF u
  <2> QED BY <1>0, <1>00, <2>1, <2>2
<1>5. CASE Threads!Join
  <2>1. /\ main = "calls" /\ main' \in {"calls", "undefined"}
        /\ UNCHANGED <<key, slot, block, done, thread>>
    BY <1>5 DEF Threads!Join, Threads!heap, Threads!counts
  <2>2. program = "join" => thread[1] # "none"
    BY <1>5, JoinMakesOne DEF Threads!Join, Threads!HasEnded, PlanInv
  <2> QED BY <1>0, <1>00, <2>1, <2>2
<1>6. ASSUME NEW t \in Threads!AllIds, Threads!Running, Threads!Malloc(t)
      PROVE  BlockInv'
  BY <1>0, <1>00, <1>6 DEF Threads!Malloc, Threads!counts
<1>7. ASSUME NEW t \in Threads!AllIds, Threads!Running, Threads!Fill(t)
      PROVE  BlockInv'
  BY <1>0, <1>00, <1>7 DEF Threads!Fill, Threads!counts
<1>8. ASSUME NEW t \in Threads!AllIds, Threads!Running, Threads!Load(t) \/ Threads!Report(t)
      PROVE  BlockInv'
  BY <1>0, <1>00, <1>8 DEF Threads!Load, Threads!Report, Threads!heap, Threads!Goal
<1>9. ASSUME NEW t \in Threads!AllIds, Threads!Running, Threads!Store(t)
      PROVE  BlockInv'
  BY <1>0, <1>00, <1>9 DEF Threads!Store, Threads!heap
<1>10. ASSUME NEW t \in Threads!AllIds, Threads!Running, Threads!Batch(t)
       PROVE  BlockInv'
  BY <1>0, <1>00, <1>10 DEF Threads!Batch, Threads!Goal
<1>11. ASSUME NEW t \in Threads!AllIds, Threads!Running, Threads!Return(t)
       PROVE  BlockInv'
  BY <1>0, <1>00, <1>11 DEF Threads!Return, Threads!counts, Threads!Running
<1>12. CASE UNCHANGED threadsVars
  BY <1>0, <1>12 DEF threadsVars
<1> HIDE DEF BlockInv
<1> QED
  BY <1>1, <1>2, <1>3, <1>4, <1>5, <1>6, <1>7, <1>8, <1>9, <1>10, <1>11, <1>12, OneRuns
     DEF Threads!Main, Threads!Thread

(* The programs of Threads, or one in which none of their main()s runs. *)
ThreadsInv == \/ /\ program \in Threads!Programs
                 /\ PlanInv /\ BlockInv
                 /\ program \in {"tls", "sharing"} => CounterInv
              \/ program \notin Threads!Programs /\ main = "start"

(* They start in it and stay in it. *)
LEMMA ThreadsCorrect == Spec => []ThreadsInv
<1>1. Init => ThreadsInv
  <2> SUFFICES ASSUME Init PROVE ThreadsInv
    OBVIOUS
  <2>1. ASSUME program \in Threads!Programs PROVE PlanInv
    <3>1. Len(Threads!Plan[program]) \in Nat
      BY <2>1, PlanJoinsAll, LenProperties DEF JoinsAll
    <3> QED BY <3>1 DEF Init, Threads!Init, PlanInv
  <2>2. BlockInv
    BY DEF Init, Threads!Init, BlockInv
  <2>3. CounterInv
    BY TasksAssumption DEF Init, Threads!Init, CounterInv, Threads!Goal, Threads!NotYet,
       Threads!ThreadsAssumption, Threads!AllIds
  <2> QED BY <2>1, <2>2, <2>3 DEF ThreadsInv, Init, Threads!Init
<1>2. ThreadsInv /\ [Next]_vars => ThreadsInv'
  <2> SUFFICES ASSUME ThreadsInv, [Next]_vars PROVE ThreadsInv'
    OBVIOUS
  <2>1. program' = program /\ Threads!Programs' = Threads!Programs
    BY SameProgram
  <2>2. CASE program \in Threads!Programs
    BY <2>1, <2>2, PlanStep, BlockStep, CounterStep DEF ThreadsInv
  <2>3. CASE program \notin Threads!Programs
    BY <2>1, <2>3, OneRuns DEF ThreadsInv, threadsVars
  <2> QED BY <2>2, <2>3
<1> QED BY <1>1, <1>2, PTL DEF Spec

(* 02_tls_compiler.c, 04_cacheline_falsesharing.c and 05_clone_thread.c,   *)
(* for any number of threads and rounds: no increment is lost, neither of  *)
(* a counter of one's own nor of the one the two tasks share.              *)
THEOREM CountsCorrect == Spec => []CountsAreRight
<1>1. Init => CloneInv
  BY TasksAssumption DEF Init, CloneThread!Init, CloneInv, CloneThread!PrintsAll,
     CloneThread!NAssumption
<1>2. ThreadsInv => Threads!CountersArePrivate
  BY DEF ThreadsInv, Threads!CountersArePrivate, CounterInv, Threads!Programs, Threads!Plan
<1>3. CloneInv => CloneThread!PrintsAll
  BY DEF CloneInv
<1> QED BY <1>1, <1>2, <1>3, CloneStep, ThreadsCorrect, PTL DEF Spec, CountsAreRight

(* 03_tls_pthread_key.c, 04_pthread_join.c, 08_arenas_threads.c and        *)
(* 04_cacheline_falsesharing.c, for any number of threads and rounds: what *)
(* is malloc()ed is freed by the end, and not before its last use.         *)
THEOREM NoLeakCorrect == Spec => []NoLeak
<1>1. ThreadsInv => NoLeak
  <2> SUFFICES ASSUME ThreadsInv, program \in Threads!Programs PROVE NoLeak
    BY DEF ThreadsInv, NoLeak, Threads!NoLeak, Threads!Programs, Threads!Plan
  <2>1. PlanInv /\ BlockInv
    BY DEF ThreadsInv
  <2>2. /\ \/ main \in {"return", "returned"}
           \/ main = "calls" /\ call = Len(Threads!Plan[program])
        => \A t \in Threads!AllIds : thread[t] \in {"none", "ended"}
    BY <2>1, QuietAtTheEnd DEF PlanInv
  <2>3. main = "returned" => \A t \in Threads!AllIds : block[t] \in {"none", "freed"}
    BY <2>1, <2>2 DEF BlockInv, Threads!Programs, Threads!Plan
  <2>4. ASSUME main = "calls", call = Len(Threads!Plan[program]), NEW t \in Threads!MainFrees
        PROVE  block[t] = "filled"
    <3>1. CASE program = "join"
      <4>1. t = 1 /\ 1 \in Threads!AllIds
        BY <2>4, <3>1, TasksAssumption
           DEF Threads!MainFrees, Threads!AllIds, Threads!ThreadsAssumption
      <4>2. thread[1] # "none"
        BY <2>1, <2>4, <3>1, JoinMakesOne DEF BlockInv
      <4> QED BY <2>1, <2>2, <2>4, <3>1, <4>1, <4>2 DEF BlockInv
    <3>2. CASE program = "sharing"
      BY <2>1, <2>4, <3>2 DEF BlockInv, Threads!MainFrees
    <3> QED BY <2>4, <3>1, <3>2 DEF Threads!MainFrees
  <2>5. ASSUME program = "sharing", main # "segv", NEW t \in Threads!AllIds,
               thread[t] \in {"start", "store"}
        PROVE  block[IF t <= 2 THEN 1 ELSE 3] = "filled"
    <3>1. main \in {"calls", "undefined"}
      BY <2>1, <2>2, <2>5 DEF PlanInv
    <3> QED BY <2>1, <2>5, <3>1 DEF BlockInv
  <2> QED BY <2>3, <2>4, <2>5 DEF NoLeak, Threads!NoLeak
<1> QED BY <1>1, ThreadsCorrect, PTL
=============================================================================
