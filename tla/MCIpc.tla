-------------------------------- MODULE MCIpc -------------------------------
(***************************************************************************)
(* The programs of 10_ipc_memory in which two processes or threads meet,   *)
(* and their relatives of 05_mmap and 08_process_syscalls, for TLC: one of *)
(* them runs, the variables of the others keep their initial values.       *)
(***************************************************************************)
EXTENDS Naturals, Sequences

CONSTANTS NWrites,           \* EventFd
          NMsg, prio, mq_maxmsg, \* MsgQueue
          Words,             \* SharedMemory
          NRec, Capacity, BufRecs \* Pipes

VARIABLES
  program,                                              \* the one that runs
  efd, counter, worker, writes, main, reads, gotten,    \* EventFd
  queue, mq_exists, mq_parent, sent, mq_child, received, \* MsgQueue
  shm_parent, shm_child, exists, attached, ready, msg, seen, \* SharedMemory
  parent, child, readers, writers, buffer, written, out, named, unopened, \* Pipes
  so_parent, so_child, ends, inbox, file, got           \* Sockets

(* The priorities of the program's three messages, repeated. *)
MixedPrio == [k \in 1 .. NMsg |-> CASE k % 3 = 1 -> 0 [] k % 3 = 2 -> 10 [] k % 3 = 0 -> 5]

EventFd == INSTANCE EventFd WITH N <- NWrites, got <- gotten
MsgQueue == INSTANCE MsgQueue
              WITH exists <- mq_exists, parent <- mq_parent, child <- mq_child
SharedMemory == INSTANCE SharedMemory
                  WITH parent <- shm_parent, child <- shm_child
Pipes == INSTANCE Pipes
Sockets == INSTANCE Sockets WITH parent <- so_parent, child <- so_child

ASSUME IpcAssumption == /\ EventFd!NAssumption
                        /\ MsgQueue!QueueAssumption
                        /\ SharedMemory!WordsAssumption
                        /\ Pipes!SizesAssumption

eventVars == <<efd, counter, worker, writes, main, reads, gotten>>
queueVars == <<queue, mq_exists, mq_parent, sent, mq_child, received>>
sharedVars == <<shm_parent, shm_child, exists, attached, ready, msg, seen>>
pipeVars == <<parent, child, readers, writers, buffer, written, out, named, unopened>>
socketVars == <<so_parent, so_child, ends, inbox, file, got>>

vars == <<program, eventVars, queueVars, sharedVars, pipeVars, socketVars>>

Init == /\ program \in {"eventfd", "mq"} \cup SharedMemory!Programs
                        \cup Pipes!Programs \cup Sockets!Programs
        /\ EventFd!Init /\ MsgQueue!Init /\ SharedMemory!Init
        /\ Pipes!Init /\ Sockets!Init

InEventFd == program = "eventfd"
             /\ UNCHANGED <<program, queueVars, sharedVars, pipeVars, socketVars>>
InMsgQueue == program = "mq"
              /\ UNCHANGED <<program, eventVars, sharedVars, pipeVars, socketVars>>
InSharedMemory == program \in SharedMemory!Programs
                  /\ UNCHANGED <<eventVars, queueVars, pipeVars, socketVars>>
InPipes == program \in Pipes!Programs
           /\ UNCHANGED <<eventVars, queueVars, sharedVars, socketVars>>
InSockets == program \in Sockets!Programs
             /\ UNCHANGED <<eventVars, queueVars, sharedVars, pipeVars>>

(* The parent or main(), and the child or the worker. *)
OneSide == \/ EventFd!Main /\ InEventFd
           \/ MsgQueue!Parent /\ InMsgQueue
           \/ SharedMemory!Parent /\ InSharedMemory
           \/ Pipes!Parent /\ InPipes
           \/ Sockets!Parent /\ InSockets

OtherSide == \/ EventFd!Worker /\ InEventFd
             \/ MsgQueue!Child /\ InMsgQueue
             \/ SharedMemory!Child /\ InSharedMemory
             \/ Pipes!Child /\ InPipes
             \/ Sockets!Child /\ InSockets

Rendezvous == Pipes!OpenFifo /\ InPipes

Next == OneSide \/ OtherSide \/ Rendezvous

(* Both sides of the program are scheduled. *)
Spec == /\ Init /\ [][Next]_vars
        /\ WF_vars(OneSide) /\ WF_vars(OtherSide) /\ WF_vars(Rendezvous)
-----------------------------------------------------------------------------
(* 07_eventfd.c: every wake-up written is in a count that main() has read  *)
(* or in the counter, and not in both.                                     *)
NoWakeupLost == EventFd!NoWakeupLost

(* 07_eventfd.c: with a descriptor and a worker main() sees every write,   *)
(* and comes out of its loop if, and only if, no read() took two of them;  *)
(* with a descriptor and no worker it never does, without a descriptor it  *)
(* always does.                                                            *)
ReturnsUnlessMerged ==
  program = "eventfd" => /\ EventFd!AllWritesSeen
                         /\ EventFd!ReturnsUnlessMerged
                         /\ EventFd!BlocksIfMerged
                         /\ EventFd!BlocksAlone
                         /\ EventFd!FailingReadsEnd

(* The pipe, FIFO, shared-memory and socket programs: the receiver gets    *)
(* what was sent, whole and in order, and takes nothing for the end before *)
(* everything was sent; the receiver of 09_mq.c gets every message once.   *)
SentIsReceived == /\ SharedMemory!MessageIsWhole
                  /\ MsgQueue!AllReceived
                  /\ Pipes!StreamIntact /\ Pipes!EofIsTheEnd
                  /\ Sockets!Received

(* After a normal exit there is no queue, segment, FIFO, mapping, open end *)
(* or child left.                                                          *)
NothingLeft == /\ MsgQueue!CleanExit
               /\ SharedMemory!NothingLeft
               /\ Pipes!CleanExit
               /\ Sockets!NothingLeft

(* Once there is a child both sides come to their end; neither waits for   *)
(* ever on the other, on a full queue or on an end of file.                *)
BothSidesExit == /\ MsgQueue!ParentExitsWithChild
                 /\ SharedMemory!BothExit
                 /\ Pipes!BothExit
                 /\ Sockets!BothExit
=============================================================================
