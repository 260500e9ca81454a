------------------------------- MODULE Pipes --------------------------------
(***************************************************************************)
(* Three programs in which a parent writes records to the child it forked: *)
(* 10_ipc_memory/01_pipe.c, 08_process_syscalls/08_pipe_fork.c (the same,  *)
(* with the result of fork() checked) and 10_ipc_memory/03_fifo.c, where   *)
(* parent and child open a FIFO by its name and the child reads once.      *)
(* Neither looks whether its open() has failed: what it then does with the *)
(* descriptor -1 fails too.                                                *)
(*                                                                         *)
(* A record is its number.  A write of one record is atomic, being shorter *)
(* than PIPE_BUF; a read takes as many records as are there and fit.       *)
(***************************************************************************)
EXTENDS Naturals, Sequences

CONSTANTS NRec,     \* records written to a pipe (3 in the programs)
          Capacity, \* records the kernel's buffer holds
          BufRecs   \* records that fit into the child's buf

SizesAssumption == /\ NRec \in Nat
                   /\ Capacity \in Nat \ {0}
                   /\ BufRecs \in Nat \ {0}

Programs == {"pipe", "pipe_fork", "fifo"}

VARIABLES
  program, \* which of the three runs
  parent,  \* where the parent is
  child,   \* where the child is
  readers, \* the processes that have the read end open
  writers, \* the processes that have the write end open
  buffer,  \* the records in the kernel
  written, \* how many the parent has written
  out,     \* what the child has copied to its standard output
  named,   \* whether the FIFO is in the file system
  unopened \* the processes whose open() of the FIFO has failed

ends == <<readers, writers>>
stream == <<buffer, written, out>>
vars == <<program, parent, child, ends, stream, named, unopened>>

Records == IF program = "fifo" THEN 1 ELSE NRec

(* Mistakes for the mutation runs: an empty pipe taken for the end of the  *)
(* file, a child that keeps its copy of the write end, a read that loses   *)
(* what did not fit, and a parent that does not wait.                      *)
EmptyIsEof == buffer = <<>>
KeepsWriteEnd == writers
DropRest(n) == <<>>
NoWaiting == TRUE
-----------------------------------------------------------------------------
(* The FIFO's name is unlinked first. *)
Init == /\ parent = "create"
        /\ child = "none"
        /\ readers = {}
        /\ writers = {}
        /\ buffer = <<>>
        /\ written = 0
        /\ out = <<>>
        /\ named = FALSE
        /\ unopened = {}

(* pipe() *)
Pipe == /\ program # "fifo"
        /\ parent = "create"
        /\ \/ /\ parent' = "fork"
              /\ readers' = {"parent"}
              /\ writers' = {"parent"}
           \/ /\ parent' = "failed"
              /\ UNCHANGED <<readers, writers>>
        /\ UNCHANGED <<program, child, stream, named, unopened>>

Mkfifo == /\ program = "fifo"
          /\ parent = "create"
          /\ \/ parent' = "fork" /\ named' = TRUE
             \/ parent' = "failed" /\ named' = FALSE
          /\ UNCHANGED <<program, child, ends, stream, unopened>>

(* The child inherits both ends. *)
ForkPipe == /\ program # "fifo"
            /\ parent = "fork"
            /\ parent' = "close"
            /\ child' = "close"
            /\ readers' = {"parent", "child"}
            /\ writers' = {"parent", "child"}
            /\ UNCHANGED <<program, stream, named, unopened>>

ForkFifo == /\ program = "fifo"
            /\ parent = "fork"
            /\ parent' = "open"
            /\ child' = "open"
            /\ UNCHANGED <<program, ends, stream, named, unopened>>

(* 08_pipe_fork.c gives up when fork() fails; the others do not look, and  *)
(* the parent goes on without a reader.                                    *)
ForkFails == /\ parent = "fork"
             /\ parent' = CASE program = "pipe_fork" -> "failed"
                            [] program = "pipe" -> "close"
                            [] program = "fifo" -> "open"
             /\ readers' = IF program = "pipe" THEN readers ELSE {}
             /\ writers' = IF program = "pipe" THEN writers ELSE {}
             /\ UNCHANGED <<program, child, stream, named, unopened>>

CloseReadEnd == /\ parent = "close"
                /\ parent' = "write"
                /\ readers' = readers \ {"parent"}
                /\ UNCHANGED <<program, child, writers, stream, named, unopened>>

(* An open() of the FIFO fails at once or waits for the other.  If it has  *)
(* failed, nothing is written, or nothing read and copied.                 *)
ParentOpen == /\ parent = "open"
              /\ \/ parent' = "opening" /\ UNCHANGED unopened
                 \/ parent' = "wait" /\ unopened' = unopened \cup {"parent"}
              /\ UNCHANGED <<program, child, ends, stream, named>>

ChildOpen == /\ child = "open"
             /\ \/ child' = "opening" /\ UNCHANGED unopened
                \/ child' = "exit" /\ unopened' = unopened \cup {"child"}
             /\ UNCHANGED <<program, parent, ends, stream, named>>

OpenFifo == /\ parent = "opening" /\ child = "opening"
            /\ parent' = "write"
            /\ child' = "read"
            /\ readers' = {"child"}
            /\ writers' = {"parent"}
            /\ UNCHANGED <<program, stream, named, unopened>>

(* write() blocks while the buffer is full, and kills a process that       *)
(* writes to a pipe nobody can read (SIGPIPE).                             *)
Write == /\ parent = "write"
         /\ written < Records
         /\ \/ /\ readers # {}
               /\ Len(buffer) < Capacity
               /\ written' = written + 1
               /\ buffer' = Append(buffer, written + 1)
               /\ UNCHANGED <<parent, writers>>
            \/ /\ readers = {}
               /\ parent' = "sigpipe"
               /\ writers' = writers \ {"parent"}
               /\ UNCHANGED <<written, buffer>>
         /\ UNCHANGED <<program, child, readers, out, named, unopened>>

CloseWriteEnd == /\ parent = "write"
                 /\ written = Records
                 /\ parent' = "wait"
                 /\ writers' = writers \ {"parent"}
                 /\ UNCHANGED <<program, child, readers, stream, named, unopened>>

ChildGone == child \in {"none", "exited"}

(* waitpid(); 03_fifo.c then unlinks the FIFO. *)
Wait == /\ parent = "wait"
        /\ ChildGone
        /\ parent' = "exited"
        /\ named' = FALSE
        /\ UNCHANGED <<program, child, ends, stream, unopened>>

AfterChildClose == writers \ {"child"}

ChildClose == /\ child = "close"
              /\ child' = "read"
              /\ writers' = AfterChildClose
              /\ UNCHANGED <<program, parent, readers, stream, named, unopened>>

Rest(n) == SubSeq(buffer, n + 1, Len(buffer))

(* 01_pipe.c and 08_pipe_fork.c read in a loop, 03_fifo.c once. *)
Read == /\ child = "read"
        /\ buffer # <<>>
        /\ LET n == IF Len(buffer) < BufRecs THEN Len(buffer) ELSE BufRecs
           IN  /\ out' = out \o SubSeq(buffer, 1, n)
               /\ buffer' = Rest(n)
        /\ child' = IF program = "fifo" THEN "exit" ELSE "read"
        /\ UNCHANGED <<program, parent, ends, written, named, unopened>>

Eof == buffer = <<>> /\ writers = {}

ReadEof == /\ child = "read"
           /\ Eof
           /\ child' = "exit"
           /\ UNCHANGED <<program, parent, ends, stream, named, unopened>>

ChildExit == /\ child = "exit"
             /\ child' = "exited"
             /\ readers' = readers \ {"child"}
             /\ writers' = writers \ {"child"}
             /\ UNCHANGED <<program, parent, stream, named, unopened>>

Parent == \/ Pipe \/ Mkfifo \/ ForkPipe \/ ForkFifo \/ ForkFails
          \/ ParentOpen \/ CloseReadEnd \/ Write \/ CloseWriteEnd \/ Wait
Child == ChildOpen \/ ChildClose \/ Read \/ ReadEof \/ ChildExit

Next == Parent \/ Child \/ OpenFifo

(* Both processes are scheduled. *)
Spec == /\ program \in Programs /\ Init /\ [][Next]_vars
        /\ WF_vars(Parent) /\ WF_vars(Child) /\ WF_vars(OpenFifo)
-----------------------------------------------------------------------------
(* The pipe is a stream: what came out and what is in it is what was       *)
(* written, in order.                                                      *)
StreamIntact == out \o buffer = [k \in 1 .. written |-> k]

(* End of file means that everything has been said: the child leaves its   *)
(* loop only when it has copied every record.                              *)
EofIsTheEnd ==
  child \in {"exit", "exited"} => "child" \in unopened \/ Len(out) = Records

(* Nothing is left when the parent exits normally: the child was waited    *)
(* for, no end is open and the FIFO's name is gone.                        *)
CleanExit == parent = "exited" => /\ child \in {"none", "exited"}
                                  /\ readers = {} /\ writers = {}
                                  /\ ~named

(* Once there is a child, both exit: the child gets its end of file.  Only *)
(* one that is left alone in its open() waits for ever, and its parent for *)
(* it.  With no child the parent of 01_pipe.c dies of SIGPIPE, and the one *)
(* of 03_fifo.c waits for a reader for ever.                               *)
BothExit == child # "none" ~> \/ parent = "exited" /\ child = "exited"
                              \/ parent = "opening" /\ unopened = {"child"}
                              \/ child = "opening" /\ unopened = {"parent"}
=============================================================================
