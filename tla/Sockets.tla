------------------------------ MODULE Sockets -------------------------------
(***************************************************************************)
(* Two programs around a pair of connected sockets that parent and child   *)
(* share after fork(): 10_ipc_memory/02_socketpair.c, which exchanges ping *)
(* and pong, and 10_ipc_memory/10_scm_rights.c, which passes an open file. *)
(*                                                                         *)
(* Of a file the model keeps who refers to the open file description: a    *)
(* process, or a message in flight.  A message never splits: each side     *)
(* sends at most one.                                                      *)
(***************************************************************************)
EXTENDS Naturals, Sequences

Programs == {"socketpair", "scm_rights"}

VARIABLES
  program, \* which of the two runs
  parent,  \* where the parent is
  child,   \* where the child is
  ends,    \* ends[e]: the processes that have sv[e] open
  inbox,   \* inbox[e]: the messages that can be read from sv[e]
  file,    \* who refers to the open file
  got      \* got[p]: what process p has received

vars == <<program, parent, child, ends, inbox, file, got>>

Peer(e) == 1 - e

(* Mistakes for the mutation runs: a child that keeps its copy of the      *)
(* parent's end, a message that does not carry the file, and a parent that *)
(* does not wait.                                                          *)
KeepsBoth == ends
SendsNumber == file
NoWaiting == TRUE
-----------------------------------------------------------------------------
Init == /\ parent = "create"
        /\ child = "none"
        /\ ends = [e \in {0, 1} |-> {}]
        /\ inbox = [e \in {0, 1} |-> <<>>]
        /\ file = {}
        /\ got = [p \in {"parent", "child"} |-> "nothing"]

(* 02_socketpair.c gives up when socketpair() fails.  10_scm_rights.c does *)
(* not look: sv then holds what was on the stack, taken here to be no open *)
(* descriptor.                                                             *)
Socketpair ==
  /\ parent = "create"
  /\ \/ /\ parent' = "fork"
        /\ ends' = [e \in {0, 1} |-> {"parent"}]
     \/ /\ parent' = IF program = "socketpair" THEN "failed" ELSE "fork"
        /\ UNCHANGED ends
  /\ UNCHANGED <<program, child, inbox, file, got>>

(* Neither program looks whether fork() failed. *)
Fork == /\ parent = "fork"
        /\ parent' = "close"
        /\ \/ /\ child' = "close"
              /\ ends' = [e \in {0, 1} |-> IF ends[e] = {} THEN {} ELSE {"parent", "child"}]
           \/ UNCHANGED <<child, ends>>
        /\ UNCHANGED <<program, inbox, file, got>>

(* close(sv[1]) *)
ParentClose == /\ parent = "close"
               /\ parent' = IF program = "socketpair" THEN "send" ELSE "open"
               /\ ends' = [ends EXCEPT ![1] = @ \ {"parent"}]
               /\ UNCHANGED <<program, child, inbox, file, got>>

(* open("/etc/hostname"); if it fails the parent returns without waiting.  *)
OpenFile == /\ parent = "open"
            /\ \/ parent' = "send" /\ file' = {"parent"} /\ UNCHANGED ends
               \/ /\ parent' = "failed"
                  /\ ends' = [ends EXCEPT ![0] = @ \ {"parent"}]
                  /\ UNCHANGED file
            /\ UNCHANGED <<program, child, inbox, got>>

FileAfterSend == file \cup {"flight"}

(* write(), or send_fd(), whose result is not looked at.  Sending to a     *)
(* closed peer kills the process (SIGPIPE).                                *)
ParentSend ==
  /\ parent = "send"
  /\ \/ /\ ends[1] # {}
        /\ inbox' = [inbox EXCEPT ![1] = Append(@, "message")]
        /\ \/ /\ program = "socketpair"
              /\ parent' = "read"
              /\ UNCHANGED file
           \/ /\ program = "scm_rights"
              /\ parent' = "closeall"
              /\ file' = FileAfterSend
        /\ UNCHANGED ends
     \/ /\ ends[1] = {} /\ ends[0] # {}
        /\ parent' = "sigpipe"
        /\ ends' = [ends EXCEPT ![0] = @ \ {"parent"}]
        /\ file' = file \ {"parent"}
        /\ UNCHANGED inbox
     \/ /\ ends[0] = {}
        /\ parent' = "closeall"
        /\ UNCHANGED <<ends, inbox, file>>
  /\ UNCHANGED <<program, child, got>>

(* read(sv[0]) waits for an answer or for the other side to be closed. *)
ParentRead == /\ parent = "read"
              /\ \/ /\ inbox[0] # <<>>
                    /\ got' = [got EXCEPT !["parent"] = Head(inbox[0])]
                    /\ inbox' = [inbox EXCEPT ![0] = Tail(@)]
                 \/ /\ inbox[0] = <<>> /\ ends[1] = {}
                    /\ got' = [got EXCEPT !["parent"] = "eof"]
                    /\ UNCHANGED inbox
              /\ parent' = "closeall"
              /\ UNCHANGED <<program, child, ends, file>>

CloseAll == /\ parent = "closeall"
            /\ parent' = "wait"
            /\ ends' = [ends EXCEPT ![0] = @ \ {"parent"}]
            /\ file' = file \ {"parent"}
            /\ UNCHANGED <<program, child, inbox, got>>

ChildGone == child \in {"none", "exited", "sigpipe"}

Wait == /\ parent = "wait"
        /\ ChildGone
        /\ parent' = "exited"
        /\ UNCHANGED <<program, child, ends, inbox, file, got>>

AfterChildClose == [ends EXCEPT ![0] = @ \ {"child"}]

ChildClose == /\ child = "close"
              /\ child' = "receive"
              /\ ends' = AfterChildClose
              /\ UNCHANGED <<program, parent, inbox, file, got>>

(* read(), or recv_fd(): the kernel gives the receiver a reference to the  *)
(* file the message carries.  End of file, and a socket that is not open,  *)
(* make recv_fd() return -1.                                               *)
ChildReceive ==
  /\ child = "receive"
  /\ \/ /\ inbox[1] # <<>>
        /\ inbox' = [inbox EXCEPT ![1] = Tail(@)]
        /\ file' = IF "flight" \in file THEN (file \ {"flight"}) \cup {"child"} ELSE file
        /\ got' = [got EXCEPT !["child"] =
                     IF program = "socketpair" THEN "message"
                     ELSE IF "flight" \in file THEN "fd" ELSE "junk"]
     \/ /\ inbox[1] = <<>> /\ ends[0] = {}
        /\ got' = [got EXCEPT !["child"] = IF "child" \in ends[1] THEN "eof" ELSE "error"]
        /\ UNCHANGED <<inbox, file>>
  /\ child' = IF program = "socketpair" THEN "answer" ELSE "copy"
  /\ UNCHANGED <<program, parent, ends>>

(* write(sv[1]) *)
ChildAnswer == /\ child = "answer"
               /\ \/ /\ ends[0] # {}
                     /\ child' = "exit"
                     /\ inbox' = [inbox EXCEPT ![0] = Append(@, "message")]
                     /\ UNCHANGED ends
                  \/ /\ ends[0] = {}
                     /\ child' = "sigpipe"
                     /\ ends' = [ends EXCEPT ![1] = @ \ {"child"}]
                     /\ UNCHANGED inbox
               /\ UNCHANGED <<program, parent, file, got>>

(* lseek(), read(), write() and close() of the file received; with -1 each *)
(* of them fails and is ignored.                                           *)
ChildCopy == /\ child = "copy"
             /\ child' = "exit"
             /\ got' = [got EXCEPT !["child"] = IF "child" \in file THEN "content" ELSE @]
             /\ file' = file \ {"child"}
             /\ UNCHANGED <<program, parent, ends, inbox>>

ChildExit == /\ child = "exit"
             /\ child' = "exited"
             /\ ends' = [ends EXCEPT ![1] = @ \ {"child"}]
             /\ UNCHANGED <<program, parent, inbox, file, got>>

Parent == \/ Socketpair \/ Fork \/ ParentClose \/ OpenFile
          \/ ParentSend \/ ParentRead \/ CloseAll \/ Wait
Child == ChildClose \/ ChildReceive \/ ChildAnswer \/ ChildCopy \/ ChildExit

Next == Parent \/ Child

(* Both processes are scheduled. *)
Spec == /\ program \in Programs /\ Init /\ [][Next]_vars
        /\ WF_vars(Parent) /\ WF_vars(Child)
-----------------------------------------------------------------------------
(* A parent with a child that ends normally has had its message answered,  *)
(* or its file read through the descriptor the child received, although    *)
(* the parent closes its own before the child uses it.  ("error": there    *)
(* was no socket to begin with.)                                           *)
Received ==
  parent = "exited" /\ child # "none" =>
    \/ program = "socketpair" /\ got["child"] = "message" /\ got["parent"] = "message"
    \/ program = "scm_rights" /\ got["child"] \in {"content", "error"}

(* Nobody is left behind and nothing is left open when the parent ends     *)
(* normally.                                                               *)
NothingLeft == parent = "exited" => /\ ChildGone
                                    /\ ends = [e \in {0, 1} |-> {}]
                                    /\ file = {}

(* The child ends, also when the parent gives up before it sends. *)
BothExit == child # "none" ~> /\ parent \in {"exited", "failed"}
                              /\ child = "exited"
=============================================================================
