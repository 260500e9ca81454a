------------------------------ MODULE MsgQueue ------------------------------
(***************************************************************************)
(* 10_ipc_memory/09_mq.c: a parent sends messages of mixed priorities      *)
(* through a bounded POSIX message queue to the child it forked, waits for *)
(* it and removes the queue.  A message is its number in the order of      *)
(* sending.                                                                *)
(***************************************************************************)
EXTENDS Naturals, Sequences, FiniteSetsExt

CONSTANTS NMsg,       \* messages (3 in the program)
          prio,       \* the priority of each: 0, 10, 5 in the program
          mq_maxmsg   \* the length of the queue (8 in the program)

Messages == 1 .. NMsg

QueueAssumption == /\ NMsg \in Nat
                   /\ mq_maxmsg \in Nat \ {0}
                   /\ \A k \in Messages : prio[k] \in Nat

VARIABLES
  queue,    \* what the queue holds, the next to be received first
  exists,   \* whether the name is in /dev/mqueue
  parent,   \* where the parent is
  sent,     \* messages it has sent
  child,    \* where the child is
  received  \* what the child has received, in order

vars == <<queue, exists, parent, sent, child, received>>

(* The queue with message k after its first n. *)
InsertAfter(q, n, k) ==
  [i \in 1 .. Len(q) + 1 |-> CASE i <= n -> q[i] [] i = n + 1 -> k [] i > n + 1 -> q[i - 1]]

(* Mistakes for the mutation runs: the child expects one message too many  *)
(* or too few, and the parent does not wait for the child.                 *)
OneTooMany == NMsg + 1
OneTooFew == NMsg - 1
NoWaiting == TRUE

(* The kernel keeps the queue by priority, oldest first among equals: a    *)
(* new message goes after the last whose priority is not below its own.    *)
Insert(q, k) ==
  InsertAfter(q, Max({0} \cup {i \in DOMAIN q : prio[q[i]] >= prio[k]}), k)

Expected == NMsg
ChildGone == child \in {"none", "exited"}
-----------------------------------------------------------------------------
(* After mq_unlink(); mq_open() may fail. *)
Init == /\ queue = <<>>
        /\ exists = FALSE
        /\ parent = "open"
        /\ sent = 0
        /\ child = "none"
        /\ received = <<>>

Open == /\ parent = "open"
        /\ \/ exists' = TRUE /\ parent' = "fork"
           \/ exists' = FALSE /\ parent' = "failed"
        /\ UNCHANGED <<queue, sent, child, received>>

(* A fork() that fails leaves the parent to go on alone. *)
Fork == /\ parent = "fork"
        /\ parent' = "send"
        /\ child' \in {"receive", "none"}
        /\ UNCHANGED <<queue, exists, sent, received>>

(* mq_send() blocks while the queue is full. *)
Send == /\ parent = "send"
        /\ sent < NMsg
        /\ Len(queue) < mq_maxmsg
        /\ sent' = sent + 1
        /\ queue' = Insert(queue, sent + 1)
        /\ UNCHANGED <<exists, parent, child, received>>

AllSent == /\ parent = "send"
           /\ sent = NMsg
           /\ parent' = "wait"
           /\ UNCHANGED <<queue, exists, sent, child, received>>

(* waitpid() returns when the child has exited, or at once if there is     *)
(* none; then the name goes.                                               *)
WaitAndUnlink == /\ parent = "wait"
                 /\ ChildGone
                 /\ exists' = FALSE
                 /\ parent' = "exited"
                 /\ UNCHANGED <<queue, sent, child, received>>

(* mq_receive() blocks while the queue is empty. *)
Receive == /\ child = "receive"
           /\ Len(received) < Expected
           /\ queue # <<>>
           /\ received' = Append(received, Head(queue))
           /\ queue' = Tail(queue)
           /\ UNCHANGED <<exists, parent, sent, child>>

ChildExit == /\ child = "receive"
             /\ Len(received) = Expected
             /\ child' = "exited"
             /\ UNCHANGED <<queue, exists, parent, sent, received>>

Parent == Open \/ Fork \/ Send \/ AllSent \/ WaitAndUnlink
Child == Receive \/ ChildExit

Next == Parent \/ Child

(* Both processes are scheduled. *)
Spec == Init /\ [][Next]_vars /\ WF_vars(Parent) /\ WF_vars(Child)
-----------------------------------------------------------------------------
Done == parent \in {"exited", "failed"}

(* A child that exits has received every message, and none of them twice,  *)
(* however sending and receiving alternate and whatever is overtaken.      *)
AllReceived ==
  child = "exited" => /\ Len(received) = NMsg
                      /\ \A k \in Messages : \E a \in DOMAIN received : received[a] = k

(* Nothing is left behind: when the parent exits the name is gone, and a   *)
(* child that was started has received everything and has exited.          *)
CleanExit == Done => /\ ~exists
                     /\ child = "none" \/ Len(received) = NMsg

(* A parent that has a child exits, whatever the length of the queue.      *)
ParentExitsWithChild == child = "receive" ~> Done

(* "parent sends in mixed priorities; receiver gets high prio first" (the  *)
(* comment in main()): whatever is received later has no higher priority.  *)
(* Not so for a child that is already receiving when the first message,    *)
(* the low one, is sent.                                                   *)
HighPrioFirst ==
  \A a, b \in DOMAIN received : a < b => prio[received[a]] >= prio[received[b]]
=============================================================================
