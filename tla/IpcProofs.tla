------------------------------ MODULE IpcProofs ------------------------------
(***************************************************************************)
(* The safety properties of the programs in which two processes or threads *)
(* meet, for every number of writes, messages, words and records, every    *)
(* priority and every size of queue and buffer.                            *)
(***************************************************************************)
EXTENDS MCIpc, SequenceTheorems, WellFoundedInduction, TLAPS

(* A set of natural numbers that is not empty has a least member. *)
LEMMA LeastMember ==
  ASSUME NEW S \in SUBSET Nat, S # {}
  PROVE  \E m \in S : \A x \in S : m <= x
<1> DEFINE R == {p \in Nat \X Nat : p[1] < p[2]}
<1>1. IsWellFoundedOn(R, Nat)
  BY NatLessThanWellFounded, Zenon DEF OpToRel
<1>2. \A x, y \in Nat : ~ (<<x, y>> \in R) => y <= x
  OBVIOUS
<1> HIDE DEF R
<1>3. PICK m \in S : \A y \in S : ~ (<<y, m>> \in R)
  BY <1>1, WFMin, Zenon
<1>4. \A x \in S : m <= x
  BY <1>2, <1>3
<1> QED BY <1>4

(* A bounded one has a greatest. *)
LEMMA GreatestMember ==
  ASSUME NEW S \in SUBSET Nat, S # {}, NEW b \in Nat, \A x \in S : x <= b
  PROVE  \E m \in S : \A x \in S : x <= m
<1> DEFINE U == {u \in Nat : \A x \in S : x <= u}
<1>1. PICK u \in U : \A x \in U : u <= x
  <2>1. b \in U
    OBVIOUS
  <2> QED BY <2>1, LeastMember
<1>2. CASE u \in S
  BY <1>2
<1>3. CASE u \notin S
  <2>1. \A x \in S : x < u
    BY <1>3
  <2>2. PICK x \in S : x < u
    BY <2>1
  <2>3. u - 1 \in Nat
    BY <2>2
  <2>4. u - 1 \in U
    BY <2>1, <2>3
  <2> QED BY <1>1, <2>4
<1> QED BY <1>2, <1>3
-----------------------------------------------------------------------------

(* One program runs, and always the same: a step is a step of one of the   *)
(* components and leaves the variables of the others alone.                *)
LEMMA OneRuns ==
  ASSUME [Next]_vars
  PROVE  /\ EventFd!Next \/ UNCHANGED eventVars
         /\ MsgQueue!Next \/ UNCHANGED queueVars
         /\ SharedMemory!Next \/ UNCHANGED sharedVars
         /\ (Pipes!Next /\ program \in Pipes!Programs) \/ UNCHANGED pipeVars
         /\ (Sockets!Next /\ program \in Sockets!Programs) \/ UNCHANGED socketVars
BY DEF Next, vars, OneSide, OtherSide, Rendezvous,
       InEventFd, InMsgQueue, InSharedMemory, InPipes, InSockets,
       EventFd!Next, MsgQueue!Next, SharedMemory!Next, Pipes!Next, Sockets!Next

(* A step is of the program that runs, and starts no other. *)
LEMMA SameProgram ==
  ASSUME [Next]_vars
  PROVE  UNCHANGED program
<1>1. ASSUME SharedMemory!Parent \/ SharedMemory!Child PROVE UNCHANGED program
  BY <1>1 DEF SharedMemory!Parent, SharedMemory!Child, SharedMemory!CreateShmOpen,
              SharedMemory!CreateSysv, SharedMemory!CreateMmap, SharedMemory!Fork,
              SharedMemory!SetReady, SharedMemory!WaitAndRemove, SharedMemory!WriteWord,
              SharedMemory!Poll, SharedMemory!ChildExit, SharedMemory!ReadWord
<1>2. ASSUME Pipes!Parent \/ Pipes!Child \/ Pipes!OpenFifo PROVE UNCHANGED program
  BY <1>2 DEF Pipes!Parent, Pipes!Child, Pipes!OpenFifo, Pipes!Pipe, Pipes!Mkfifo,
              Pipes!ForkPipe, Pipes!ForkFifo, Pipes!ForkFails, Pipes!CloseReadEnd, Pipes!ParentOpen,
              Pipes!ChildOpen,
              Pipes!Write, Pipes!CloseWriteEnd, Pipes!Wait, Pipes!ChildClose,
              Pipes!Read, Pipes!ReadEof, Pipes!ChildExit
<1>3. ASSUME Sockets!Parent \/ Sockets!Child PROVE UNCHANGED program
  BY <1>3 DEF Sockets!Parent, Sockets!Child, Sockets!Socketpair, Sockets!Fork,
              Sockets!ParentClose, Sockets!OpenFile, Sockets!ParentSend,
              Sockets!ParentRead, Sockets!CloseAll, Sockets!Wait, Sockets!ChildClose,
              Sockets!ChildReceive, Sockets!ChildAnswer, Sockets!ChildCopy,
              Sockets!ChildExit
<1> QED
  BY <1>1, <1>2, <1>3 DEF Next, vars, OneSide, OtherSide, Rendezvous, InEventFd, InMsgQueue
-----------------------------------------------------------------------------
(* 07_eventfd.c: a count is in what main() has got or in the counter, and  *)
(* every read() of the descriptor that returned took at least 1.           *)
EventInv == /\ counter \in Nat
            /\ gotten \in Nat
            /\ writes \in 0 .. NWrites
            /\ reads \in 0 .. NWrites
            /\ efd => reads <= gotten /\ gotten + counter = writes
            /\ ~efd => gotten = 0 /\ counter = 0
            /\ main \in {"open", "create"} =>
                 worker = "new" /\ gotten = 0 /\ counter = 0 /\ reads = 0
            /\ worker = "new" => writes = 0

(* Every step keeps the invariant of the event counter. *)
LEMMA EventStep == EventInv /\ [Next]_vars => EventInv'
<1> SUFFICES ASSUME EventInv, [Next]_vars PROVE EventInv'
  OBVIOUS
<1> USE DEF EventInv
<1>1. NWrites \in Nat
  BY IpcAssumption DEF EventFd!NAssumption
<1>2. CASE EventFd!Main
  <2>1. CASE EventFd!Open \/ EventFd!Create
    BY <1>1, <2>1 DEF EventFd!Open, EventFd!Create
  <2>2. CASE EventFd!Read
    <3>1. reads' = reads + 1 /\ reads < NWrites /\ reads \in Nat /\ UNCHANGED <<writes, main, worker, efd>>
      BY <1>1, <2>2 DEF EventFd!Read
    <3>2. CASE efd
      BY <1>1, <2>2, <3>1, <3>2 DEF EventFd!Read, EventFd!CounterAfterRead
    <3>3. CASE ~efd
      BY <1>1, <2>2, <3>1, <3>3 DEF EventFd!Read
    <3> QED BY <3>2, <3>3
  <2>3. CASE EventFd!LoopDone \/ EventFd!Join
    BY <1>1, <2>3 DEF EventFd!LoopDone, EventFd!Join
  <2> QED BY <1>2, <2>1, <2>2, <2>3 DEF EventFd!Main
<1>3. CASE EventFd!Worker
  BY <1>1, <1>3 DEF EventFd!Worker, EventFd!Write, EventFd!WorkerReturn,
                    EventFd!CounterAfterWrite, EventFd!WritesToDo
<1>4. CASE UNCHANGED eventVars
  BY <1>4 DEF eventVars
<1> QED BY <1>2, <1>3, <1>4, OneRuns DEF EventFd!Next

(* 07_eventfd.c: whatever the number of writes and however they meet the   *)
(* reads, no wake-up is lost and none is counted twice.                    *)
THEOREM EventFdCorrect == Spec => []NoWakeupLost
<1>1. Init => EventInv
  BY IpcAssumption DEF Init, EventFd!Init, EventInv, EventFd!NAssumption
<1>2. EventInv => NoWakeupLost
  BY DEF EventInv, NoWakeupLost, EventFd!NoWakeupLost
<1> QED BY <1>1, <1>2, EventStep, PTL DEF Spec

(* 07_eventfd.c: main() is past its loop only after N reads. *)
LoopInv == /\ EventInv
           /\ main \in {"open", "create", "loop", "join", "returned", "undefined"}
           /\ main \in {"join", "returned", "undefined"} => reads = NWrites

(* main() waits for a count that nobody will write: a read() has taken two *)
(* writes, or there is a descriptor and no worker.                         *)
TookTwo == LoopInv /\ gotten > reads
Alone == LoopInv /\ efd /\ worker = "new" /\ main = "loop"

(* Every step keeps the invariant, and neither of the two ever ends.       *)
LEMMA LoopStep ==
  LoopInv /\ [Next]_vars => LoopInv' /\ (TookTwo => TookTwo') /\ (Alone => Alone')
<1> SUFFICES ASSUME LoopInv, [Next]_vars
             PROVE  LoopInv' /\ (TookTwo => TookTwo') /\ (Alone => Alone')
  OBVIOUS
<1>1. EventInv'
  BY EventStep DEF LoopInv
<1> USE DEF LoopInv, EventInv, TookTwo, Alone
<1>2. NWrites \in Nat \ {0}
  BY IpcAssumption DEF EventFd!NAssumption
<1>3. CASE EventFd!Main
  <2>1. CASE EventFd!Open \/ EventFd!Create
    BY <1>1, <2>1 DEF EventFd!Open, EventFd!Create
  <2>2. CASE EventFd!Read
    <3>1. CASE efd
      <4>1. gotten' = gotten + counter /\ reads' = reads + 1 /\ counter > 0
        BY <2>2, <3>1 DEF EventFd!Read
      <4>2. gotten > reads => gotten' > reads'
        BY <4>1
      <4>3. worker # "new"
        BY <3>1, <4>1
      <4>4. UNCHANGED <<efd, worker, main>> /\ main = "loop"
        BY <2>2 DEF EventFd!Read
      <4>5. LoopInv'
        BY <1>1, <4>4
      <4> HIDE DEF LoopInv
      <4> QED BY <4>2, <4>3, <4>4, <4>5
    <3>2. CASE ~efd
      BY <1>1, <2>2, <3>2 DEF EventFd!Read
    <3> QED BY <3>1, <3>2
  <2>3. CASE EventFd!LoopDone
    <3>1. ~ Alone
      BY <1>2, <2>3 DEF EventFd!LoopDone
    <3> QED BY <1>1, <1>2, <2>3, <3>1 DEF EventFd!LoopDone
  <2>4. CASE EventFd!Join
    BY <1>1, <1>2, <2>4 DEF EventFd!Join
  <2> QED BY <1>3, <2>1, <2>2, <2>3, <2>4 DEF EventFd!Main
<1>4. CASE EventFd!Worker
  BY <1>1, <1>2, <1>4 DEF EventFd!Worker, EventFd!Write, EventFd!WorkerReturn
<1>5. CASE UNCHANGED eventVars
  BY <1>1, <1>5 DEF eventVars
<1> QED BY <1>3, <1>4, <1>5, OneRuns DEF EventFd!Next

(* 07_eventfd.c: once a read() has taken two writes, or if there is a      *)
(* descriptor and pthread_create() has failed, main() never comes out of   *)
(* its loop, whatever happens then.                                        *)
THEOREM MergedReadBlocks == Spec => EventFd!BlocksIfMerged /\ EventFd!BlocksAlone
<1>1. Init => LoopInv
  BY IpcAssumption DEF Init, EventFd!Init, LoopInv, EventInv, EventFd!NAssumption
<1>2. TookTwo => main = "loop"
  <2>1. NWrites \in Nat \ {0}
    BY IpcAssumption DEF EventFd!NAssumption
  <2> QED BY <2>1 DEF TookTwo, LoopInv, EventInv
<1>3. /\ Alone => main = "loop"
      /\ LoopInv /\ efd /\ main = "loop" /\ worker = "new" => Alone
      /\ LoopInv /\ gotten > reads => TookTwo
  BY DEF Alone, TookTwo
<1>4. Spec => EventFd!BlocksIfMerged
  BY <1>1, <1>2, <1>3, LoopStep, PTL DEF Spec, EventFd!BlocksIfMerged
<1>5. Spec => EventFd!BlocksAlone
  BY <1>1, <1>3, LoopStep, PTL DEF Spec, EventFd!BlocksAlone
<1> QED BY <1>4, <1>5
-----------------------------------------------------------------------------
(* 05_sysv_shm.c, 04_shm_open.c, 03_shared_mmap.c: the flag says that the  *)
(* message is complete, and the child reads only after it saw the flag.    *)
SharedInv ==
  /\ msg \in [1 .. Words -> {"zero", "text"}]
  /\ seen \in [1 .. Words -> {"unread", "text"}]
  /\ ready # 0 => \A w \in SharedMemory!WordsOf : msg[w] = "text"
  /\ shm_child = "read" => ready # 0
  /\ shm_child \in {"none", "poll", "read", "exited"}
  /\ attached \subseteq {"parent", "child"}
  /\ "child" \in attached => shm_child \in {"poll", "read"}
  /\ shm_parent \in {"create", "fork"} => shm_child = "none"
  /\ shm_parent = "exited" => /\ ~exists
                              /\ "parent" \notin attached
                              /\ shm_child \in {"none", "exited"}

(* Every step keeps what the two mappings hold. *)
LEMMA SharedStep == SharedInv /\ [Next]_vars => SharedInv'
<1> SUFFICES ASSUME SharedInv, [Next]_vars PROVE SharedInv'
  OBVIOUS
<1> USE DEF SharedInv
<1>1. SharedMemory!WordsOf' = SharedMemory!WordsOf
      /\ SharedMemory!WordsOf \subseteq 1 .. Words
  BY SameProgram DEF SharedMemory!WordsOf
<1>2. CASE SharedMemory!Parent
  <2>1. CASE SharedMemory!CreateShmOpen \/ SharedMemory!CreateSysv \/ SharedMemory!CreateMmap
    BY <1>1, <2>1 DEF SharedMemory!CreateShmOpen, SharedMemory!CreateSysv,
                      SharedMemory!CreateMmap
  <2>2. CASE SharedMemory!Fork
    BY <1>1, <2>2 DEF SharedMemory!Fork
  <2>3. CASE SharedMemory!SetReady
    BY <1>1, <2>3 DEF SharedMemory!SetReady, SharedMemory!Written
  <2>4. CASE SharedMemory!WaitAndRemove
    BY <1>1, <2>4 DEF SharedMemory!WaitAndRemove, SharedMemory!ExistsAfterRemove
  <2>5. ASSUME NEW w \in SharedMemory!WordsOf, SharedMemory!WriteWord(w) PROVE SharedInv'
    BY <1>1, <2>5 DEF SharedMemory!WriteWord
  <2> QED BY <1>2, <2>1, <2>2, <2>3, <2>4, <2>5 DEF SharedMemory!Parent
<1>3. CASE SharedMemory!Child
  <2>1. CASE SharedMemory!Poll
    BY <1>1, <2>1 DEF SharedMemory!Poll, SharedMemory!IsReady
  <2>2. CASE SharedMemory!ChildExit
    BY <1>1, <2>2 DEF SharedMemory!ChildExit
  <2>3. ASSUME NEW w \in SharedMemory!WordsOf, SharedMemory!ReadWord(w) PROVE SharedInv'
    BY <1>1, <2>3 DEF SharedMemory!ReadWord
  <2> QED BY <1>3, <2>1, <2>2, <2>3 DEF SharedMemory!Child
<1>4. CASE UNCHANGED sharedVars
  BY <1>1, <1>4 DEF sharedVars
<1> QED BY <1>2, <1>3, <1>4, OneRuns DEF SharedMemory!Next

(* It holds when the program starts. *)
LEMMA SharedInit == Init => SharedInv
BY DEF Init, SharedMemory!Init, SharedInv
-----------------------------------------------------------------------------
(* A function on 1 .. n is a sequence. *)
LEMMA FunctionIsSeq ==
  ASSUME NEW S, NEW n \in Nat, NEW f \in [1 .. n -> S]
  PROVE  f \in Seq(S)
OBVIOUS

(* 09_mq.c: every message sent is in the queue or has been received, and   *)
(* there are as many of them as were sent: none is there twice.            *)
InSeq(q, k) == \E i \in DOMAIN q : q[i] = k

QueueInv ==
  /\ sent \in 0 .. NMsg
  /\ queue \in Seq(MsgQueue!Messages)
  /\ received \in Seq(MsgQueue!Messages)
  /\ Len(queue) + Len(received) = sent
  /\ \A k \in 1 .. sent : InSeq(queue, k) \/ InSeq(received, k)
  /\ mq_child = "exited" => Len(received) = NMsg

(* The kernel's insertion adds just the new message. *)
LEMMA InsertAdds ==
  ASSUME NEW q \in Seq(MsgQueue!Messages), NEW k \in MsgQueue!Messages
  PROVE  /\ MsgQueue!Insert(q, k) \in Seq(MsgQueue!Messages)
         /\ Len(MsgQueue!Insert(q, k)) = Len(q) + 1
         /\ InSeq(MsgQueue!Insert(q, k), k)
         /\ \A x : InSeq(q, x) => InSeq(MsgQueue!Insert(q, k), x)
<1> DEFINE S == {0} \cup {i \in DOMAIN q : prio[q[i]] >= prio[k]}
           n == MsgQueue!Max(S)
           r == MsgQueue!InsertAfter(q, n, k)
<1>1. /\ DOMAIN q = 1 .. Len(q) /\ Len(q) \in Nat
      /\ S \in SUBSET Nat /\ 0 \in S
      /\ \A x \in S : x <= Len(q)
      /\ \A i \in DOMAIN q : q[i] \in MsgQueue!Messages
  OBVIOUS
<1>2. n \in S
  <2>1. \E m \in S : \A x \in S : m >= x
    <3>1. \E m \in S : \A x \in S : x <= m
      BY <1>1, GreatestMember
    <3> QED BY <1>1, <3>1
  <2> QED BY <2>1, Zenon DEF MsgQueue!Max
<1>3. MsgQueue!Insert(q, k) = r
  BY Zenon DEF MsgQueue!Insert
<1>4. n \in 0 .. Len(q)
  BY <1>1, <1>2
<1> HIDE DEF n
<1>5. r \in [1 .. Len(q) + 1 -> MsgQueue!Messages]
  BY <1>1, <1>4 DEF MsgQueue!InsertAfter
<1>6. r \in Seq(MsgQueue!Messages) /\ Len(r) = Len(q) + 1
  <2>1. Len(q) + 1 \in Nat
    BY <1>1
  <2>2. r \in Seq(MsgQueue!Messages)
    BY <1>5, <2>1, FunctionIsSeq, Zenon
  <2> HIDE DEF r
  <2> QED BY <1>5, <2>1, <2>2
<1>7. InSeq(r, k)
  <2>1. n + 1 \in 1 .. Len(q) + 1 /\ ~ (n + 1 <= n)
    BY <1>1, <1>4
  <2>2. n + 1 \in DOMAIN r /\ r[n + 1] = k
    BY <2>1 DEF MsgQueue!InsertAfter
  <2> QED BY <2>2 DEF InSeq
<1>8. ASSUME NEW x, InSeq(q, x) PROVE InSeq(r, x)
  <2>1. PICK i \in 1 .. Len(q) : q[i] = x
    BY <1>1, <1>8 DEF InSeq
  <2>2. CASE i <= n
    <3>1. i \in 1 .. Len(q) + 1 /\ i # n + 1 /\ ~ (i > n + 1)
      BY <1>1, <1>4, <2>1, <2>2
    <3>2. i \in DOMAIN r /\ r[i] = x
      BY <2>1, <2>2, <3>1 DEF MsgQueue!InsertAfter
    <3> QED BY <3>2 DEF InSeq
  <2>3. CASE i > n
    <3>1. /\ i + 1 \in 1 .. Len(q) + 1 /\ i + 1 - 1 = i
          /\ i + 1 > n + 1 /\ ~ (i + 1 <= n) /\ i + 1 # n + 1
      BY <1>1, <1>4, <2>1, <2>3
    <3>2. i + 1 \in DOMAIN r /\ r[i + 1] = x
      BY <2>1, <3>1 DEF MsgQueue!InsertAfter
    <3> QED BY <3>2 DEF InSeq
  <2> QED BY <1>4, <2>1, <2>2, <2>3
<1> QED BY <1>3, <1>6, <1>7, <1>8, Zenon

(* Every step keeps the invariant of the queue. *)
LEMMA QueueStep == QueueInv /\ [Next]_vars => QueueInv'
<1> SUFFICES ASSUME QueueInv, [Next]_vars PROVE QueueInv'
  OBVIOUS
<1>1. NMsg \in Nat /\ sent \in 0 .. NMsg
  BY IpcAssumption DEF MsgQueue!QueueAssumption, QueueInv
<1>2. CASE MsgQueue!Send
  <2>1. /\ sent < NMsg /\ mq_child' = mq_child /\ sent' = sent + 1
        /\ queue' = MsgQueue!Insert(queue, sent + 1)
        /\ received' = received
    BY <1>2 DEF MsgQueue!Send
  <2>2. sent + 1 \in MsgQueue!Messages
    BY <1>1, <2>1 DEF MsgQueue!Messages
  <2>3. /\ queue' \in Seq(MsgQueue!Messages)
        /\ Len(queue') = Len(queue) + 1
        /\ InSeq(queue', sent + 1)
        /\ \A x : InSeq(queue, x) => InSeq(queue', x)
    BY <2>1, <2>2, InsertAdds DEF QueueInv
  <2>4. ASSUME NEW k \in 1 .. sent' PROVE InSeq(queue', k) \/ InSeq(received', k)
    <3>1. k \in 1 .. sent \/ k = sent + 1
      BY <1>1, <2>1
    <3> QED BY <2>1, <2>3, <3>1 DEF QueueInv
  <2>5. sent' \in 0 .. NMsg /\ Len(queue') + Len(received') = sent'
    BY <1>1, <2>1, <2>3 DEF QueueInv
  <2> QED BY <2>1, <2>3, <2>4, <2>5 DEF QueueInv
<1>3. CASE MsgQueue!Receive
  <2> DEFINE h == Head(queue)
             n == Len(received)
  <2>1. /\ queue \in Seq(MsgQueue!Messages) /\ queue # <<>>
        /\ received \in Seq(MsgQueue!Messages)
        /\ received' = Append(received, h)
        /\ queue' = Tail(queue)
        /\ sent' = sent /\ mq_child' = mq_child /\ mq_child = "receive"
    BY <1>3 DEF MsgQueue!Receive, QueueInv
  <2>2. /\ queue' \in Seq(MsgQueue!Messages) /\ Len(queue') = Len(queue) - 1
        /\ h = queue[1] /\ h \in MsgQueue!Messages
        /\ \A i \in 1 .. Len(queue') : queue'[i] = queue[i + 1]
    <3>1. /\ h \in MsgQueue!Messages /\ Tail(queue) \in Seq(MsgQueue!Messages)
          /\ Len(Tail(queue)) = Len(queue) - 1
          /\ \A i \in 1 .. Len(Tail(queue)) : Tail(queue)[i] = queue[i + 1]
      BY <2>1, HeadTailProperties, Zenon
    <3>2. h = queue[1]
      BY <2>1
    <3> QED BY <2>1, <3>1, <3>2
  <2>3. /\ received' \in Seq(MsgQueue!Messages)
        /\ n \in Nat /\ Len(received') = n + 1
        /\ DOMAIN received = 1 .. n /\ DOMAIN received' = 1 .. n + 1
        /\ \A a \in 1 .. n : received'[a] = received[a]
        /\ received'[n + 1] = h
    BY <2>1, <2>2
  <2> HIDE DEF h, n
  <2>4. ASSUME NEW k \in 1 .. sent' PROVE InSeq(queue', k) \/ InSeq(received', k)
    <3>1. CASE InSeq(received, k)
      <4>1. PICK a \in 1 .. n : received[a] = k
        BY <2>3, <3>1 DEF InSeq
      <4>2. a \in DOMAIN received' /\ received'[a] = k
        BY <2>3, <4>1
      <4> QED BY <4>2 DEF InSeq
    <3>2. CASE InSeq(queue, k)
      <4>1. PICK i \in 1 .. Len(queue) : queue[i] = k
        BY <2>1, <3>2 DEF InSeq
      <4>2. CASE i = 1
        <5>1. n + 1 \in DOMAIN received' /\ received'[n + 1] = k
          BY <2>2, <2>3, <4>1, <4>2
        <5> QED BY <5>1 DEF InSeq
      <4>3. CASE i # 1
        <5>1. i - 1 \in 1 .. Len(queue') /\ i - 1 + 1 = i
          BY <2>1, <2>2, <4>1, <4>3
        <5>2. i - 1 \in DOMAIN queue' /\ queue'[i - 1] = k
          BY <2>2, <4>1, <5>1
        <5> QED BY <5>2 DEF InSeq
      <4> QED BY <4>2, <4>3
    <3> QED BY <2>1, <3>1, <3>2 DEF QueueInv
  <2>5. Len(queue') + Len(received') = sent'
    <3>1. Len(queue) \in Nat /\ Len(queue) + n = sent
      BY <2>1 DEF QueueInv, n
    <3> QED BY <1>1, <2>1, <2>2, <2>3, <3>1
  <2> QED BY <2>1, <2>2, <2>3, <2>4, <2>5 DEF QueueInv
<1>4. CASE MsgQueue!ChildExit
  BY <1>4 DEF MsgQueue!ChildExit, MsgQueue!Expected, QueueInv, InSeq
<1>5. CASE MsgQueue!Fork
  BY <1>5 DEF MsgQueue!Fork, QueueInv, InSeq
<1>6. CASE UNCHANGED <<queue, sent, received, mq_child>>
  BY <1>6 DEF QueueInv, InSeq
<1> QED
  BY <1>2, <1>3, <1>4, <1>5, <1>6, OneRuns
  DEF MsgQueue!Next, MsgQueue!Parent, MsgQueue!Child, MsgQueue!Open,
      MsgQueue!AllSent, MsgQueue!WaitAndUnlink, queueVars

(* It holds when the program starts. *)
LEMMA QueueInit == Init => QueueInv
<1> SUFFICES ASSUME Init PROVE QueueInv
  OBVIOUS
<1>1. NMsg \in Nat /\ sent = 0 /\ queue = <<>> /\ received = <<>> /\ mq_child = "none"
  BY IpcAssumption DEF MsgQueue!QueueAssumption, Init, MsgQueue!Init
<1> QED BY <1>1 DEF QueueInv

(* 09_mq.c: when the child has received as many messages as were to be     *)
(* sent, the queue is empty and each of them is among those received.      *)
LEMMA AllAreReceived == QueueInv => MsgQueue!AllReceived
<1> SUFFICES ASSUME QueueInv, mq_child = "exited"
             PROVE  /\ Len(received) = NMsg
                    /\ \A k \in MsgQueue!Messages : InSeq(received, k)
  BY DEF MsgQueue!AllReceived, InSeq
<1>1. /\ NMsg \in Nat /\ sent \in 0 .. NMsg /\ Len(queue) \in Nat
      /\ Len(received) = NMsg /\ Len(queue) + Len(received) = sent
      /\ DOMAIN queue = 1 .. Len(queue)
  BY IpcAssumption DEF MsgQueue!QueueAssumption, QueueInv
<1>2. sent = NMsg /\ Len(queue) = 0
  BY <1>1
<1>3. \A k : ~ InSeq(queue, k)
  BY <1>1, <1>2 DEF InSeq
<1> QED BY <1>1, <1>2, <1>3 DEF QueueInv, MsgQueue!Messages
-----------------------------------------------------------------------------
(* 09_mq.c: when parent and child come to their ends. *)
QueueExitInv ==
  /\ mq_child \in {"none", "receive", "exited"}
  /\ mq_parent \in {"open", "fork", "failed"} => mq_child = "none"
  /\ mq_parent \in {"exited", "failed"} => ~mq_exists
  /\ mq_parent = "exited" => mq_child \in {"none", "exited"}
  /\ mq_child = "exited" => Len(received) = NMsg

(* Every step keeps what is left of the queue at the end. *)
LEMMA QueueExitStep == QueueExitInv /\ [Next]_vars => QueueExitInv'
<1> SUFFICES ASSUME QueueExitInv, [Next]_vars PROVE QueueExitInv'
  OBVIOUS
<1> USE DEF QueueExitInv
<1>1. CASE MsgQueue!Parent
  BY <1>1 DEF MsgQueue!Parent, MsgQueue!Open, MsgQueue!Fork, MsgQueue!Send,
              MsgQueue!AllSent, MsgQueue!WaitAndUnlink, MsgQueue!ChildGone
<1>2. CASE MsgQueue!Child
  BY <1>2 DEF MsgQueue!Child, MsgQueue!Receive, MsgQueue!ChildExit, MsgQueue!Expected
<1>3. CASE UNCHANGED queueVars
  BY <1>3 DEF queueVars
<1> QED BY <1>1, <1>2, <1>3, OneRuns DEF MsgQueue!Next
-----------------------------------------------------------------------------
(* 01_pipe.c, 08_pipe_fork.c, 03_fifo.c: who has which end open follows    *)
(* from where parent and child are, and what was written is in the buffer  *)
(* or has come out.                                                        *)
PipeEnds ==
  /\ parent \in {"create", "fork", "close", "open", "opening", "write", "wait", "exited",
                 "failed", "sigpipe"}
  /\ child \in {"none", "close", "open", "opening", "read", "exit", "exited"}
  /\ unopened \subseteq {"parent", "child"}
  /\ readers \subseteq {"parent", "child"}
  /\ writers \subseteq {"parent", "child"}
  /\ "parent" \in readers <=> program # "fifo" /\ parent \in {"fork", "close"}
  /\ "parent" \in writers <=> \/ program # "fifo" /\ parent \in {"fork", "close"}
                              \/ parent = "write"
  /\ "child" \in readers <=> \/ child \in {"close", "read"}
                             \/ child = "exit" /\ "child" \notin unopened
  /\ "child" \in writers <=> child = "close"

PipeOrder ==
  /\ parent \in {"create", "fork", "failed", "sigpipe"} => child = "none"
  /\ parent \in {"open", "opening"} =>
       child \in {"none", "open", "opening"} \/ "child" \in unopened
  /\ child \in {"open", "opening"} =>
       parent \in {"open", "opening"} \/ "parent" \in unopened
  /\ program = "fifo" => parent # "close" /\ child # "close"
  /\ program # "fifo" => /\ unopened = {}
                         /\ parent \notin {"open", "opening"}
                         /\ child \notin {"open", "opening"}
  /\ "child" \in unopened => /\ child \in {"exit", "exited"}
                             /\ parent \in {"open", "opening", "wait", "exited"}
  /\ "parent" \in unopened => parent \in {"wait", "exited"} /\ child # "read"
  /\ program = "fifo" /\ child \in {"none", "open", "opening", "read"} => out = <<>>
  /\ parent \in {"wait", "exited"} => written = Pipes!Records \/ "parent" \in unopened
  /\ parent = "exited" => child \in {"none", "exited"} /\ ~named
  /\ child \in {"exit", "exited"} => Len(out) = Pipes!Records \/ "child" \in unopened

Stream(o, b, w) == /\ o \in Seq(Nat)
                   /\ b \in Seq(Nat)
                   /\ Len(o) + Len(b) = w
                   /\ \A k \in 1 .. Len(o) : o[k] = k
                   /\ \A k \in 1 .. Len(b) : b[k] = Len(o) + k

PipeStream == /\ written \in 0 .. Pipes!Records
              /\ Stream(out, buffer, written)

PipeInv == PipeEnds /\ PipeOrder /\ PipeStream

(* The number of records is the program's and does not change. *)
LEMMA PipeRecords == [Next]_vars => Pipes!Records' = Pipes!Records /\ Pipes!Records \in Nat
BY SameProgram, IpcAssumption DEF Pipes!Records, Pipes!SizesAssumption

(* Each record written goes to the end of the buffer. *)
LEMMA StreamWrite ==
  ASSUME NEW o, NEW b, NEW w \in Nat, Stream(o, b, w)
  PROVE  Stream(o, Append(b, w + 1), w + 1)
<1> DEFINE c == Append(b, w + 1)
<1>1. /\ c \in Seq(Nat)
      /\ Len(c) = Len(b) + 1
      /\ \A k \in 1 .. Len(b) : c[k] = b[k]
      /\ c[Len(b) + 1] = w + 1
  BY DEF Stream
<1>2. Len(b) \in Nat /\ Len(o) \in Nat
  BY DEF Stream
<1> HIDE DEF c
<1>3. ASSUME NEW k \in 1 .. Len(c) PROVE c[k] = Len(o) + k
  <2>1. CASE k = Len(b) + 1
    BY <1>1, <1>2, <2>1 DEF Stream
  <2>2. CASE k \in 1 .. Len(b)
    BY <1>1, <2>2 DEF Stream
  <2> QED BY <1>1, <1>2, <2>1, <2>2
<1>4. Len(o) + Len(c) = w + 1
  BY <1>1, <1>2 DEF Stream
<1>5. Stream(o, c, w + 1)
  BY <1>1, <1>3, <1>4 DEF Stream
<1> QED BY <1>5 DEF c

(* read() takes the first records of the buffer. *)
LEMMA StreamRead ==
  ASSUME NEW o, NEW b, NEW w \in Nat, Stream(o, b, w), NEW n \in 0 .. Len(b)
  PROVE  /\ Stream(o \o SubSeq(b, 1, n), SubSeq(b, n + 1, Len(b)), w)
         /\ Len(o \o SubSeq(b, 1, n)) = Len(o) + n
<1>1. Len(b) \in Nat /\ Len(o) \in Nat /\ n \in Nat /\ n <= Len(b)
  BY DEF Stream
<1> DEFINE u == SubSeq(b, 1, n)
           v == SubSeq(b, n + 1, Len(b))
           t == o \o u
<1>2. u \in Seq(Nat) /\ Len(u) = n /\ \A k \in 1 .. n : u[k] = b[k]
  BY DEF Stream
<1>3. v \in Seq(Nat) /\ Len(v) = Len(b) - n /\ \A k \in 1 .. Len(b) - n : v[k] = b[n + k]
  BY <1>1 DEF Stream
<1> HIDE DEF u, v
<1>4. /\ t \in Seq(Nat)
      /\ Len(t) = Len(o) + Len(u)
      /\ \A k \in 1 .. Len(o) + Len(u) :
           t[k] = IF k <= Len(o) THEN o[k] ELSE u[k - Len(o)]
  BY <1>2, ConcatProperties DEF Stream
<1> HIDE DEF t
<1>5. ASSUME NEW k \in 1 .. Len(t) PROVE t[k] = k
  <2>1. CASE k <= Len(o)
    <3>1. k \in 1 .. Len(o) /\ t[k] = o[k]
      BY <1>1, <1>2, <1>4, <2>1
    <3> QED BY <3>1 DEF Stream
  <2>2. CASE k > Len(o)
    <3>1. k - Len(o) \in 1 .. n /\ t[k] = u[k - Len(o)]
      BY <1>1, <1>2, <1>4, <2>2
    <3>2. k - Len(o) \in 1 .. Len(b) /\ u[k - Len(o)] = b[k - Len(o)]
      BY <1>1, <1>2, <3>1
    <3>3. b[k - Len(o)] = Len(o) + (k - Len(o))
      BY <3>2 DEF Stream
    <3> QED BY <1>1, <1>2, <1>4, <3>1, <3>2, <3>3
  <2> QED BY <1>1, <1>2, <1>4, <2>1, <2>2
<1>6. ASSUME NEW k \in 1 .. Len(v) PROVE v[k] = Len(t) + k
  <2>1. n + k \in 1 .. Len(b) /\ v[k] = b[n + k]
    BY <1>1, <1>3
  <2>2. b[n + k] = Len(o) + (n + k)
    BY <2>1 DEF Stream
  <2> QED BY <1>1, <1>2, <1>3, <1>4, <2>1, <2>2
<1>7. Len(t) + Len(v) = w
  <2>1. Len(o) + Len(b) = w
    BY DEF Stream
  <2>2. Len(t) = Len(o) + n /\ Len(v) = Len(b) - n
    BY <1>2, <1>3, <1>4
  <2> QED BY <1>1, <2>1, <2>2
<1>8. Stream(t, v, w) /\ Len(t) = Len(o) + n
  BY <1>2, <1>3, <1>4, <1>5, <1>6, <1>7 DEF Stream
<1> QED BY <1>8 DEF t, u, v

(* What the stream is, as the concatenation of its two parts. *)
LEMMA StreamIsIntact ==
  ASSUME NEW o, NEW b, NEW w \in Nat, Stream(o, b, w)
  PROVE  o \o b = [k \in 1 .. w |-> k]
<1> DEFINE s == o \o b
<1>1. Len(b) \in Nat /\ Len(o) \in Nat /\ Len(o) + Len(b) = w
  BY DEF Stream
<1>2. /\ s \in Seq(Nat)
      /\ Len(s) = Len(o) + Len(b)
      /\ \A k \in 1 .. Len(o) + Len(b) :
           s[k] = IF k <= Len(o) THEN o[k] ELSE b[k - Len(o)]
  BY ConcatProperties DEF Stream
<1> HIDE DEF s
<1>3. s = [k \in 1 .. w |-> s[k]]
  BY <1>1, <1>2
<1>4. ASSUME NEW k \in 1 .. w PROVE s[k] = k
  <2>1. CASE k <= Len(o)
    BY <1>1, <1>2, <2>1 DEF Stream
  <2>2. CASE k > Len(o)
    <3>1. k - Len(o) \in 1 .. Len(b) /\ s[k] = b[k - Len(o)]
      BY <1>1, <1>2, <2>2
    <3>2. b[k - Len(o)] = Len(o) + (k - Len(o))
      BY <3>1 DEF Stream
    <3> QED BY <1>1, <3>1, <3>2
  <2> QED BY <1>1, <2>1, <2>2
<1>5. s = [k \in 1 .. w |-> k]
  BY <1>3, <1>4
<1> QED BY <1>5 DEF s

(* Every step keeps the invariant of the pipes. *)
LEMMA PipeStep == PipeInv /\ [Next]_vars => PipeInv'
<1> SUFFICES ASSUME PipeInv, [Next]_vars PROVE PipeInv'
  OBVIOUS
<1> USE DEF Pipes!ends, Pipes!stream
<1>1. Pipes!Records' = Pipes!Records /\ Pipes!Records \in Nat /\ program' = program
      /\ (program = "fifo" => Pipes!Records = 1)
  BY PipeRecords, SameProgram DEF Pipes!Records
<1>2. written \in Nat /\ written \in 0 .. Pipes!Records
      /\ Len(out) \in Nat /\ Len(buffer) \in Nat /\ Len(out) + Len(buffer) = written
  BY <1>1 DEF PipeInv, PipeStream, Stream
<1>3. ASSUME UNCHANGED <<written, out, buffer>> PROVE PipeStream'
  BY <1>1, <1>3 DEF PipeInv, PipeStream, Stream
<1>4. CASE Pipes!Pipe \/ Pipes!Mkfifo
  BY <1>1, <1>3, <1>4 DEF Pipes!Pipe, Pipes!Mkfifo, PipeInv, PipeEnds, PipeOrder
<1>5. CASE Pipes!ForkPipe \/ Pipes!ForkFifo
  BY <1>1, <1>3, <1>5 DEF Pipes!ForkPipe, Pipes!ForkFifo, PipeInv, PipeEnds, PipeOrder
<1>6. CASE Pipes!ForkFails /\ program \in Pipes!Programs
  BY <1>1, <1>3, <1>6 DEF Pipes!ForkFails, Pipes!Programs, PipeInv, PipeEnds, PipeOrder
<1>7. CASE Pipes!CloseReadEnd \/ Pipes!ChildClose
  BY <1>1, <1>3, <1>7 DEF Pipes!CloseReadEnd, Pipes!ChildClose, Pipes!AfterChildClose,
                          PipeInv, PipeEnds, PipeOrder
<1>8. CASE Pipes!OpenFifo \/ Pipes!ParentOpen \/ Pipes!ChildOpen
  BY <1>1, <1>3, <1>8 DEF Pipes!OpenFifo, Pipes!ParentOpen, Pipes!ChildOpen, PipeInv,
                          PipeEnds, PipeOrder
<1>9. CASE Pipes!Write
  <2>1. CASE readers # {}
    <3>1. PipeStream'
      <4>1. Stream(out, Append(buffer, written + 1), written + 1)
        BY <1>2, StreamWrite DEF PipeInv, PipeStream
      <4>2. /\ written' = written + 1 /\ written < Pipes!Records
            /\ buffer' = Append(buffer, written + 1) /\ out' = out
        BY <1>9, <2>1 DEF Pipes!Write
      <4>3. written' \in 0 .. Pipes!Records'
        BY <1>1, <1>2, <4>2
      <4> QED BY <4>1, <4>2, <4>3, Zenon DEF PipeStream
    <3>2. PipeEnds' /\ PipeOrder'
      BY <1>1, <1>2, <1>9, <2>1 DEF Pipes!Write, PipeInv, PipeEnds, PipeOrder
    <3> QED BY <3>1, <3>2 DEF PipeInv
  <2>2. CASE readers = {}
    <3>1. child = "none"
      BY <1>1, <1>2, <1>9, <2>2 DEF Pipes!Write, PipeInv, PipeEnds, PipeOrder
    <3> QED BY <1>1, <1>3, <1>9, <2>2, <3>1 DEF Pipes!Write, PipeInv, PipeEnds, PipeOrder
  <2> QED BY <2>1, <2>2
<1>10. CASE Pipes!CloseWriteEnd \/ Pipes!Wait
  BY <1>1, <1>3, <1>10 DEF Pipes!CloseWriteEnd, Pipes!Wait, Pipes!ChildGone,
                           PipeInv, PipeEnds, PipeOrder
<1>11. CASE Pipes!Read
  <2> DEFINE n == IF Len(buffer) < BufRecs THEN Len(buffer) ELSE BufRecs
  <2>1. Len(buffer) # 0
    BY <1>11 DEF Pipes!Read, PipeInv, PipeStream, Stream
  <2>2. n \in 0 .. Len(buffer) /\ n > 0
    BY <1>2, <2>1, IpcAssumption DEF Pipes!SizesAssumption
  <2>3. /\ out' = out \o SubSeq(buffer, 1, n)
        /\ buffer' = SubSeq(buffer, n + 1, Len(buffer))
        /\ written' = written
    BY <1>11 DEF Pipes!Read, Pipes!Rest
  <2> HIDE DEF n
  <2>4. Stream(out', buffer', written') /\ Len(out') = Len(out) + n
    BY <1>2, <2>2, <2>3, StreamRead DEF PipeInv, PipeStream
  <2>5. PipeStream'
    BY <1>1, <1>2, <2>3, <2>4 DEF PipeStream
  <2>6. program = "fifo" => Len(out') = 1
    <3>1. program = "fifo" => out = <<>>
      BY <1>11 DEF Pipes!Read, PipeInv, PipeOrder
    <3>2. program = "fifo" => Len(out) = 0
      BY <3>1
    <3> QED BY <1>1, <1>2, <2>2, <2>4, <3>2
  <2>7. PipeEnds' /\ PipeOrder'
    BY <1>1, <1>11, <2>6 DEF Pipes!Read, PipeInv, PipeEnds, PipeOrder
  <2> QED BY <2>5, <2>7 DEF PipeInv
<1>12. CASE Pipes!ReadEof
  <2>1. Len(out) = Pipes!Records
    BY <1>1, <1>2, <1>12 DEF Pipes!ReadEof, Pipes!Eof, PipeInv, PipeEnds, PipeOrder
  <2> QED BY <1>1, <1>3, <1>12, <2>1 DEF Pipes!ReadEof, PipeInv, PipeEnds, PipeOrder
<1>13. CASE Pipes!ChildExit
  BY <1>1, <1>3, <1>13 DEF Pipes!ChildExit, PipeInv, PipeEnds, PipeOrder
<1>14. CASE UNCHANGED pipeVars
  BY <1>1, <1>3, <1>14 DEF pipeVars, PipeInv, PipeEnds, PipeOrder
<1> QED
  BY <1>4, <1>5, <1>6, <1>7, <1>8, <1>9, <1>10, <1>11, <1>12, <1>13, <1>14, OneRuns
  DEF Pipes!Next, Pipes!Parent, Pipes!Child

(* It holds when the program starts. *)
LEMMA PipeInit == Init => PipeInv
<1>1. Pipes!Records \in Nat
  BY IpcAssumption DEF Pipes!Records, Pipes!SizesAssumption
<1> QED BY <1>1 DEF Init, Pipes!Init, PipeInv, PipeEnds, PipeOrder, PipeStream, Stream
-----------------------------------------------------------------------------
(* 02_socketpair.c, 10_scm_rights.c: o says whether socketpair() gave two  *)
(* sockets.  Who has which end open follows from where parent and child    *)
(* are.                                                                    *)
SocketEnds(o) ==
  /\ ends \in [{0, 1} -> SUBSET {"parent", "child"}]
  /\ "parent" \in ends[0] <=>
       o /\ so_parent \in {"fork", "close", "open", "send", "read", "closeall"}
  /\ "child" \in ends[0] <=> o /\ so_child = "close"
  /\ "parent" \in ends[1] <=> o /\ so_parent \in {"fork", "close"}
  /\ "child" \in ends[1] <=>
       o /\ so_child \in {"close", "receive", "answer", "copy", "exit"}

(* The child gets past its read only when the parent has sent, or has      *)
(* given up.                                                               *)
SocketOrder(o) ==
  /\ so_parent \in {"create", "fork", "close", "open", "send", "read", "closeall",
                    "wait", "exited", "failed", "sigpipe"}
  /\ so_child \in {"none", "close", "receive", "answer", "copy", "exit", "exited"}
  /\ inbox \in [{0, 1} -> {<<>>, <<"message">>}]
  /\ got \in [{"parent", "child"} ->
                {"nothing", "message", "eof", "error", "fd", "content"}]
  /\ so_parent \in {"create", "fork", "sigpipe"} => so_child = "none"
  /\ so_parent = "exited" => so_child \in {"none", "exited"}
  /\ o /\ so_parent \in {"fork", "close", "open", "send"} =>
       so_child \in {"none", "close", "receive"} /\ inbox[1] = <<>>
  /\ o /\ so_parent \in {"read", "closeall", "wait", "exited"}
       /\ so_child \in {"close", "receive"} => inbox[1] # <<>>
  /\ inbox[1] # <<>> => o /\ so_child \in {"close", "receive"}

(* 02_socketpair.c: ping, then pong. *)
PingPong(o) ==
  program = "socketpair" =>
    /\ so_parent \notin {"create", "failed"} => o
    /\ so_parent # "open" /\ so_child # "copy"
    /\ so_parent = "failed" => so_child = "none"
    /\ file = {}
    /\ so_parent \in {"read", "closeall", "wait", "exited"} => so_child # "none"
    /\ so_parent \in {"closeall", "wait", "exited"} =>
         so_child \in {"exit", "exited"} /\ got["parent"] = "message"
    /\ so_child \in {"answer", "exit", "exited"} => got["child"] = "message"
    /\ so_parent = "read" => (so_child \in {"exit", "exited"} <=> inbox[0] # <<>>)
    /\ so_parent # "read" => inbox[0] = <<>>

(* 10_scm_rights.c: somebody refers to the file until the child has read   *)
(* it.                                                                     *)
FilePassed(o) ==
  /\ file \subseteq {"parent", "flight", "child"}
  /\ program = "scm_rights" =>
       /\ so_parent # "read" /\ so_child # "answer"
       /\ "parent" \in file <=> so_parent \in {"send", "closeall"}
       /\ "flight" \in file <=> inbox[1] # <<>>
       /\ "child" \in file <=> so_child = "copy" /\ got["child"] = "fd"
       /\ so_child = "copy" => got["child"] \in {"fd", "error", "eof"}
       /\ so_child \in {"exit", "exited"} => got["child"] \in {"content", "error", "eof"}
       /\ got["child"] = "fd" => o
       /\ got["child"] = "eof" => so_parent = "failed"

SocketInv(o) == SocketEnds(o) /\ SocketOrder(o) /\ PingPong(o) /\ FilePassed(o)
SocketsInv == SocketInv(TRUE) \/ SocketInv(FALSE)

(* The steps of the socket programs keep their invariant. *)
LEMMA SocketStep ==
  ASSUME NEW o \in BOOLEAN, SocketInv(o), [Next]_vars,
         Sockets!Next, program \in Sockets!Programs
  PROVE  SocketInv(o)' \/ SocketInv(TRUE)' \/ SocketInv(FALSE)'
<1> USE SameProgram DEF SocketInv, SocketEnds, SocketOrder, PingPong, FilePassed, Sockets!Programs
<1>0. Head(<<"message">>) = "message" /\ Tail(<<"message">>) = <<>> /\ <<"message">> # <<>>
      /\ Append(<<>>, "message") = <<"message">>
  OBVIOUS
<1>1. CASE Sockets!Socketpair
  <2>1. CASE ends' = [e \in {0, 1} |-> {"parent"}]
    <3>1. SocketInv(TRUE)'
      BY <1>1, <2>1 DEF Sockets!Socketpair
    <3> HIDE DEF SocketInv
    <3> QED BY <3>1
  <2>2. CASE UNCHANGED ends
    <3>1. SocketInv(FALSE)'
      BY <1>1, <2>2 DEF Sockets!Socketpair
    <3> HIDE DEF SocketInv
    <3> QED BY <3>1
  <2>3. ends' = [e \in {0, 1} |-> {"parent"}] \/ UNCHANGED ends
    BY <1>1 DEF Sockets!Socketpair
  <2> HIDE DEF SocketInv
  <2> QED BY <2>1, <2>2, <2>3
<1>2. ASSUME Sockets!Fork PROVE SocketInv(o)'
  <2>1. SocketEnds(o)'
    BY <1>0, <1>2 DEF Sockets!Fork
  <2>2. SocketOrder(o)'
    BY <1>0, <1>2 DEF Sockets!Fork
  <2>3. PingPong(o)'
    BY <1>0, <1>2 DEF Sockets!Fork
  <2>4. FilePassed(o)'
    BY <1>0, <1>2 DEF Sockets!Fork
  <2> HIDE DEF SocketEnds, SocketOrder, PingPong, FilePassed
  <2> QED BY <2>1, <2>2, <2>3, <2>4
<1>3. ASSUME Sockets!ParentClose PROVE SocketInv(o)'
  <2>1. SocketEnds(o)'
    BY <1>0, <1>3 DEF Sockets!ParentClose
  <2>2. SocketOrder(o)'
    BY <1>0, <1>3 DEF Sockets!ParentClose
  <2>3. PingPong(o)'
    BY <1>0, <1>3 DEF Sockets!ParentClose
  <2>4. FilePassed(o)'
    BY <1>0, <1>3 DEF Sockets!ParentClose
  <2> HIDE DEF SocketEnds, SocketOrder, PingPong, FilePassed
  <2> QED BY <2>1, <2>2, <2>3, <2>4
<1>4. ASSUME Sockets!OpenFile PROVE SocketInv(o)'
  <2>1. SocketEnds(o)'
    BY <1>0, <1>4 DEF Sockets!OpenFile
  <2>2. SocketOrder(o)'
    BY <1>0, <1>4 DEF Sockets!OpenFile
  <2>3. PingPong(o)'
    BY <1>0, <1>4 DEF Sockets!OpenFile
  <2>4. FilePassed(o)'
    BY <1>0, <1>4 DEF Sockets!OpenFile
  <2> HIDE DEF SocketEnds, SocketOrder, PingPong, FilePassed
  <2> QED BY <2>1, <2>2, <2>3, <2>4
<1>5. ASSUME Sockets!ParentSend PROVE SocketInv(o)'
  <2>0. inbox' \in {inbox, [inbox EXCEPT ![1] = <<"message">>]}
        /\ (inbox' # inbox => o /\ so_child # "none")
    <3>1. CASE ends[1] # {}
      <4>1. "child" \in ends[1]
        BY <1>5, <3>1 DEF Sockets!ParentSend
      <4>2. o /\ so_child # "none"
        BY <4>1
      <4>3. inbox[1] = <<>>
        BY <1>5, <4>2 DEF Sockets!ParentSend
      <4>4. inbox' = [inbox EXCEPT ![1] = <<"message">>] \/ inbox' = inbox
        BY <1>0, <1>5, <4>3 DEF Sockets!ParentSend
      <4> QED BY <4>2, <4>4
    <3>2. CASE ends[1] = {}
      BY <1>5, <3>2 DEF Sockets!ParentSend
    <3> QED BY <3>1, <3>2
  <2>1. SocketEnds(o)'
    BY <1>0, <1>5, <2>0 DEF Sockets!ParentSend, Sockets!FileAfterSend
  <2>2. SocketOrder(o)'
    BY <1>0, <1>5, <2>0 DEF Sockets!ParentSend, Sockets!FileAfterSend
  <2>3. PingPong(o)'
    BY <1>0, <1>5, <2>0 DEF Sockets!ParentSend, Sockets!FileAfterSend
  <2>4. FilePassed(o)'
    BY <1>0, <1>5, <2>0 DEF Sockets!ParentSend, Sockets!FileAfterSend
  <2> HIDE DEF SocketEnds, SocketOrder, PingPong, FilePassed
  <2> QED BY <2>1, <2>2, <2>3, <2>4
<1>6. ASSUME Sockets!ParentRead PROVE SocketInv(o)'
  <2>1. CASE inbox[0] # <<>>
    <3>0. inbox[0] = <<"message">> /\ inbox' = [inbox EXCEPT ![0] = <<>>]
      BY <1>0, <1>6, <2>1 DEF Sockets!ParentRead
    <3>1. SocketEnds(o)'
      BY <1>0, <1>6, <2>1, <3>0 DEF Sockets!ParentRead
    <3>2. SocketOrder(o)'
      BY <1>0, <1>6, <2>1, <3>0 DEF Sockets!ParentRead
    <3>3. PingPong(o)'
      BY <1>0, <1>6, <2>1, <3>0 DEF Sockets!ParentRead
    <3>4. FilePassed(o)'
      BY <1>0, <1>6, <2>1, <3>0 DEF Sockets!ParentRead
    <3> HIDE DEF SocketEnds, SocketOrder, PingPong, FilePassed
    <3> QED BY <3>1, <3>2, <3>3, <3>4
  <2>2. CASE inbox[0] = <<>>
    <3>1. SocketEnds(o)'
      BY <1>0, <1>6, <2>2 DEF Sockets!ParentRead
    <3>2. SocketOrder(o)'
      BY <1>0, <1>6, <2>2 DEF Sockets!ParentRead
    <3>3. PingPong(o)'
      BY <1>0, <1>6, <2>2 DEF Sockets!ParentRead
    <3>4. FilePassed(o)'
      BY <1>0, <1>6, <2>2 DEF Sockets!ParentRead
    <3> HIDE DEF SocketEnds, SocketOrder, PingPong, FilePassed
    <3> QED BY <3>1, <3>2, <3>3, <3>4
  <2> HIDE DEF SocketInv
  <2> QED BY <2>1, <2>2
<1>7. ASSUME Sockets!CloseAll PROVE SocketInv(o)'
  <2>1. SocketEnds(o)'
    BY <1>0, <1>7 DEF Sockets!CloseAll
  <2>2. SocketOrder(o)'
    BY <1>0, <1>7 DEF Sockets!CloseAll
  <2>3. PingPong(o)'
    BY <1>0, <1>7 DEF Sockets!CloseAll
  <2>4. FilePassed(o)'
    BY <1>0, <1>7 DEF Sockets!CloseAll
  <2> HIDE DEF SocketEnds, SocketOrder, PingPong, FilePassed
  <2> QED BY <2>1, <2>2, <2>3, <2>4
<1>8. ASSUME Sockets!Wait PROVE SocketInv(o)'
  <2>1. SocketEnds(o)'
    BY <1>0, <1>8 DEF Sockets!Wait, Sockets!ChildGone
  <2>2. SocketOrder(o)'
    BY <1>0, <1>8 DEF Sockets!Wait, Sockets!ChildGone
  <2>3. PingPong(o)'
    BY <1>0, <1>8 DEF Sockets!Wait, Sockets!ChildGone
  <2>4. FilePassed(o)'
    BY <1>0, <1>8 DEF Sockets!Wait, Sockets!ChildGone
  <2> HIDE DEF SocketEnds, SocketOrder, PingPong, FilePassed
  <2> QED BY <2>1, <2>2, <2>3, <2>4
<1>9. ASSUME Sockets!ChildClose PROVE SocketInv(o)'
  <2>1. SocketEnds(o)'
    BY <1>0, <1>9 DEF Sockets!ChildClose, Sockets!AfterChildClose
  <2>2. SocketOrder(o)'
    BY <1>0, <1>9 DEF Sockets!ChildClose, Sockets!AfterChildClose
  <2>3. PingPong(o)'
    BY <1>0, <1>9 DEF Sockets!ChildClose, Sockets!AfterChildClose
  <2>4. FilePassed(o)'
    BY <1>0, <1>9 DEF Sockets!ChildClose, Sockets!AfterChildClose
  <2> HIDE DEF SocketEnds, SocketOrder, PingPong, FilePassed
  <2> QED BY <2>1, <2>2, <2>3, <2>4
<1>10. ASSUME Sockets!ChildReceive PROVE SocketInv(o)'
  <2>1. CASE inbox[1] # <<>>
    <3>0. inbox[1] = <<"message">> /\ inbox' = [inbox EXCEPT ![1] = <<>>]
      BY <1>0, <1>10, <2>1 DEF Sockets!ChildReceive
    <3>1. SocketEnds(o)'
      BY <1>0, <1>10, <2>1, <3>0 DEF Sockets!ChildReceive
    <3>2. SocketOrder(o)'
      BY <1>0, <1>10, <2>1, <3>0 DEF Sockets!ChildReceive
    <3>3. PingPong(o)'
      BY <1>0, <1>10, <2>1, <3>0 DEF Sockets!ChildReceive
    <3>4. FilePassed(o)'
      BY <1>0, <1>10, <2>1, <3>0 DEF Sockets!ChildReceive
    <3> HIDE DEF SocketEnds, SocketOrder, PingPong, FilePassed
    <3> QED BY <3>1, <3>2, <3>3, <3>4
  <2>2. CASE inbox[1] = <<>>
    <3>1. SocketEnds(o)'
      BY <1>0, <1>10, <2>2 DEF Sockets!ChildReceive
    <3>2. SocketOrder(o)'
      BY <1>0, <1>10, <2>2 DEF Sockets!ChildReceive
    <3>3. PingPong(o)'
      BY <1>0, <1>10, <2>2 DEF Sockets!ChildReceive
    <3>4. FilePassed(o)'
      BY <1>0, <1>10, <2>2 DEF Sockets!ChildReceive
    <3> HIDE DEF SocketEnds, SocketOrder, PingPong, FilePassed
    <3> QED BY <3>1, <3>2, <3>3, <3>4
  <2> HIDE DEF SocketInv
  <2> QED BY <2>1, <2>2
<1>11. ASSUME Sockets!ChildAnswer PROVE SocketInv(o)'
  <2>0. inbox[0] = <<>> /\ inbox' \in {inbox, [inbox EXCEPT ![0] = <<"message">>]}
    BY <1>0, <1>11 DEF Sockets!ChildAnswer
  <2>1. SocketEnds(o)'
    BY <1>0, <1>11, <2>0 DEF Sockets!ChildAnswer
  <2>2. SocketOrder(o)'
    BY <1>0, <1>11, <2>0 DEF Sockets!ChildAnswer
  <2>3. PingPong(o)'
    BY <1>0, <1>11, <2>0 DEF Sockets!ChildAnswer
  <2>4. FilePassed(o)'
    BY <1>0, <1>11, <2>0 DEF Sockets!ChildAnswer
  <2> HIDE DEF SocketEnds, SocketOrder, PingPong, FilePassed
  <2> QED BY <2>1, <2>2, <2>3, <2>4
<1>12. ASSUME Sockets!ChildCopy PROVE SocketInv(o)'
  <2>1. SocketEnds(o)'
    BY <1>0, <1>12 DEF Sockets!ChildCopy
  <2>2. SocketOrder(o)'
    BY <1>0, <1>12 DEF Sockets!ChildCopy
  <2>3. PingPong(o)'
    BY <1>0, <1>12 DEF Sockets!ChildCopy
  <2>4. FilePassed(o)'
    BY <1>0, <1>12 DEF Sockets!ChildCopy
  <2> HIDE DEF SocketEnds, SocketOrder, PingPong, FilePassed
  <2> QED BY <2>1, <2>2, <2>3, <2>4
<1>13. ASSUME Sockets!ChildExit PROVE SocketInv(o)'
  <2>1. SocketEnds(o)'
    BY <1>0, <1>13 DEF Sockets!ChildExit
  <2>2. SocketOrder(o)'
    BY <1>0, <1>13 DEF Sockets!ChildExit
  <2>3. PingPong(o)'
    BY <1>0, <1>13 DEF Sockets!ChildExit
  <2>4. FilePassed(o)'
    BY <1>0, <1>13 DEF Sockets!ChildExit
  <2> HIDE DEF SocketEnds, SocketOrder, PingPong, FilePassed
  <2> QED BY <2>1, <2>2, <2>3, <2>4
<1> HIDE DEF SocketInv
<1> QED
  BY <1>1, <1>2, <1>3, <1>4, <1>5, <1>6, <1>7, <1>8, <1>9, <1>10, <1>11, <1>12, <1>13
     DEF Sockets!Next, Sockets!Parent, Sockets!Child

(* So does every step. *)
LEMMA SocketsStep == SocketsInv /\ [Next]_vars => SocketsInv'
<1> SUFFICES ASSUME SocketsInv, [Next]_vars PROVE SocketsInv'
  OBVIOUS
<1>1. CASE Sockets!Next /\ program \in Sockets!Programs
  BY <1>1, SocketStep DEF SocketsInv
<1>2. CASE UNCHANGED socketVars
  <2>1. ASSUME NEW o \in BOOLEAN, SocketInv(o) PROVE SocketInv(o)'
    BY <1>2, <2>1, SameProgram
       DEF SocketInv, SocketEnds, SocketOrder, PingPong, FilePassed, socketVars
  <2> QED BY <2>1 DEF SocketsInv
<1> QED BY <1>1, <1>2, OneRuns

(* It holds when the program starts. *)
LEMMA SocketsInit == Init => SocketsInv
BY DEF Init, Sockets!Init, SocketsInv, SocketInv, SocketEnds, SocketOrder, PingPong, FilePassed

(* The invariant says what was received and what is left. *)
LEMMA SocketsCorrect == SocketsInv => Sockets!Received /\ Sockets!NothingLeft
<1>1. ASSUME NEW o \in BOOLEAN, SocketInv(o) PROVE Sockets!Received
  BY <1>1 DEF SocketInv, SocketOrder, PingPong, FilePassed, Sockets!Received
<1>2. ASSUME NEW o \in BOOLEAN, SocketInv(o) PROVE Sockets!NothingLeft
  BY <1>2 DEF SocketInv, SocketEnds, SocketOrder, PingPong, FilePassed, Sockets!NothingLeft,
              Sockets!ChildGone
<1> QED BY <1>1, <1>2 DEF SocketsInv
-----------------------------------------------------------------------------
(* What the runs check holds of pipes, FIFOs, shared memory and sockets    *)
(* for every number of records, words and size of buffer: the receiver     *)
(* gets what was sent, whole and in order, and takes nothing for the end   *)
(* before everything was sent.                                             *)
THEOREM SentIsReceivedCorrect == Spec => []SentIsReceived
<1>1. SharedInv => SharedMemory!MessageIsWhole
  BY DEF SharedInv, SharedMemory!MessageIsWhole
<1>2. PipeInv => Pipes!StreamIntact
  <2>1. Pipes!Records \in Nat
    BY IpcAssumption DEF Pipes!Records, Pipes!SizesAssumption
  <2> QED BY <2>1, StreamIsIntact DEF PipeInv, PipeStream, Pipes!StreamIntact
<1>3. PipeInv => Pipes!EofIsTheEnd
  BY DEF PipeInv, PipeOrder, Pipes!EofIsTheEnd
<1>4. QueueInv /\ SharedInv /\ PipeInv /\ SocketsInv => SentIsReceived
  BY <1>1, <1>2, <1>3, AllAreReceived, SocketsCorrect DEF SentIsReceived
<1> QED
  BY <1>4, QueueInit, QueueStep, SharedInit, SharedStep, PipeInit, PipeStep, SocketsInit,
     SocketsStep, PTL DEF Spec

(* No program that ends normally leaves a queue, a segment, a FIFO, a      *)
(* mapping, an open end or a child behind.                                 *)
THEOREM NothingLeftCorrect == Spec => []NothingLeft
<1>1. Init => QueueExitInv
  BY DEF Init, MsgQueue!Init, QueueExitInv
<1>2. QueueExitInv => MsgQueue!CleanExit
  BY DEF QueueExitInv, MsgQueue!CleanExit, MsgQueue!Done
<1>3. SharedInv => SharedMemory!NothingLeft
  BY DEF SharedInv, SharedMemory!NothingLeft
<1>4. PipeInv => Pipes!CleanExit
  BY DEF PipeInv, PipeEnds, PipeOrder, Pipes!CleanExit
<1>5. QueueExitInv /\ SharedInv /\ PipeInv /\ SocketsInv => NothingLeft
  BY <1>2, <1>3, <1>4, SocketsCorrect DEF NothingLeft
<1> QED
  BY <1>1, <1>5, QueueExitStep, SharedInit, SharedStep, PipeInit, PipeStep, SocketsInit,
     SocketsStep, PTL DEF Spec
=============================================================================
