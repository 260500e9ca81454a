---------------------------- MODULE SharedMemory ----------------------------
(***************************************************************************)
(* Three programs in which a parent and the child it forks meet in shared  *)
(* memory: 10_ipc_memory/04_shm_open.c, 10_ipc_memory/05_sysv_shm.c and    *)
(* 05_mmap/03_shared_mmap.c.  The parent fills in a message and then sets  *)
(* a flag; the child polls the flag and then prints the message.           *)
(*                                                                         *)
(* The message is Words words, written and read one by one, in any order:  *)
(* neither strncpy() nor printf() is atomic.  The flag is accessed with    *)
(* sequentially consistent or release/acquire operations, so interleaving  *)
(* the steps is faithful.  03_shared_mmap.c has no message: the flag is    *)
(* its value.                                                              *)
(***************************************************************************)
EXTENDS Naturals

CONSTANT Words

WordsAssumption == Words \in Nat

Programs == {"shm_open", "sysv", "mmap"}

VARIABLES
  program,  \* which of the three runs
  parent,   \* where the parent is
  child,    \* where the child is
  exists,   \* whether the object has a name (POSIX) or an id (SysV)
  attached, \* the processes that have it mapped
  ready,    \* the flag
  msg,      \* msg[w]: word w of the message, "zero" until it is written
  seen      \* seen[w]: what the child read in word w, "unread" until it has

vars == <<program, parent, child, exists, attached, ready, msg, seen>>

WordsOf == IF program = "mmap" THEN {} ELSE 1 .. Words

(* Mistakes for the mutation runs: the flag is set before the message is   *)
(* complete, the child waits for a flag that is never set, and the parent  *)
(* does not remove the object.                                             *)
WrittenAlready == TRUE
IsOther == ready = 2
ObjectKept == exists
-----------------------------------------------------------------------------
(* Any earlier object of the name is unlinked first. *)
Init == /\ parent = "create"
        /\ child = "none"
        /\ exists = FALSE
        /\ attached = {}
        /\ ready = 0
        /\ msg = [w \in 1 .. Words |-> "zero"]
        /\ seen = [w \in 1 .. Words |-> "unread"]

(* shm_open(), which is not checked, and mmap(), which is not either: the  *)
(* parent then dies of SIGSEGV at `s->ready = 0`.                          *)
CreateShmOpen ==
  /\ program = "shm_open"
  /\ parent = "create"
  /\ \/ exists' = TRUE /\ attached' = {"parent"} /\ parent' = "fork"
     \/ exists' \in BOOLEAN /\ attached' = {} /\ parent' = "segv"
  /\ UNCHANGED <<program, child, ready, msg, seen>>

(* shmget() and shmat() are checked. *)
CreateSysv ==
  /\ program = "sysv"
  /\ parent = "create"
  /\ \/ exists' = TRUE /\ attached' = {"parent"} /\ parent' = "fork"
     \/ exists' \in BOOLEAN /\ attached' = {} /\ parent' = "failed"
  /\ UNCHANGED <<program, child, ready, msg, seen>>

(* Anonymous memory has no name. *)
CreateMmap ==
  /\ program = "mmap"
  /\ parent = "create"
  /\ \/ attached' = {"parent"} /\ parent' = "fork"
     \/ attached' = {} /\ parent' = "failed"
  /\ UNCHANGED <<program, child, exists, ready, msg, seen>>

(* The flag has been cleared.  A fork() that fails leaves the parent to go *)
(* on alone; waitpid(-1) then returns at once.                             *)
Fork == /\ parent = "fork"
        /\ parent' = "write"
        /\ \/ child' = "poll" /\ attached' = {"parent", "child"}
           \/ child' = "none" /\ attached' = attached
        /\ UNCHANGED <<program, exists, ready, msg, seen>>

(* strncpy() *)
WriteWord(w) == /\ parent = "write"
                /\ msg[w] = "zero"
                /\ msg' = [msg EXCEPT ![w] = "text"]
                /\ UNCHANGED <<program, parent, child, exists, attached, ready, seen>>

Written == \A w \in WordsOf : msg[w] = "text"

SetReady == /\ parent = "write"
            /\ Written
            /\ ready' = 1
            /\ parent' = "wait"
            /\ UNCHANGED <<program, child, exists, attached, msg, seen>>

ExistsAfterRemove == FALSE

(* waitpid(), then munmap() and shm_unlink(), or shmdt() and IPC_RMID, or  *)
(* munmap() alone.                                                         *)
WaitAndRemove == /\ parent = "wait"
                 /\ child \in {"none", "exited"}
                 /\ attached' = attached \ {"parent"}
                 /\ exists' = ExistsAfterRemove
                 /\ parent' = "exited"
                 /\ UNCHANGED <<program, child, ready, msg, seen>>

IsReady == ready # 0

(* A poll that finds the flag clear sleeps and polls again. *)
Poll == /\ child = "poll"
        /\ IsReady
        /\ child' = "read"
        /\ UNCHANGED <<program, parent, exists, attached, ready, msg, seen>>

(* printf() *)
ReadWord(w) == /\ child = "read"
               /\ seen[w] = "unread"
               /\ seen' = [seen EXCEPT ![w] = msg[w]]
               /\ UNCHANGED <<program, parent, child, exists, attached, ready, msg>>

(* shmdt(), or what _exit() does in its place. *)
ChildExit == /\ child = "read"
             /\ \A w \in WordsOf : seen[w] # "unread"
             /\ child' = "exited"
             /\ attached' = attached \ {"child"}
             /\ UNCHANGED <<program, parent, exists, ready, msg, seen>>

Parent == \/ CreateShmOpen \/ CreateSysv \/ CreateMmap
          \/ Fork \/ SetReady \/ WaitAndRemove
          \/ \E w \in WordsOf : WriteWord(w)
Child == Poll \/ ChildExit \/ \E w \in WordsOf : ReadWord(w)

Next == Parent \/ Child

(* Both processes are scheduled. *)
Spec == program \in Programs /\ Init /\ [][Next]_vars /\ WF_vars(Parent) /\ WF_vars(Child)
-----------------------------------------------------------------------------
(* The child prints the message the parent wrote, all of it: no word is    *)
(* read before it is written.                                              *)
MessageIsWhole == \A w \in 1 .. Words : seen[w] \in {"unread", "text"}

(* A parent that exits normally leaves neither a name, nor an id, nor a    *)
(* mapping behind, and no child that still uses the memory.                *)
NothingLeft == parent = "exited" => /\ ~exists
                                    /\ attached = {}
                                    /\ child \in {"none", "exited"}

(* Once forked, parent and child both come to their end. *)
BothExit == parent = "write" ~> (parent = "exited" /\ attached = {})
=============================================================================
