------------------------------ MODULE UserFault -----------------------------
(***************************************************************************)
(* 13_advanced/03_userfaultfd.c: main() reads the pages of a region that   *)
(* is registered with a userfaultfd; each first read blocks until the      *)
(* fault thread has copied a page of 'U' there.                            *)
(***************************************************************************)
EXTENDS Naturals

CONSTANT NPages \* pages of the region (4 in the program)

NPagesAssumption == NPages \in Nat

Pages == 1 .. NPages

VARIABLES
  main,   \* where main() is
  server, \* where fault_thread() is
  off,    \* the page main() reads
  page,   \* page[k]: "missing" or what it is filled with
  fault,  \* the page of the message in the descriptor, 0 if there is none
  serving, \* the page of the message the thread has read, 0 if there is none
  seen    \* seen[k]: what main() got from page k

vars == <<main, server, off, page, fault, serving, seen>>

Running == main \notin {"exited", "failed"}

(* Mistakes for the mutation runs: the thread fills the page after the     *)
(* one that faulted, and reads only one message.                           *)
WrongPage == IF serving = NPages THEN 1 ELSE serving + 1
ServesOnce == "returned"
-----------------------------------------------------------------------------
Init == /\ main = "setup"
        /\ server = "none"
        /\ off = 1
        /\ page = [k \in Pages |-> "missing"]
        /\ fault = 0
        /\ serving = 0
        /\ seen = [k \in Pages |-> "nothing"]

(* The checked calls; pthread_create() is not. *)
Setup == /\ main = "setup"
         /\ \/ main' = "read" /\ server' \in {"poll", "none"}
            \/ main' = "failed" /\ UNCHANGED server
         /\ UNCHANGED <<off, page, fault, serving, seen>>

(* base[off]: a missing page makes a message, and main() waits. *)
Fault == /\ main = "read" /\ off <= NPages
         /\ page[off] = "missing"
         /\ main' = "blocked"
         /\ fault' = off
         /\ UNCHANGED <<server, off, page, serving, seen>>

Access == /\ main \in {"read", "blocked"} /\ off <= NPages
          /\ page[off] # "missing"
          /\ seen' = [seen EXCEPT ![off] = page[off]]
          /\ off' = off + 1
          /\ main' = "read"
          /\ UNCHANGED <<server, page, fault, serving>>

(* munmap(), close() and the end of the process. *)
Finish == /\ main = "read" /\ off > NPages
          /\ main' = "exited"
          /\ UNCHANGED <<server, off, page, fault, serving, seen>>

(* poll() and read().  EINTR is tried again. *)
ReadMessage == /\ server = "poll" /\ fault # 0
               /\ server' = "copy"
               /\ serving' = fault
               /\ fault' = 0
               /\ UNCHANGED <<main, off, page, seen>>

Destination == serving
AfterCopy == "poll"

(* ioctl(UFFDIO_COPY); if it fails, as poll() may too, the thread returns. *)
Copy == /\ server = "copy"
        /\ serving' = 0
        /\ \/ /\ page' = [page EXCEPT ![Destination] = "U"]
              /\ server' = AfterCopy
           \/ /\ server' = "broken"
              /\ UNCHANGED page
        /\ UNCHANGED <<main, off, fault, seen>>

Main == Setup \/ Fault \/ Access \/ Finish
Server == Running /\ (ReadMessage \/ Copy)

Next == Main \/ Server

(* Both threads are scheduled. *)
Spec == Init /\ [][Next]_vars /\ WF_vars(Main) /\ WF_vars(Server)
-----------------------------------------------------------------------------
(* While main() is blocked on a page somebody will fill it: its message    *)
(* waits, or the thread is serving it, unless the thread has given up or   *)
(* was never made.                                                         *)
FaultIsServed ==
  main = "blocked" /\ page[off] = "missing" =>
    off \in {fault, serving} \/ server \in {"none", "broken"}

(* main() never sees anything but 'U', and gets through all pages as long  *)
(* as the thread is there and its copying succeeds.                        *)
SeesOnlyU == \A k \in Pages : seen[k] \in {"nothing", "U"}
GetsThrough == (main = "read" /\ server = "poll" /\ [](server # "broken")) ~> main = "exited"
=============================================================================
