------------------------------ MODULE Threads -------------------------------
(***************************************************************************)
(* The programs whose main() creates threads and joins them:               *)
(* 01_pthread_create.c, 02_tls_compiler.c (a _Thread_local counter),       *)
(* 03_tls_pthread_key.c (a key with a destructor) and 04_pthread_join.c    *)
(* (one thread, which returns memory main() then frees) of                 *)
(* 09_threads_memory, 04_cacheline_falsesharing.c of 00_fundamentals (two  *)
(* threads, twice, each incrementing its own word of a heap block),        *)
(* 08_arenas_threads.c of 04_heap_malloc and 07_pthread_stack.c of         *)
(* 03_stack.                                                               *)
(*                                                                         *)
(* malloc() and fopen() are not checked: following NULL ends the process.  *)
(* Nor is pthread_create(): joining a thread that was never made is        *)
(* undefined, and the model stops there.                                   *)
(***************************************************************************)
EXTENDS Naturals, Sequences

CONSTANTS NThreads, \* threads, where there are more than two (3 and 8)
          Rounds,   \* Rounds[t]: the increments thread t does (10, 20, 30)
          Iters     \* rounds of every thread in the others (200 million, 5000)

AllIds == 1 .. IF NThreads > 4 THEN NThreads ELSE 4
NotYet == 999

ThreadsAssumption == /\ NThreads \in Nat
                     /\ Rounds \in [AllIds -> Nat] /\ Iters \in Nat

(* main()'s calls of pthread_create() and pthread_join(), in order: the    *)
(* threads from first to last are all created, then all joined.            *)
Calls(first, last) ==
  LET n == last - first + 1
  IN  [k \in 1 .. 2 * n |-> IF k <= n THEN <<"create", first + k - 1>>
                            ELSE <<"join", first + k - 1 - n>>]

(* Both calls of run() in 04_cacheline_falsesharing.c, main() of           *)
(* 07_pthread_stack.c and main() of 08_arenas_threads.c.                   *)
sharing == Calls(1, 2) \o Calls(3, 4)
stack == Calls(1, 1) \o Calls(2, 2)
arenas == Calls(1, NThreads)

Plan == [create |-> Calls(1, NThreads), tls |-> Calls(1, NThreads),
         key |-> Calls(1, NThreads), join |-> Calls(1, 1),
         sharing |-> sharing, stack |-> stack, arenas |-> arenas]

Programs == DOMAIN Plan

VARIABLES
  program,
  main,    \* where main() is
  call,    \* how many calls of its Plan it has done
  thread,  \* thread[t]: where thread t is
  counter, \* counter[c]: the counters, 0 being main's own
  loaded,  \* loaded[t]: what thread t has read of its counter
  done,    \* done[t]: rounds thread t has done
  key,     \* whether the key exists
  slot,    \* slot[t]: whether thread t has stored its block under the key
  block,   \* block[t]: "none", "raw", "filled" or "freed"; in sharing
           \* b is block[1] and g is block[3]
  printed  \* printed[t]: the value t printed, NotYet before

vars == <<program, main, call, thread, counter, loaded, done, key, slot, block, printed>>
heap == <<key, slot, block>>
counts == <<counter, loaded, done, printed>>

Running == main \notin {"returned", "undefined", "segv"}

(* Mistakes for the mutation runs: one counter for all threads, and a join *)
(* that does not wait.                                                     *)
OneCopy(t) == 0
NotJoined(t) == TRUE
-----------------------------------------------------------------------------
Init == /\ main = "start"
        /\ call = 0
        /\ thread = [t \in AllIds |-> "none"]
        /\ counter = [c \in {0} \cup AllIds |-> 0]
        /\ loaded = [t \in AllIds |-> 0]
        /\ done = [t \in AllIds |-> 0]
        /\ key = FALSE
        /\ slot = [t \in AllIds |-> FALSE]
        /\ block = [t \in AllIds |-> "none"]
        /\ printed = [t \in {0} \cup AllIds |-> NotYet]

(* counter = 100 in 02_tls_compiler.c, pthread_key_create() in 03.         *)
Start == /\ main = "start" /\ program \notin {"sharing", "arenas"}
         /\ main' = "calls"
         /\ counter' = IF program = "tls" THEN [counter EXCEPT ![0] = 100] ELSE counter
         /\ key' = (program = "key")
         /\ UNCHANGED <<program, call, thread, loaded, done, slot, block, printed>>

(* aligned_alloc(), twice, and the assignments that follow. *)
AllocShared == /\ main = "start" /\ program = "sharing"
               /\ \/ main' = "calls" /\ block' = [block EXCEPT ![1] = "filled", ![3] = "filled"]
                  \/ main' = "segv" /\ UNCHANGED block
               /\ UNCHANGED <<program, call, thread, key, slot, counts>>

(* count_anon_vmas(), before the threads and after them. *)
CountVmas(from, to) ==
  /\ main = from /\ program = "arenas"
  /\ main' \in {to, "segv"}
  /\ UNCHANGED <<program, call, thread, heap, counts>>

Create == LET c == Plan[program][call + 1] IN
          /\ main = "calls" /\ call < Len(Plan[program]) /\ c[1] = "create"
          /\ call' = call + 1
          /\ \/ thread' = [thread EXCEPT ![c[2]] = "start"]
             \/ thread' = [thread EXCEPT ![c[2]] = "failed"]
          /\ UNCHANGED <<program, main, heap, counts>>

HasEnded(t) == thread[t] = "ended"

Join == LET c == Plan[program][call + 1] IN
        /\ main = "calls" /\ call < Len(Plan[program]) /\ c[1] = "join"
        /\ \/ /\ thread[c[2]] # "failed"
              /\ HasEnded(c[2])
              /\ call' = call + 1
              /\ UNCHANGED main
           \/ /\ thread[c[2]] = "failed"
              /\ main' = "undefined"
              /\ UNCHANGED call
        /\ UNCHANGED <<program, thread, heap, counts>>

(* The block main() itself frees: the result of 04_pthread_join.c, b and g. *)
MainFrees == CASE program = "join" -> {1}
               [] program = "sharing" -> {1, 3}
               [] OTHER -> {}

(* Main's last statements: printing its counter, pthread_key_delete(),     *)
(* printing the result and freeing.                                        *)
Finish == /\ main = "calls" /\ call = Len(Plan[program])
          /\ main' = "return"
          /\ printed' = [printed EXCEPT ![0] = counter[0]]
          /\ key' = FALSE
          /\ block' = [t \in AllIds |-> IF t \in MainFrees THEN "freed" ELSE block[t]]
          /\ UNCHANGED <<program, call, thread, counter, loaded, done, slot>>

MainReturn == /\ main = "return" /\ program # "arenas"
              /\ main' = "returned"
              /\ UNCHANGED <<program, call, thread, heap, counts>>
-----------------------------------------------------------------------------
(* malloc(), and the first write, which dies if it returned NULL. *)
Malloc(t) == /\ thread[t] = "start" /\ program \in {"key", "join"}
             /\ \/ /\ block' = [block EXCEPT ![t] = "raw"]
                   /\ thread' = [thread EXCEPT ![t] = "fill"]
                   /\ UNCHANGED main
                \/ main' = "segv" /\ UNCHANGED <<block, thread>>
             /\ UNCHANGED <<program, call, key, slot, counts>>

(* snprintf() into the block and pthread_setspecific(), or *result = n * n *)
Fill(t) == /\ thread[t] = "fill"
           /\ block' = [block EXCEPT ![t] = "filled"]
           /\ slot' = [slot EXCEPT ![t] = (program = "key")]
           /\ thread' = [thread EXCEPT ![t] = "return"]
           /\ UNCHANGED <<program, main, call, key, counts>>

(* The counter of thread t: _Thread_local, or the word it was passed. *)
CopyOf(t) == t
Goal(t) == IF program = "tls" THEN Rounds[t] ELSE Iters

(* The increments of counter and of the word at p: a load and a store. *)
Load(t) == /\ thread[t] = "start" /\ program \in {"tls", "sharing"}
           /\ done[t] < Goal(t)
           /\ loaded' = [loaded EXCEPT ![t] = counter[CopyOf(t)]]
           /\ thread' = [thread EXCEPT ![t] = "store"]
           /\ UNCHANGED <<program, main, call, counter, done, printed, heap>>

Store(t) == /\ thread[t] = "store"
            /\ counter' = [counter EXCEPT ![CopyOf(t)] = loaded[t] + 1]
            /\ done' = [done EXCEPT ![t] = @ + 1]
            /\ thread' = [thread EXCEPT ![t] = "start"]
            /\ UNCHANGED <<program, main, call, loaded, printed, heap>>

(* A round of work() in 08_arenas_threads.c: 16 malloc(), then 16 free(),  *)
(* which takes a NULL.                                                     *)
Batch(t) == /\ thread[t] = "start" /\ program = "arenas"
            /\ done[t] < Goal(t)
            /\ IF block[t] # "raw"
               THEN block' = [block EXCEPT ![t] = "raw"] /\ UNCHANGED done
               ELSE block' = [block EXCEPT ![t] = "freed"] /\ done' = [done EXCEPT ![t] = @ + 1]
            /\ UNCHANGED <<program, main, call, thread, counter, loaded, printed, key, slot>>

(* What a worker without a block of its own ends with: printf(), return.   *)
Report(t) == /\ thread[t] = "start" /\ program \in {"create", "tls", "sharing", "stack", "arenas"}
             /\ program \in {"tls", "sharing", "arenas"} => done[t] = Goal(t)
             /\ printed' = [printed EXCEPT ![t] = counter[CopyOf(t)]]
             /\ thread' = [thread EXCEPT ![t] = "ended"]
             /\ UNCHANGED <<program, main, call, counter, loaded, done, heap>>

(* The end of a thread: the destructor frees the block stored under a key  *)
(* that still exists; dtor() has run when pthread_join() returns.          *)
Return(t) == /\ thread[t] = "return"
             /\ block' = IF key /\ slot[t] THEN [block EXCEPT ![t] = "freed"] ELSE block
             /\ slot' = [slot EXCEPT ![t] = FALSE]
             /\ thread' = [thread EXCEPT ![t] = "ended"]
             /\ UNCHANGED <<program, main, call, key, counts>>

Main == \/ Start \/ AllocShared \/ CountVmas("start", "calls") \/ Create \/ Join
        \/ Finish \/ CountVmas("return", "returned") \/ MainReturn
Thread(t) == Running /\ \/ Malloc(t) \/ Fill(t) \/ Load(t) \/ Store(t)
                        \/ Batch(t) \/ Report(t) \/ Return(t)
-----------------------------------------------------------------------------
(* "main thread's counter is still 100", and each thread counts to its own *)
(* number, whatever the others do: no increment is lost, although counter  *)
(* and *p are not atomic.                                                  *)
CountersArePrivate ==
  program \in {"tls", "sharing"} =>
    /\ \A t \in AllIds : printed[t] \in {NotYet, Goal(t)}
    /\ printed[0] \in {NotYet, IF program = "tls" THEN 100 ELSE 0}

(* What is malloc()ed is freed, once and not before its last use: when     *)
(* main() returns every block is freed, by its thread, by the destructor   *)
(* or by main(), which read it filled; no thread increments a word of b or *)
(* g that is gone.                                                         *)
NoLeak ==
  /\ main = "returned" => \A t \in AllIds : block[t] \in {"none", "freed"}
  /\ main = "calls" /\ call = Len(Plan[program]) =>
       \A t \in MainFrees : block[t] = "filled"
  /\ program = "sharing" /\ main # "segv" =>
       \A t \in AllIds : thread[t] \in {"start", "store"} =>
         block[IF t <= 2 THEN 1 ELSE 3] = "filled"

(* main() comes through its joins. *)
JoinsEnd == main = "calls" ~> main \in {"returned", "undefined", "segv"}
=============================================================================
