----------------------------- MODULE CloneThread ----------------------------
(***************************************************************************)
(* 08_process_syscalls/05_clone_thread.c: main() and a task made by        *)
(* clone(CLONE_VM | CLONE_THREAD ...) each add 1 to shared_counter N       *)
(* times; main() then polls the counter in place of a join.                *)
(***************************************************************************)
EXTENDS Naturals

CONSTANT N \* additions by each of the two (1000 in the program)

NAssumption == N \in Nat

VARIABLES
  main,           \* where main() is
  task,           \* where child_fn() is
  shared_counter,
  added,          \* added[w]: the additions w has done
  shown           \* what main() printed, 0 before

vars == <<main, task, shared_counter, added, shown>>

Running == main \notin {"returned", "failed", "segv"}

Target == 2 * N

Init == /\ main = "mmap"
        /\ task = "none"
        /\ shared_counter = 0
        /\ added = [w \in {"main", "task"} |-> 0]
        /\ shown = 0

(* mmap() is not checked: with MAP_FAILED the stack pointer is junk, and   *)
(* clone() fails or the task dies on it and takes the process along.       *)
MmapAndClone == /\ main = "mmap"
                /\ \/ main' = "add" /\ task' = "add"
                   \/ main' \in {"failed", "segv"} /\ UNCHANGED task
                /\ UNCHANGED <<shared_counter, added, shown>>

Add(w) == /\ added[w] < N
          /\ added' = [added EXCEPT ![w] = @ + 1]
          /\ shared_counter' = shared_counter + 1
          /\ UNCHANGED <<main, task, shown>>

AllAdded == /\ main = "add"
            /\ added["main"] = N
            /\ main' = "poll"
            /\ UNCHANGED <<task, shared_counter, added, shown>>

(* A poll that finds too little sleeps and polls again. *)
Poll == /\ main = "poll"
        /\ shared_counter >= Target
        /\ main' = "print"
        /\ UNCHANGED <<task, shared_counter, added, shown>>

(* Printing, and the return from main(), which ends the task wherever it is.*)
Return == /\ main = "print"
          /\ main' = "returned"
          /\ shown' = shared_counter
          /\ UNCHANGED <<task, shared_counter, added>>

(* child_fn() prints and returns. *)
TaskReturn == /\ Running
              /\ task = "add" /\ added["task"] = N
              /\ task' = "returned"
              /\ UNCHANGED <<main, shared_counter, added, shown>>

Main == MmapAndClone \/ AllAdded \/ Poll \/ Return \/ (main = "add" /\ Add("main"))
Task == TaskReturn \/ (Running /\ task = "add" /\ Add("task"))

Next == Main \/ Task

(* Both tasks are scheduled. *)
Spec == Init /\ [][Next]_vars /\ WF_vars(Main) /\ WF_vars(Task)
-----------------------------------------------------------------------------
(* "expected 2000": what main() prints is all of both tasks' additions,    *)
(* although it joins nobody.                                               *)
PrintsAll == main = "returned" => shown = 2 * N

(* The polling ends. *)
PollEnds == task = "add" ~> main = "returned"
=============================================================================
