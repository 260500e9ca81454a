---------------------------- MODULE PointerChase ----------------------------
(***************************************************************************)
(* 00_fundamentals/01_memory_hierarchy.c: measure() links the slots of buf *)
(* into one cycle, in the order a Fisher-Yates shuffle of idx gives, and   *)
(* follows it; main() does so for each of its sizes.  If the chain closed  *)
(* early the loop would run in fewer slots than the buffer has, and the    *)
(* program would time a smaller memory than it says.                       *)
(***************************************************************************)
EXTENDS Integers, FiniteSets

CONSTANTS Sizes,    \* number of slots of each buffer (2 Ki to 32 Mi in the program)
          MaxIters, \* steps along the chain (100 million), a tenth of that in
          BigSize   \* buffers of more than BigSize slots (2 Mi)

VARIABLES
  stage,    \* where measure() is
  todo,  \* sizes main() has not measured yet
  size,  \* n: slots of this buffer
  idx,   \* idx and buf: Garbage where not written
  buf,
  loop,  \* i: the loop counter
  cur,   \* k: the slot the chase is at
  chased \* the slots it has been at

chaseVars == <<stage, todo, size, idx, buf, loop, cur, chased>>

Garbage == -1
Slots == 0 .. size - 1
Iters == IF size > BigSize THEN MaxIters \div 10 ELSE MaxIters
ChaseAssumption == /\ Sizes \subseteq Nat \ {0} /\ IsFiniteSet(Sizes)
                   /\ MaxIters \in Nat /\ BigSize \in Nat
-----------------------------------------------------------------------------
ChaseInit == /\ stage = "main" /\ todo = Sizes
             /\ size = 0 /\ idx = << >> /\ buf = << >>
             /\ loop = 0 /\ cur = 0 /\ chased = {}

(* aligned_alloc() returning NULL gives -1.0 for this size; malloc() is    *)
(* not checked.                                                            *)
Measure ==
  /\ stage = "main" /\ todo # {}
  /\ size' = CHOOSE s \in todo : \A t \in todo : s <= t
  /\ todo' = todo \ {size'}
  /\ \/ /\ buf' = [s \in 0 .. size' - 1 |-> Garbage]
        /\ \/ stage' = "fill" /\ idx' = [s \in 0 .. size' - 1 |-> Garbage]
           \/ stage' = "segv" /\ UNCHANGED idx
     \/ stage' = "main" /\ UNCHANGED <<idx, buf>>
  /\ loop' = 0
  /\ UNCHANGED <<cur, chased>>

Fill == /\ stage = "fill"
        /\ idx' = [s \in Slots |-> s]
        /\ stage' = "shuffle"
        /\ loop' = size - 1
        /\ UNCHANGED <<todo, size, buf, cur, chased>>

(* Mistakes for the mutation runs: a swap that loses one of the values. *)
LostSwap(a, x, y) == [a EXCEPT ![x] = a[y]]

Swap(a, x, y) == [a EXCEPT ![x] = a[y], ![y] = a[x]]

(* One round of shuffle(), for any value of rand(). *)
Shuffle == /\ stage = "shuffle"
           /\ IF loop > 0
              THEN /\ \E j \in 0 .. loop : idx' = Swap(idx, loop, j)
                   /\ loop' = loop - 1
                   /\ UNCHANGED stage
              ELSE stage' = "link" /\ UNCHANGED <<idx, loop>>
           /\ UNCHANGED <<todo, size, buf, cur, chased>>

After == (loop + 1) % size

Link == /\ stage = "link"
        /\ buf' = [buf EXCEPT ![idx[loop]] = idx[After]]
        /\ IF loop + 1 < size
           THEN loop' = loop + 1 /\ UNCHANGED <<stage, cur, chased>>
           ELSE stage' = "chase" /\ loop' = 0 /\ cur' = 0 /\ chased' = {}
        /\ UNCHANGED <<todo, size, idx>>

Chase == /\ stage = "chase" /\ loop < Iters
         /\ cur' = buf[cur]
         /\ chased' = chased \cup {cur'}
         /\ loop' = loop + 1
         /\ UNCHANGED <<stage, todo, size, idx, buf>>

(* free(idx), free(buf), and main() prints the time. *)
Done == /\ stage = "chase" /\ loop = Iters
        /\ stage' = "main"
        /\ idx' = << >> /\ buf' = << >>
        /\ UNCHANGED <<todo, size, loop, cur, chased>>

Chaser == Measure \/ Fill \/ Shuffle \/ Link \/ Chase \/ Done

(* main() has measured every size; NULL was followed. *)
Through == stage = "main" /\ todo = {}
Crashed == stage = "segv"
-----------------------------------------------------------------------------
(* "a single cycle visiting every slot": the chase never leaves the        *)
(* buffer or reads a slot nobody wrote, and it is at a new slot in each    *)
(* step until it has been at all of them, whatever rand() returned.        *)
VisitsEverySlot ==
  /\ stage = "chase" =>
       /\ cur \in Slots /\ \A s \in Slots : buf[s] \in Slots
       /\ Cardinality(chased) = IF loop < size THEN loop ELSE size
  /\ stage = "link" => {idx[s] : s \in Slots} = Slots
=============================================================================
