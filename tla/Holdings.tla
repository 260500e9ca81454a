------------------------------ MODULE Holdings ------------------------------
(***************************************************************************)
(* What the memory programs hold at each of their steps.                   *)
(***************************************************************************)
EXTENDS MCMemory

Printers == {"fixed_noreplace", "brk_directly"}
Jumpers == {"recursion_depth", "stack_overflow"}
Resizers == {"malloc_basics", "calloc_realloc", "mremap"}

(* n at the steps from a to b *)
From(a, b, n, k) == IF a <= k /\ k <= b THEN n ELSE 0

(* Only p is ever held, n pages at the steps from a to b *)
Only(p, n, a, b) == [k \in Nat |-> [r \in Pointers |-> IF r = p THEN From(a, b, n, k) ELSE 0]]

Nothing == [k \in Nat |-> [r \in Pointers |-> 0]]

(* Holdings[q][k][r]: the pages that pointer r of program q has at step k. *)
Holdings ==
  [pagesize |-> Only("p", 1, 2, 5),
   lazy_allocation |-> Only("p", Large, 3, 2 * Large + 9),
   count_page_faults |-> Only("p", Large, 2, 3 * Large + 8),
   pagemap |-> [k \in Nat |-> [r \in Pointers |->
      IF r = "heap" THEN From(2, 11, 1, k) ELSE IF r = "anon" THEN From(4, 12, 1, k) ELSE 0]],
   segments_addresses |-> [k \in Nat |-> [r \in Pointers |->
      IF r = "heap" THEN From(2, 3, 1, k) ELSE IF r = "anon" THEN From(3, 4, 1, k) ELSE 0]],
   alloca_vs_vla |-> Only("p", 1, 2, 3),
   recursion_depth |-> Nothing,
   stack_overflow |-> Nothing,
   malloc_basics |-> [k \in Nat |-> [r \in Pointers |->
      IF r = "a" THEN From(2, 5, 1, k) + From(6, 8, 2, k) + From(9, 9, Large, k)
      ELSE IF r = "b" THEN From(4, 10, 1, k) ELSE IF r = "r" THEN From(13, 13, 1, k) ELSE 0]],
   chunk_layout |-> [k \in Nat |-> [r \in Pointers |->
      IF r = "p" THEN From(2, 7, 1, k) ELSE IF r = "q" THEN From(4, 8, 1, k)
      ELSE IF r = "r" THEN From(6, 9, Large, k) ELSE 0]],
   brk_vs_mmap |-> [k \in Nat |-> [r \in Pointers |->
      IF r = "small[0]" THEN From(2, 6, 1, k) ELSE IF r = "small[1]" THEN From(3, 8, 1, k)
      ELSE IF r = "big[0]" THEN From(4, 7, 1, k) ELSE IF r = "big[1]" THEN From(5, 9, 1, k) ELSE 0]],
   mallopt_tuning |-> [k \in Nat |-> [r \in Pointers |->
      IF r = "big[0]" THEN From(2, 3, 1, k) ELSE IF r = "big[1]" THEN From(3, 4, 1, k)
      ELSE IF r = "q" THEN From(6, 6, 1, k) ELSE 0]],
   mallinfo |-> [k \in Nat |-> [r \in Pointers |->
      IF r = "small[0]" THEN From(2, 3, 1, k) ELSE IF r = "small[1]" THEN From(3, 4, 1, k)
      ELSE IF r = "r" THEN From(6, 6, Large, k) ELSE 0]],
   alignment |-> [k \in Nat |-> [r \in Pointers |->
      IF r = "p" THEN From(2, 2, 1, k) + From(4, 4, 1, k) + From(6, 6, 1, k)
                      + From(8, 8, 1, k) + From(10, 10, 1, k) ELSE 0]],
   calloc_realloc |-> [k \in Nat |-> [r \in Pointers |->
      IF r = "a" THEN From(2, 3, 1, k)
      ELSE IF r = "p" THEN From(6, 10, 1, k) + From(11, 12, Large, k)
      ELSE IF r = "q" THEN From(14, 14, 1, k) ELSE 0]],
   double_free |-> Only("p", 1, 2, 2),
   malloc_trim |-> [k \in Nat |-> [r \in Pointers |->
      IF r = "big[0]" THEN From(3, 7, 1, k) ELSE IF r = "big[1]" THEN From(4, 8, 1, k) ELSE 0]],
   mallinfo_dump |-> [k \in Nat |-> [r \in Pointers |->
      IF r = "small[0]" THEN From(2, 3, 1, k) ELSE IF r = "small[1]" THEN From(3, 4, 1, k) ELSE 0]],
   anon_mmap |-> Only("p", Large, 2, 7),
   file_mmap |-> Only("p", 1, 4, 9),
   file_share_write |-> Only("p", 1, 4, 8),
   mprotect_guard |-> Only("p", 3, 2, 8),
   madvise_dontneed |-> Only("p", Large, 2, Large + 10),
   mremap |-> [k \in Nat |-> [r \in Pointers |->
      IF r = "p" THEN From(2, 5, 2, k) ELSE IF r = "q" THEN From(6, 8, Large, k)
      ELSE IF r = "r" THEN From(9, 11, 1, k) ELSE 0]],
   map_populate |-> [k \in Nat |-> [r \in Pointers |->
      IF r = "p" THEN From(2, 2 * Large + 2, Large, k) + From(2 * Large + 4, 3 * Large + 4, Large, k)
      ELSE 0]],
   program_break |-> [k \in Nat |-> [r \in Pointers |->
      IF r = "p" THEN From(2, 4, 1, k) ELSE IF r = "q" THEN From(3, 5, 1, k)
      ELSE IF r = "r" THEN From(4, 6, Large, k) ELSE 0]],
   mlock |-> Only("p", Large, 3, Large + 8),
   madvise_pageout |-> Only("p", Large, 2, Large + 7),
   overcommit |-> Only("p", Large, 2, 6),
   getrusage_demo |-> Only("p", Large, 3, 2 * Large + 5),
   mprotect_jit |-> Only("p", 1, 2, 6),
   segfault_handler |-> Nothing,
   w_xor_x |-> Only("p", 1, 3, 6),
   thp_madvise |-> Only("p", Large, 2, Large + 4),
   hugetlb_mmap |-> Only("p", 1, 2, 4),
   ksm_demo |-> [k \in Nat |-> [r \in Pointers |->
      IF r = "a" THEN From(2, 7, 2, k) ELSE IF r = "b" THEN From(3, 8, 2, k) ELSE 0]],
   memory_hierarchy |-> Nothing]

(* What kind of memory a pointer is to. *)
Mallocers == {"pagemap", "segments_addresses", "alloca_vs_vla", "malloc_basics", "chunk_layout",
              "brk_vs_mmap", "mallopt_tuning", "mallinfo", "alignment", "calloc_realloc",
              "double_free", "malloc_trim", "mallinfo_dump", "program_break", "mlock",
              "getrusage_demo"}
KindOf(q, p) == IF q = "file_mmap" THEN "private"
                ELSE IF q = "file_share_write" THEN "shared"
                ELSE IF q \in Mallocers /\ p # "anon" THEN "heap" ELSE "map"

(* Programs that look at every result before they use it, *)
Careful == {"pagesize", "count_page_faults", "anon_mmap", "mremap", "mprotect_jit", "hugetlb_mmap"}
(* that fault on purpose, and that change protections. *)
Faulters == {"mprotect_guard", "segfault_handler", "w_xor_x"}
Guarded == {"mprotect_guard", "mprotect_jit"}
-----------------------------------------------------------------------------
(* What r has after step st, when it had s pages before it. *)
Leaves(st, r, s) ==
  IF st.op = "get" THEN IF r = st.p THEN st.n ELSE s
  ELSE IF st.op = "mmap_file" THEN IF r = st.p THEN 1 ELSE s
  ELSE IF st.op \in {"munmap", "free"} THEN IF r = st.p THEN 0 ELSE s
  ELSE IF st.op = "resize" THEN IF r = st.q THEN st.m ELSE IF r = st.p THEN 0 ELSE s
  ELSE s

(* That step k of program q goes with what the program holds. *)
Fits(q, k) ==
  LET st == Script[q][k]
      z == Holdings[q][k]
  IN  /\ \A r \in Pointers : z[r] \in Nat
      /\ st.op # "return" => \A r \in Pointers : Holdings[q][k + 1][r] = Leaves(st, r, z[r])
      /\ st.op = "get" => /\ st.p \in Pointers \ {"NULL"} /\ st.n \in Nat \ {0} /\ z[st.p] = 0
                          /\ st.kind = KindOf(q, st.p)
                          /\ q \in Careful => Script[q][k + 1] = Check(st.p)
      /\ st.op = "mmap_file" => st.p \in Pointers \ {"NULL"} /\ z[st.p] = 0 /\ st.kind = KindOf(q, st.p)
      /\ st.op = "munmap" => st.p \in Pointers /\ st.n > 0 /\ z[st.p] = st.n
      /\ st.op = "free" => /\ st.p \in Pointers
                           /\ z[st.p] > 0 \/ st.p = "NULL" \/ (q = "double_free" /\ k = 3)
                           /\ KindOf(q, st.p) = "heap"
      /\ st.op = "resize" => /\ {st.p, st.q} \subseteq Pointers \ {"NULL"}
                             /\ st.n \in Nat \ {0} /\ st.m \in Nat \ {0} /\ z[st.p] = st.n
                             /\ st.q = st.p \/ z[st.q] = 0
                             /\ st.kind = KindOf(q, st.p) /\ st.kind = KindOf(q, st.q)
                             /\ q \in Careful => Script[q][k + 1] = Check(st.q)
      /\ st.op \in {"read", "touch", "str", "write", "exec"} =>
           /\ st.p \in Pointers
           /\ q # "segfault_handler" => st.k \in 0 .. z[st.p] - 1
           /\ q \in Unchecked \cup Careful \cup Faulters
      /\ st.op = "exec" => q \in {"mprotect_jit", "w_xor_x"}
      /\ st.op = "mprotect" => q \in Guarded /\ (q \in Careful => st.checked)
      /\ st.op = "return" => (\A r \in Pointers : z[r] = 0) \/ q \in Faulters
      /\ st.op \in {"read_file", "rss", "maps", "measure"} => q \in Unchecked
      /\ st.op \in {"open", "write_file", "read_file", "mmap_file", "unlink"} =>
           q \in {"file_mmap", "file_share_write"}
      /\ st.op \in {"mlock", "pageout", "pagemap"} => q \notin Careful
      /\ st.op \notin {"mmap_fixed", "sbrk", "sbrk_back", "printf", "brk"}
      /\ st.op = "sigaction" => q \in Jumpers \cup Faulters
      /\ st.op \in {"recurse", "landed"} => q \in Jumpers
      /\ st.op = "unreachable" => q \in Faulters \cup {"double_free"}

(* The pages that r has now; that it has any; and that all of them are     *)
(* there, with r as their base.                                            *)
Have(r) == Holdings[program][pc][r]
Holds(r) == Have(r) > 0 /\ ptr[r] # Nowhere
Whole(r) == \A b \in Span(ptr[r], Have(r)) :
              /\ b \in Addresses /\ page[b] # Unmapped
              /\ page[b].base = ptr[r] /\ page[b].kind = KindOf(program, r)

(* The pages of the address space are those the program holds. *)
Covered == \A b \in Addresses : page[b] # Unmapped =>
             \E r \in Pointers : Holds(r) /\ b \in Span(ptr[r], Have(r))

Owns == /\ ptr["NULL"] = Nowhere
        /\ \A r \in Pointers : Have(r) > 0 => (ptr[r] = Nowhere /\ failed) \/ (Holds(r) /\ Whole(r))
        /\ \A r, s \in Pointers : r # s /\ Holds(r) /\ Holds(s) => ptr[r] # ptr[s]
        /\ (failed /\ program \in Resizers) \/ Covered

OwnInv == program \notin Printers /\ end \in {"running", "returned"} => Owns

(* A failure is noticed at once. *)
CarefulInv == program \in Careful /\ failed /\ end \in {"running", "returned"} =>
                end = "running" /\ Step.op = "check" /\ ptr[Step.p] = Nowhere

(* Only the two programs that call mprotect() have pages not to be written.*)
ProtInv == program \notin Guarded =>
             \A b \in Addresses : page[b] # Unmapped => page[b].prot = RW

(* What the two know of their pages. *)
GuardInv ==
  /\ program = "mprotect_guard" /\ ~failed /\ end = "running" =>
       /\ pc <= 6
       /\ pc >= 2 => page[ptr["p"] + 1].prot = RW
       /\ pc >= 3 => page[ptr["p"] + 2].prot = {}
  /\ program = "mprotect_jit" /\ ~failed /\ end = "running" =>
       /\ pc \in 2 .. 4 => page[ptr["p"]].prot = RW
       /\ pc = 5 => page[ptr["p"]].prot = {"r", "x"}

(* The handlers. *)
HandlerInv ==
  /\ program \notin Jumpers \cup Faulters => handler.how = "default"
  /\ program \in Jumpers /\ end = "running" =>
       pc # 3 /\ (pc = 2 => handler.how = "jump" /\ handler.alt = TRUE)
  /\ program \in Faulters => handler.how \in {"default", "exit"}
  /\ program = "mprotect_guard" /\ pc >= 5 /\ end = "running" => handler.how = "exit"
  /\ program \in {"segfault_handler", "w_xor_x"} /\ pc >= 2 /\ end = "running" => handler.how = "exit"

(* Programs that do not come to their end. *)
StopInv ==
  /\ program = "segfault_handler" => pc <= 2
  /\ program = "w_xor_x" => pc <= 4
  /\ program = "mprotect_guard" /\ ~failed => pc <= 6
  /\ program = "double_free" /\ ~failed => pc <= 3 /\ (pc >= 2 => ptr["p"] # Nowhere)

(* The file. *)
FileInv ==
  /\ program \notin {"file_mmap", "file_share_write"} => file = "absent" /\ ~fd
  /\ program \in {"file_mmap", "file_share_write"} =>
       /\ pc >= 4 => ~fd
       /\ pc = (IF program = "file_mmap" THEN 11 ELSE 10) => file = "absent"

(* How a program ends. *)
EndInv ==
  /\ end = "killed" => (failed /\ program \in Unchecked) \/ program = "double_free"
  /\ end = "handled" => failed \/ Script[program][pc + 1] = Unreachable
  /\ end = "returned" => Step.op = "return"

(* 09_map_fixed_noreplace.c: what is mapped but the buffer of printf(). *)
FixedPagesInv ==
  program = "fixed_noreplace" =>
    /\ \A b \in Addresses : page[b] # Unmapped =>
         \/ page[b].kind = "library"
         \/ pc = 2 /\ b = ptr["p"]
         \/ pc \in 5 .. 7 /\ b = ptr["q"]
    /\ pc \in 5 .. 7 /\ ptr["q"] # Nowhere => ptr["q"] = ptr["p"] /\ page[ptr["q"]] # Unmapped
    /\ pc \in 6 .. 7 => ptr["q"] # Nowhere

(* 02_brk_directly.c: the same, and the break. *)
BreakPagesInv ==
  program = "brk_directly" =>
    /\ \A b \in Addresses : page[b] # Unmapped =>
         \/ page[b].kind = "library"
         \/ pc \in 4 .. 10 /\ ptr["got"] # Nowhere /\ b \in Span(ptr["got"], 2)
            /\ (pc >= 9 => failed) /\ page[b].kind = "brk"
    /\ pc >= 9 /\ ~failed => brk = ptr["got"]
=============================================================================
