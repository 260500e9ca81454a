------------------------------ MODULE Promises ------------------------------
(***************************************************************************)
(* What the memory programs know of their pages, their files and their     *)
(* counters when they print, and how much they have printed by then.       *)
(***************************************************************************)
EXTENDS Holdings

(* The steps that print something they have read. *)
Outputs == {"read", "str", "exec", "mmap_fixed", "brk", "landed", "read_file", "rss", "rusage",
            "pagemap", "overflow"}

(* 1 at the steps after a *)
Past(a, k) == IF k > a THEN 1 ELSE 0

Talks == [pagesize |-> [k \in Nat |-> Past(4, k)],
   lazy_allocation |-> [k \in Nat |->
      Past(1, k) + Past(4, k) + Past(Large + 5, k) + Past(2 * Large + 6, k)
        + Past(2 * Large + 8, k) + Past(2 * Large + 10, k)],
   count_page_faults |-> [k \in Nat |->
      Past(3, k) + Past(Large + 4, k) + Past(2 * Large + 5, k) + Past(3 * Large + 7, k)],
   pagemap |-> [k \in Nat |-> IF k <= 5 THEN 0 ELSE IF k <= 10 THEN k - 5 ELSE 6],
   recursion_depth |-> [k \in Nat |-> Past(4, k)],
   stack_overflow |-> [k \in Nat |-> Past(4, k)],
   malloc_basics |-> [k \in Nat |-> Past(2, k) + Past(4, k)],
   calloc_realloc |-> [k \in Nat |-> Past(2, k) + Past(4, k) + Past(7, k) + Past(9, k) + Past(11, k)],
   malloc_trim |-> [k \in Nat |-> Past(1, k) + Past(6, k) + Past(9, k) + Past(11, k)],
   anon_mmap |-> [k \in Nat |-> Past(3, k) + Past(4, k) + Past(6, k)],
   file_mmap |-> [k \in Nat |-> Past(5, k) + Past(7, k) + Past(8, k)],
   file_share_write |-> [k \in Nat |-> Past(5, k) + Past(7, k)],
   madvise_dontneed |-> [k \in Nat |->
      Past(3, k) + Past(Large + 4, k) + Past(Large + 6, k) + Past(Large + 7, k)
        + Past(Large + 8, k) + Past(Large + 9, k)],
   mremap |-> [k \in Nat |-> Past(4, k) + Past(7, k) + Past(10, k)],
   fixed_noreplace |-> [k \in Nat |-> Past(4, k) + Past(6, k)],
   brk_directly |-> [k \in Nat |-> Past(1, k) + Past(5, k) + Past(9, k)],
   mlock |-> [k \in Nat |->
      Past(1, k) + Past(Large + 3, k) + Past(Large + 5, k) + Past(Large + 7, k)],
   madvise_pageout |-> [k \in Nat |->
      Past(Large + 2, k) + Past(Large + 4, k) + Past(Large + 5, k) + Past(Large + 6, k)],
   overcommit |-> [k \in Nat |-> Past(3, k) + Past(5, k)],
   getrusage_demo |-> [k \in Nat |->
      Past(1, k) + Past(Large + 3, k) + Past(2 * Large + 4, k) + Past(2 * Large + 6, k)],
   mprotect_jit |-> [k \in Nat |-> Past(5, k)]]

(* Said(q, k): how much program q has printed when it comes to step k. *)
Said(q, k) == IF q \in DOMAIN Talks THEN Talks[q][k] ELSE 0

SaidInv == DOMAIN seen = 1 .. Said(program, pc)
-----------------------------------------------------------------------------
(* Page k of p, if p is to any, holds v; no page of p from the k-th on has *)
(* been used; and no page, but for the one at a, has been written to since *)
(* it was mapped or dropped.                                               *)
Finds(p, k, v) == ptr[p] # Nowhere => page[ptr[p] + k].val = v
Unused(p, k) == ptr[p] # Nowhere => \A i \in k .. Large - 1 : page[ptr[p] + i].at = "none"
DryBut(a) == \A b \in Addresses : page[b] # Unmapped /\ b # a => page[b].at \in {"none", "zero"}
Dry == DryBut(Nowhere)

(* What 01_anon_mmap.c writes, and what printf() makes of a null pointer. *)
Greeting == "hello mmap"
NullText == "(null)"

(* What each program knows, at its steps, of what it is about to print. *)
PagesizeKnows == pc = 4 => Finds("p", 0, "a..z")

LazyAllocationKnows == /\ pc \in 1 .. Large + 6 => Dry
                       /\ pc \in 2 * Large + 8 .. 2 * Large + 9 => refused \/ Dry

CountPageFaultsKnows ==
  /\ pc <= 4 => faults = 0
  /\ pc \in 2 .. 4 => Unused("p", 0)
  /\ pc \in 4 .. Large + 4 => faults = pc - 4 /\ Unused("p", pc - 4)
  /\ pc \in Large + 5 .. 2 * Large + 5 => faults \in 0 .. pc - Large - 5
  /\ pc = 2 * Large + 6 => faults = 0
  /\ pc \in 2 * Large + 7 .. 3 * Large + 7 =>
       IF refused THEN faults \in 0 .. pc - 2 * Large - 7
       ELSE faults = pc - 2 * Large - 7 /\ Unused("p", pc - 2 * Large - 7)

(* What has been written is in memory or in swap. *)
PagemapKnows ==
  /\ pc \in 3 .. 11 => ptr["heap"] # Nowhere /\ page[ptr["heap"]].at \in {"frame", "swap"}
  /\ pc \in 5 .. 12 => ptr["anon"] # Nowhere /\ page[ptr["anon"]].at \in {"frame", "swap"}

(* The depth that the handler finds when it comes back. *)
JumpersKnow == pc = 4 => counter = StackFrames

BasicsKnows == /\ pc = 2 => Finds("a", 0, "junk")
               /\ pc = 4 => Finds("b", 0, "zero")

ReallocKnows == /\ pc = 2 => Finds("a", 0, "zero")
                /\ pc \in 7 .. 8 => ptr["p"] # Nowhere
                /\ pc \in 7 .. 10 => Finds("p", 0, "1234567")
                /\ pc = 11 => Finds("p", 0, "1234567") \/ Finds("p", 0, "junk")

MallocTrimKnows == pc <= 4 => Dry

AnonMmapKnows == /\ pc \in 2 .. 3 => Finds("p", 0, "zero")
                 /\ pc \in 2 .. 4 => Finds("p", Large - 1, "zero")
                 /\ pc = 6 => Finds("p", 0, Greeting)

(* What is in the file, and what the private copy of its page holds. *)
FileMmapKnows ==
  /\ pc = 1 => ~fd
  /\ pc = 2 /\ fd => file = "empty"
  /\ pc = 3 /\ fd => file \in {"empty", "hello"}
  /\ pc >= 5 => ptr["p"] # Nowhere
  /\ pc \in 4 .. 8 /\ ptr["p"] # Nowhere => file = "hello"
  /\ pc \in 4 .. 6 /\ ptr["p"] # Nowhere => page[ptr["p"]].at \in {"none", "cache"}
  /\ pc \in 7 .. 8 => page[ptr["p"]].at \in {"frame", "swap"} /\ page[ptr["p"]].val = "Hello"

FileShareWriteKnows ==
  /\ pc = 1 => ~fd
  /\ pc = 2 /\ fd => file = "empty"
  /\ pc = 3 /\ fd => file \in {"empty", "AA"}
  /\ pc >= 5 => ptr["p"] # Nowhere
  /\ pc \in 4 .. 6 /\ ptr["p"] # Nowhere => file = "AA"
  /\ pc = 7 => file = "BA"

(* What is in the first two pages, once they have been written. *)
Found == IF refused \/ pc <= Large + 5 THEN "1" ELSE "zero"

MadviseDontneedKnows ==
  /\ pc <= Large + 5 => ~refused
  /\ pc \in 1 .. 4 => Dry
  /\ pc \in Large + 6 .. Large + 9 => refused \/ Dry
  /\ pc \in 5 .. Large + 7 => Finds("p", 0, Found)
  /\ pc \in 6 .. Large + 8 => Finds("p", 1, Found)

MremapKnows == /\ pc \in 4 .. 5 => Finds("p", 0, "marker")
               /\ pc \in 6 .. 8 => Finds("q", 0, "marker")
               /\ pc \in 9 .. 10 => Finds("r", 0, "marker")

(* All of the pages are resident between mlock() and munlock(). *)
MlockKnows ==
  /\ pc <= 3 => Dry
  /\ pc >= 4 => ptr["p"] # Nowhere
  /\ pc \in Large + 5 .. Large + 6 =>
       \A b \in Span(ptr["p"], Large) : page[b].at = "frame" /\ page[b].locked

MadvisePageoutKnows == pc \in 4 .. Large + 5 => Finds("p", 1, "0xAA")

OvercommitKnows == /\ pc <= 4 => Dry
                   /\ pc = 5 => ptr["p"] # Nowhere
                   /\ DryBut(ptr["p"])

GetrusageDemoKnows ==
  /\ pc <= 2 => faults = 0
  /\ pc \in 3 .. Large + 3 => faults = pc - 3 /\ Unused("p", pc - 3)
  /\ pc \in Large + 4 .. 2 * Large + 4 => faults \in Large .. pc - 4
  /\ pc \in 2 * Large + 5 .. 2 * Large + 7 => faults \in Large .. 2 * Large

JitKnows == pc \in 4 .. 5 => Finds("p", 0, "code")

(* What glibc may have kept: nothing, until a block has been freed. *)
KeptInv ==
  /\ program \notin Mallocers => kept = 0
  /\ program = "mlock" /\ pc <= Large + 8 => kept = 0
  /\ program = "malloc_trim" =>
       kept \in 0 .. (IF pc = 8 THEN 1 ELSE IF pc \in 9 .. 10 THEN 2 ELSE 0)

KnowsInv ==
  end = "running" =>
    /\ program = "pagesize" => PagesizeKnows
    /\ program = "lazy_allocation" => LazyAllocationKnows
    /\ program = "count_page_faults" => CountPageFaultsKnows
    /\ program = "pagemap" => PagemapKnows
    /\ program \in Jumpers => JumpersKnow
    /\ program = "malloc_basics" => BasicsKnows
    /\ program = "calloc_realloc" => ReallocKnows
    /\ program = "malloc_trim" => MallocTrimKnows
    /\ program = "anon_mmap" => AnonMmapKnows
    /\ program = "file_mmap" => FileMmapKnows
    /\ program = "file_share_write" => FileShareWriteKnows
    /\ program = "madvise_dontneed" => MadviseDontneedKnows
    /\ program = "mremap" => MremapKnows
    /\ program = "mlock" => MlockKnows
    /\ program = "madvise_pageout" => MadvisePageoutKnows
    /\ program = "overcommit" => OvercommitKnows
    /\ program = "getrusage_demo" => GetrusageDemoKnows
    /\ program = "mprotect_jit" => JitKnows
=============================================================================
