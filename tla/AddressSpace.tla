---------------------------- MODULE AddressSpace ----------------------------
(***************************************************************************)
(* A process running one of MemoryPrograms, the pages of its address       *)
(* space, and the kernel's reclaim, which at any moment may take a page    *)
(* that is not locked away from it.                                        *)
(*                                                                         *)
(* Kernel and C library are modelled by what the programs rely on.  Every  *)
(* call that asks for something (memory, a file, a protection, advice that *)
(* is to drop pages) fails in some behaviour, and the program does what it *)
(* does then: most often it has not looked.  Calls that give back what it  *)
(* has (munmap(), free(), munlock(), close(), unlink()) succeed, and free()*)
(* leaves it to glibc how many pages the process keeps until a             *)
(* malloc_trim().  A pointer that is NULL or MAP_FAILED is Nowhere.  An    *)
(* access and the page fault it causes are one step.  Memory does not run  *)
(* out after it has been granted (no OOM kill).                            *)
(***************************************************************************)
EXTENDS MemoryPrograms, FiniteSets

CONSTANTS BrkPages,  \* addresses below BrkPages are for the program break,
          MapPages,  \* the next MapPages ones for everything else
          StackFrames \* calls that fit on the stack

AddressAssumption == /\ BrkPages \in Nat /\ BrkPages >= 3
                     /\ MapPages \in Nat /\ MapPages > Large + 2
                     /\ StackFrames \in Nat \ {0}

Addresses == 0 .. BrkPages + MapPages - 1
MapArea == BrkPages .. BrkPages + MapPages - 1
Nowhere == -1
Unmapped == [kind |-> "unmapped"]

VARIABLES
  program,
  pc,      \* the step it is at
  end,     \* "running", "returned" (0), "error" (1), "handled" (_exit() in the
           \* SIGSEGV handler) or "killed" (by a signal)
  page,    \* page[a]: a record, or Unmapped
  ptr,     \* ptr[p]: the address in pointer p
  brk,     \* the program break
  kept,    \* at most so many pages of freed blocks are still the process's:
           \* free() leaves it to glibc when to give them back
  file,    \* "absent", "empty" or what it contains
  fd,      \* whether it is open
  handler, \* the disposition of SIGSEGV
  counter, \* the C variable that counts calls
  faults,  \* page faults counted by getrusage()
  seen,    \* what the program has printed of what it read
  refused, \* whether madvise(MADV_DONTNEED) has left all pages as they were
  failed   \* whether any other call has failed

memory == <<page, ptr, brk>>
files == <<file, fd>>
log == <<counter, faults, seen>>
vars == <<program, pc, end, memory, kept, refused, files, handler, log, failed>>

Default == [how |-> "default", alt |-> FALSE, once |-> FALSE]

TypeOK ==
  /\ program \in Programs
  /\ pc \in DOMAIN Script[program]
  /\ end \in {"running", "returned", "error", "handled", "killed"}
  /\ DOMAIN page = Addresses
  /\ \A a \in Addresses : page[a] # Unmapped =>
       page[a].at \in {"none", "zero", "cache", "frame", "swap"} /\ page[a].base \in Addresses
  /\ ptr \in [Pointers -> Addresses \cup {Nowhere}]
  /\ brk \in 0 .. BrkPages /\ kept \in Nat
  /\ fd \in BOOLEAN /\ refused \in BOOLEAN /\ failed \in BOOLEAN
  /\ counter \in 0 .. StackFrames /\ faults \in Nat

Init ==
  /\ pc = 1 /\ end = "running"
  /\ page = [a \in Addresses |-> Unmapped]
  /\ ptr = [p \in Pointers |-> Nowhere]
  /\ brk = 0 /\ kept = 0
  /\ file = "absent" /\ fd = FALSE
  /\ handler = Default
  /\ counter = 0 /\ faults = 0 /\ seen = << >>
  /\ refused = FALSE /\ failed = FALSE
-----------------------------------------------------------------------------
Step == Script[program][pc]
At(op) == end = "running" /\ Step.op = op

(* The program goes on to its next statement. *)
Advance == pc' = pc + 1 /\ UNCHANGED <<program, end, handler>>

(* It leaves main() or calls exit(). *)
Leave(how) == end' = how /\ UNCHANGED <<program, pc, handler>>

(* SIGSEGV.  The handler exits, or jumps to where sigsetjmp() was called;  *)
(* on an overflown stack it cannot run unless it has a stack of its own.   *)
(* SA_RESETHAND makes it run once.                                         *)
Landing == CHOOSE k \in DOMAIN Script[program] : Script[program][k].op = "landed"

Segv(overflown) ==
  LET caught == handler.how # "default" /\ (overflown => handler.alt)
  IN  /\ end' = IF ~caught THEN "killed"
                ELSE IF handler.how = "exit" THEN "handled" ELSE "running"
      /\ pc' = IF caught /\ handler.how = "jump" THEN Landing ELSE pc
      /\ handler' = IF handler.once THEN Default ELSE handler
      /\ UNCHANGED program

Shown(x) == seen' = Append(seen, x) /\ UNCHANGED <<counter, faults>>

(* The n addresses from a, and the places where n pages can be put. *)
Span(a, n) == a .. a + n - 1
Room(n) == {a \in MapArea : \A b \in Span(a, n) : b \in MapArea /\ page[b] = Unmapped}

Page(base, kind, val) == [base |-> base, kind |-> kind, val |-> val, prot |-> RW,
                          at |-> "none", locked |-> FALSE]

Put(a, n, f(_)) == [b \in Addresses |-> IF b \in Span(a, n) THEN f(b) ELSE page[b]]
Drop(S) == [a \in Addresses |-> IF a \in S THEN Unmapped ELSE page[a]]

Resident(a) == page[a] # Unmapped /\ page[a].at \in {"frame", "cache"}
-----------------------------------------------------------------------------
(* mmap(), malloc(), calloc() and their failure, which is left in p. *)
Fails(p) == /\ ptr' = [ptr EXCEPT ![p] = Nowhere]
            /\ failed' = TRUE
            /\ UNCHANGED <<page, brk>>

Grants(p, a, n, f(_)) == /\ page' = Put(a, n, f)
                         /\ ptr' = [ptr EXCEPT ![p] = a]
                         /\ UNCHANGED <<brk, failed>>

GetMemory ==
  /\ At("get") /\ Advance /\ UNCHANGED <<files, log>>
  /\ \/ \E a \in Room(Step.n) :
          LET new(b) == [Page(a, Step.kind, Step.val) EXCEPT
                           !.at = IF Step.touched THEN "frame" ELSE "none"]
          IN  Grants(Step.p, a, Step.n, new)
     \/ Fails(Step.p)

(* A file that is empty, because write() failed, cannot be mapped.  Both   *)
(* programs close() the descriptor next, whether or not it worked.         *)
MmapFileStep ==
  /\ At("mmap_file") /\ Advance /\ UNCHANGED <<file, log>>
  /\ \/ /\ fd /\ file # "empty"
        /\ \E a \in Room(1) :
             LET new(b) == Page(a, Step.kind, "file") IN Grants(Step.p, a, 1, new)
     \/ Fails(Step.p)
  /\ fd' = FALSE

(* calloc() sees that its two arguments multiply to more than a size_t.    *)
OverflowStep == /\ At("overflow") /\ Advance /\ Shown("(nil)")
                /\ UNCHANGED <<memory, files, failed>>

MmapFixedStep ==
  LET a == ptr[Step.at]
      new(b) == Page(a, "map", "zero")
  IN  /\ At("mmap_fixed") /\ Advance /\ UNCHANGED files
      /\ \/ /\ a # Nowhere
            /\ Step.flag = "NOREPLACE" => page[a] = Unmapped
            /\ Grants(Step.p, a, 1, new)
            /\ Shown("mapped")
         \/ /\ a # Nowhere /\ Step.flag = "NOREPLACE" /\ page[a] # Unmapped
            /\ Fails(Step.p) /\ Shown("EEXIST")
         \/ Fails(Step.p) /\ Shown("failed") \* any other errno

CheckStep == /\ At("check")
             /\ IF ptr[Step.p] = Nowhere THEN Leave("error") ELSE Advance
             /\ UNCHANGED <<memory, files, log, failed>>

MunmapStep == /\ At("munmap") /\ Advance
              /\ page' = IF ptr[Step.p] = Nowhere THEN page
                         ELSE Drop(Span(ptr[Step.p], Step.n))
              /\ UNCHANGED <<ptr, brk, files, log, failed>>

Block(a) == {b \in Addresses : page[b].kind = "heap" /\ page[b].base = a}

FreeStep ==
  /\ At("free") /\ UNCHANGED <<ptr, brk, refused, files, log, failed>>
  /\ \/ ptr[Step.p] = Nowhere /\ Advance /\ UNCHANGED <<page, kept>>
     \/ /\ Block(ptr[Step.p]) # {} /\ Advance
        /\ page' = Drop(Block(ptr[Step.p]))
        /\ kept' = kept + Cardinality(Block(ptr[Step.p]))
     \/ /\ ptr[Step.p] # Nowhere /\ Block(ptr[Step.p]) = {}
        /\ Leave("killed") \* "double free detected", abort()
        /\ UNCHANGED <<page, kept>>

(* malloc_trim(0) gives the kernel what glibc kept. *)
TrimStep == /\ At("trim") /\ Advance /\ kept' = 0
            /\ UNCHANGED <<memory, refused, files, log, failed>>

(* mremap(MREMAP_MAYMOVE) and realloc(): the first pages keep what they    *)
(* hold, in place or elsewhere; p still holds the old address.             *)
ResizeStep ==
  LET a == ptr[Step.p]
      same == {k \in 0 .. Step.m - 1 : k < Step.n}
      fresh == IF Step.kind = "map" THEN "zero" ELSE "junk"
      others == [b \in Addresses |-> IF a # Nowhere /\ b \in Span(a, Step.n)
                                     THEN Unmapped ELSE page[b]]
      fits(c) == \A b \in Span(c, Step.m) : b \in MapArea /\ others[b] = Unmapped
      moved(c) == [b \in Addresses |->
                     IF b \notin Span(c, Step.m) THEN others[b]
                     ELSE IF a # Nowhere /\ b - c \in same
                          THEN [page[a + b - c] EXCEPT !.base = c]
                          ELSE Page(c, Step.kind, fresh)]
  IN  /\ At("resize") /\ Advance /\ UNCHANGED <<refused, files, log>>
      /\ \/ \E c \in MapArea :
              /\ fits(c)
              /\ c = a \/ (Span(c, Step.m) \cap Span(a, Step.n) = {}
                             /\ (Step.kind = "map" => Step.m > Step.n))
              /\ page' = moved(c)
              /\ ptr' = [ptr EXCEPT ![Step.q] = c]
              /\ kept' = IF Step.kind = "heap" THEN kept + Step.n ELSE kept
              /\ UNCHANGED <<brk, failed>>
         \/ Fails(Step.q) /\ UNCHANGED kept

MprotectStep ==
  /\ At("mprotect") /\ UNCHANGED <<ptr, brk, files, log>>
  /\ \/ /\ ptr[Step.p] # Nowhere
        /\ page' = [page EXCEPT ![ptr[Step.p] + Step.k].prot = Step.prot]
        /\ Advance /\ UNCHANGED failed
     \/ /\ failed' = TRUE /\ UNCHANGED page
        /\ IF Step.checked THEN Leave("error") ELSE Advance

DontneedStep ==
  LET dropped(b) == [page[b] EXCEPT !.at = "none", !.val = "zero"]
  IN  /\ At("dontneed") /\ Advance /\ UNCHANGED <<ptr, brk, kept, files, log, failed>>
      /\ \/ page' = Put(ptr[Step.p], Step.n, dropped) /\ UNCHANGED refused
         \/ refused' = TRUE /\ UNCHANGED page

SwappedOut(b) == IF page[b].at = "frame" THEN [page[b] EXCEPT !.at = "swap"] ELSE page[b]

PageoutStep ==
  /\ At("pageout") /\ Advance /\ UNCHANGED <<ptr, brk, files, log>>
  /\ \/ page' = Put(ptr[Step.p], Step.n, SwappedOut) /\ UNCHANGED failed
     \/ failed' = TRUE /\ UNCHANGED page

(* mlock() brings the pages in and keeps them in; when it fails main()     *)
(* frees p and returns 1.                                                  *)
MlockStep ==
  LET held(b) == [page[b] EXCEPT !.at = "frame", !.locked = TRUE]
  IN  /\ At("mlock") /\ UNCHANGED <<ptr, brk, files, log>>
      /\ \/ page' = Put(ptr[Step.p], Step.n, held) /\ Advance /\ UNCHANGED failed
         \/ page' = Drop(Block(ptr[Step.p])) /\ Leave("error") /\ failed' = TRUE

MunlockStep ==
  LET unheld(b) == [page[b] EXCEPT !.locked = FALSE]
  IN  /\ At("munlock") /\ Advance
      /\ page' = Put(ptr[Step.p], Step.n, unheld)
      /\ UNCHANGED <<ptr, brk, files, log, failed>>
-----------------------------------------------------------------------------
(* The program break, and the buffer that the first printf() allocates:    *)
(* glibc takes it from the break, or from a mapping if sbrk() fails.       *)
SbrkStep ==
  LET new(b) == Page(brk, "brk", "zero")
  IN  /\ At("sbrk") /\ Advance /\ UNCHANGED <<files, log>>
      /\ \/ /\ brk + Step.n <= BrkPages
            /\ page' = Put(brk, Step.n, new)
            /\ ptr' = [ptr EXCEPT ![Step.p] = brk]
            /\ brk' = brk + Step.n
            /\ UNCHANGED failed
         \/ Fails(Step.p)

SbrkBackStep ==
  /\ At("sbrk_back") /\ Advance /\ UNCHANGED <<ptr, files, log>>
  /\ \/ page' = Drop(Span(brk - Step.n, Step.n)) /\ brk' = brk - Step.n /\ UNCHANGED failed
     \/ failed' = TRUE /\ UNCHANGED <<page, brk>>

PrintBreak == /\ At("brk") /\ Advance /\ Shown(brk)
              /\ UNCHANGED <<memory, files, failed>>

PrintfBuffer ==
  LET library(b) == Page(b, "library", "buffer")
  IN  /\ At("printf") /\ Advance /\ UNCHANGED <<ptr, files, log, failed>>
      /\ \/ page' = Put(brk, 1, library) /\ brk' = brk + 1
         \/ \E a \in Room(1) : page' = Put(a, 1, library) /\ UNCHANGED brk
-----------------------------------------------------------------------------
(* Accesses.  A first read of anonymous memory maps the zero page; a write *)
(* to it, or to a private page of a file, makes a copy.                    *)
Mode == [read |-> "r", touch |-> "r", str |-> "r", write |-> "w", exec |-> "x"]
Address == ptr[Step.p] + Step.k
Accesses == end = "running" /\ Step.op \in DOMAIN Mode
Accessible == /\ ptr[Step.p] # Nowhere
              /\ page[Address] # Unmapped
              /\ Mode[Step.op] \in page[Address].prot

Value == LET pg == page[Address]
         IN  IF pg.kind = "shared" \/ (pg.kind = "private" /\ pg.at \in {"none", "cache"})
             THEN file ELSE pg.val

Faulted(ats) == faults' = IF page[Address].at \in ats THEN faults + 1 ELSE faults

Load ==
  /\ Accesses /\ Accessible /\ Step.op # "write" /\ Advance
  /\ page' = [page EXCEPT ![Address].at =
                CASE @ = "none" -> IF page[Address].kind \in {"private", "shared"}
                                   THEN "cache" ELSE "zero"
                  [] @ = "swap" -> "frame"
                  [] OTHER -> @]
  /\ Faulted({"none", "swap"})
  /\ seen' = IF Step.op = "touch" THEN seen ELSE Append(seen, Value)
  /\ UNCHANGED <<ptr, brk, files, counter, failed>>

Store ==
  /\ Accesses /\ Accessible /\ Step.op = "write" /\ Advance
  /\ Faulted({"none", "zero", "swap"} \cup (IF page[Address].kind = "private" THEN {"cache"} ELSE {}))
  /\ IF page[Address].kind = "shared"
     THEN page' = [page EXCEPT ![Address].at = "cache"] /\ file' = Step.v
     ELSE page' = [page EXCEPT ![Address].at = "frame", ![Address].val = Step.v]
            /\ UNCHANGED file
  /\ UNCHANGED <<ptr, brk, fd, counter, seen, failed>>

(* printf("%s", NULL) prints "(null)"; every other bad access is SIGSEGV. *)
PrintNull == /\ At("str") /\ ptr[Step.p] = Nowhere /\ Advance /\ Shown("(null)")
             /\ UNCHANGED <<memory, files, failed>>

BadAccess == /\ Accesses /\ ~Accessible
             /\ ~(Step.op = "str" /\ ptr[Step.p] = Nowhere)
             /\ Segv(FALSE)
             /\ UNCHANGED <<memory, files, log, failed>>

RecurseStep == /\ At("recurse") /\ UNCHANGED <<memory, files, faults, seen, failed>>
               /\ \/ /\ counter < StackFrames
                     /\ counter' = counter + 1
                     /\ UNCHANGED <<program, pc, end, handler>>
                  \/ counter = StackFrames /\ Segv(TRUE) /\ UNCHANGED counter

LandedStep == /\ At("landed") /\ Advance /\ Shown(counter)
              /\ UNCHANGED <<memory, files, failed>>

SigactionStep == /\ At("sigaction")
                 /\ handler' = [how |-> Step.how, alt |-> Step.alt, once |-> Step.once]
                 /\ pc' = pc + 1
                 /\ UNCHANGED <<program, end, memory, files, log, failed>>
-----------------------------------------------------------------------------
(* The file, and what the programs read under /proc.  A failed fopen() is  *)
(* never noticed, and the next call follows a null pointer.                *)
OpenStep ==
  /\ At("open") /\ UNCHANGED <<memory, log>>
  /\ \/ file' = "empty" /\ fd' = TRUE /\ Advance /\ UNCHANGED failed
     \/ /\ failed' = TRUE /\ UNCHANGED files
        /\ IF Step.checked THEN Leave("error") ELSE Advance

WriteFileStep == /\ At("write_file") /\ Advance
                 /\ \/ fd /\ file' = Step.v /\ UNCHANGED failed
                    \/ failed' = TRUE /\ UNCHANGED file
                 /\ UNCHANGED <<memory, fd, log>>

FopenFails == /\ end = "running" /\ Step.op \in {"read_file", "rss", "maps"}
              /\ failed' = TRUE /\ Segv(FALSE)
              /\ UNCHANGED <<memory, files, log>>

ReadFileStep == /\ At("read_file") /\ Advance /\ Shown(file)
                /\ UNCHANGED <<memory, files, failed>>

UnlinkStep == /\ At("unlink") /\ Advance /\ file' = "absent"
              /\ UNCHANGED <<memory, fd, log, failed>>

(* Freed pages that glibc has kept count as well, if they are resident.    *)
RssStep == /\ At("rss") /\ Advance
           /\ LET own == {a \in Addresses : Resident(a) /\ page[a].kind # "library"}
              IN  \E k \in 0 .. kept : Shown(Cardinality(own) + k)
           /\ UNCHANGED <<memory, files, failed>>

MapsStep == /\ At("maps") /\ Advance /\ UNCHANGED <<memory, files, log, failed>>

RusageStep == /\ At("rusage") /\ Advance
              /\ seen' = Append(seen, faults)
              /\ faults' = IF Step.total THEN faults ELSE 0
              /\ UNCHANGED <<memory, files, counter, failed>>

(* pa_of() exits when open() or pread() fails.  The pages of the program   *)
(* itself, its stack, data and text, may be anywhere.                      *)
PagemapStep ==
  /\ At("pagemap") /\ UNCHANGED <<memory, files>>
  /\ \/ /\ Advance /\ UNCHANGED failed
        /\ \E bits \in {"present", "swap", "none"} :
             /\ Step.p # "static" =>
                  bits = CASE page[ptr[Step.p]].at = "frame" -> "present"
                           [] page[ptr[Step.p]].at = "swap" -> "swap"
                           [] OTHER -> "none"
             /\ Shown(bits)
     \/ Leave("error") /\ failed' = TRUE /\ UNCHANGED log

UnreachableStep == /\ At("unreachable") /\ Advance
                   /\ UNCHANGED <<memory, files, log, failed>>
ReturnStep == At("return") /\ Leave("returned") /\ UNCHANGED <<memory, files, log, failed>>

(* The kernel needs memory: page a goes to swap, or back to its file. *)
Reclaim(a) == /\ end = "running"
              /\ Resident(a) /\ ~page[a].locked
              /\ page' = [page EXCEPT ![a].at = IF @ = "frame" THEN "swap" ELSE "none"]
              /\ UNCHANGED <<program, pc, end, ptr, brk, kept, refused, files, handler, log, failed>>

(* The steps that leave alone what glibc keeps and what madvise() refused. *)
PlainStep ==
  \/ GetMemory \/ OverflowStep \/ MmapFileStep \/ MmapFixedStep \/ CheckStep \/ MunmapStep
  \/ MprotectStep \/ PageoutStep \/ MlockStep \/ MunlockStep
  \/ SbrkStep \/ SbrkBackStep \/ PrintBreak \/ PrintfBuffer
  \/ Load \/ Store \/ PrintNull \/ BadAccess \/ RecurseStep \/ LandedStep \/ SigactionStep
  \/ OpenStep \/ WriteFileStep \/ FopenFails \/ ReadFileStep \/ UnlinkStep
  \/ RssStep \/ MapsStep \/ RusageStep \/ PagemapStep \/ UnreachableStep \/ ReturnStep

Process == \/ FreeStep \/ TrimStep \/ ResizeStep \/ DontneedStep
           \/ PlainStep /\ UNCHANGED <<kept, refused>>

Next == Process \/ \E a \in Addresses : Reclaim(a)
-----------------------------------------------------------------------------
(* The programs that use what a call returned without looking at it.       *)
Unchecked == {"map_populate", "madvise_pageout", "ksm_demo", "mlock", "getrusage_demo",
              "pagemap", "malloc_basics", "chunk_layout", "calloc_realloc", "malloc_trim",
              "brk_vs_mmap", "file_mmap", "file_share_write", "madvise_dontneed",
              "lazy_allocation", "overcommit", "alloca_vs_vla", "thp_madvise", "memory_hierarchy"}

(* The only program that a signal may kill when nothing has failed is      *)
(* 10_double_free.c; a failed call kills only the Unchecked ones.  A       *)
(* SIGSEGV handler exits at the access meant to fault ("SIGSEGV here"),    *)
(* which nothing gets past ("unreachable", "never reached"), unless mmap() *)
(* or mprotect() failed before.  No page is writable and executable at     *)
(* once ("W^X: never have W AND X at the same time").                      *)
AccessesAreLegal ==
  /\ TypeOK
  /\ end = "killed" => (failed /\ program \in Unchecked) \/ program = "double_free"
  /\ end = "handled" => failed \/ Script[program][pc + 1] = Unreachable
  /\ end = "running" /\ Step = Unreachable => failed
  /\ \A a \in Addresses : page[a] # Unmapped => ~({"w", "x"} \subseteq page[a].prot)

(* What each program may print of what it reads, in order: the contents    *)
(* its own text names, pages resident, page faults, depth of recursion.    *)
Some == 0 .. Large
Dropped(n) == IF refused THEN Some ELSE {n}
Blank == IF refused THEN {"1"} ELSE {"zero"}
Promised ==
  [pagesize |-> <<{"a..z"}>>,
   lazy_allocation |-> <<{0}, {0}, {0}, Some, Dropped(0), {0}>>,
   count_page_faults |-> <<{0}, {Large}, Some, Dropped(Large)>>,
   pagemap |-> [k \in 1 .. 6 |-> {"present", "swap"} \cup (IF k \in {4, 5} THEN {} ELSE {"none"})],
   recursion_depth |-> <<{StackFrames}>>,
   stack_overflow |-> <<{StackFrames}>>,
   malloc_basics |-> <<{"junk"}, {"zero"}>>,
   calloc_realloc |-> <<{"zero"}, {"(nil)"}, {"1234567"}, {"1234567", "(null)"},
                        {"1234567", "(null)", "junk"}>>,
   malloc_trim |-> <<{0}, 0 .. 2, 0 .. 2, {0}>>,
   anon_mmap |-> <<{"zero"}, {"zero"}, {"hello mmap"}>>,
   file_mmap |-> <<{"hello"}, {"Hello"}, {"hello"}>>,
   file_share_write |-> <<{"AA"}, {"BA"}>>,
   madvise_dontneed |-> <<{0}, Some, Dropped(0), Blank, Blank, Dropped(0)>>,
   mremap |-> <<{"marker"}, {"marker"}, {"marker"}>>,
   fixed_noreplace |-> <<{"mapped", "EEXIST", "failed"}, {"EEXIST", "failed"}>>,
   brk_directly |-> <<{0}, {2, 3}, 0 .. 3>>,
   mlock |-> <<{0}, Some, {Large}, Some>>,
   madvise_pageout |-> <<Some, Some, {"0xAA"}, Some>>,
   overcommit |-> <<{0}, {0, 1}>>,
   getrusage_demo |-> <<{0}, {Large}, Large .. 2 * Large, Large .. 2 * Large>>,
   mprotect_jit |-> <<{"code"}>>]

(* Whatever the kernel swaps out in between and wherever it puts a         *)
(* mapping, a program prints what it says: fresh and dropped pages are     *)
(* zero, a marker survives mremap(), a private write stays out of the file *)
(* and a shared one reaches it, locked pages are all resident, and no      *)
(* second mapping gets past MAP_FIXED_NOREPLACE.                           *)
PrintsAsPromised == \A k \in DOMAIN seen : seen[k] \in Promised[program][k]

(* A program that returns 0 has given back what it took: every mapping and *)
(* every block, the file, and the break down to what sbrk() had returned.  *)
(* realloc(), when p = realloc(p, n) loses the only pointer to a block,    *)
(* and a failed sbrk() are the exceptions.                                 *)
NothingLeft ==
  end = "returned" =>
    /\ file = "absent" /\ ~fd
    /\ \/ /\ \A a \in Addresses : page[a] # Unmapped => page[a].kind = "library"
          /\ program = "brk_directly" => brk = ptr["got"]
       \/ failed /\ program \in {"malloc_basics", "calloc_realloc", "brk_directly"}
       \/ failed /\ program = "mprotect_guard" \* its guard was never raised

(* A mapping that is not the program's own, such as the buffer of printf() *)
(* in 09_map_fixed_noreplace.c, is never replaced, written or unmapped.    *)
NothingClobbered ==
  [][\A a \in Addresses : page[a].kind = "library" =>
       page'[a].kind = "library" /\ page'[a].val = page[a].val]_vars

(* 02_brk_directly.c prints that the break it ends with "should equal      *)
(* initial".                                                               *)
BreakIsInitial ==
  program = "brk_directly" /\ end = "returned" /\ ~failed => seen[3] = seen[1]
=============================================================================
