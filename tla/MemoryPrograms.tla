--------------------------- MODULE MemoryPrograms ---------------------------
(***************************************************************************)
(* What the memory programs of the tutorial ask of the C library and the   *)
(* kernel: main() of each, as the sequence of its steps.  AddressSpace     *)
(* says what a step does.                                                  *)
(*                                                                         *)
(* A step is kept when it changes memory, a file or a signal disposition,  *)
(* when it may fault or fail, and when it prints something it has read.    *)
(* A size is a number of pages; a loop is the sequence of its rounds; all  *)
(* bytes of a page a program writes together are one label.  Advice that   *)
(* only tunes (MADV_HUGEPAGE, MADV_MERGEABLE, mallopt), hot loops, sleeps  *)
(* and timings change none of these and have no step.                      *)
(***************************************************************************)
EXTENDS Integers, Sequences

CONSTANT Large \* pages of a large region (4 MiB to 256 GiB in the programs)

LargeAssumption == Large \in Nat \ {0, 1}

RW == {"r", "w"}
-----------------------------------------------------------------------------
(* The steps.  p names the pointer variable a step uses. *)
Get(p, n, kind, val, touched) ==
  [op |-> "get", p |-> p, n |-> n, kind |-> kind, val |-> val, touched |-> touched]
Mmap(p, n) == Get(p, n, "map", "zero", FALSE)
MmapPopulate(p, n) == Get(p, n, "map", "zero", TRUE)
Malloc(p, n) == Get(p, n, "heap", "junk", FALSE)
Calloc(p, n) == Get(p, n, "heap", "zero", FALSE)

MmapFile(p, kind) == [op |-> "mmap_file", p |-> p, kind |-> kind]
MmapFixed(p, at, flag) == [op |-> "mmap_fixed", p |-> p, at |-> at, flag |-> flag]
(* q = mremap(p) or q = realloc(p), from n pages to m. *)
Resize(q, p, n, m, kind) ==
  [op |-> "resize", q |-> q, p |-> p, n |-> n, m |-> m, kind |-> kind]
(* if (p == MAP_FAILED) return 1; *)
Check(p) == [op |-> "check", p |-> p]
Munmap(p, n) == [op |-> "munmap", p |-> p, n |-> n]
Free(p) == [op |-> "free", p |-> p]
Mprotect(p, k, prot, checked) ==
  [op |-> "mprotect", p |-> p, k |-> k, prot |-> prot, checked |-> checked]
Dontneed(p, n) == [op |-> "dontneed", p |-> p, n |-> n]
Pageout(p, n) == [op |-> "pageout", p |-> p, n |-> n]
Mlock(p, n) == [op |-> "mlock", p |-> p, n |-> n]
Munlock(p, n) == [op |-> "munlock", p |-> p, n |-> n]
Sbrk(p, n) == [op |-> "sbrk", p |-> p, n |-> n]
SbrkBack(n) == [op |-> "sbrk_back", n |-> n]

(* Accesses to page k of p: Read prints or keeps what it finds, Touch not; *)
(* Str is printf("%s", p), which prints "(null)" for a null pointer.       *)
Read(p, k) == [op |-> "read", p |-> p, k |-> k]
Touch(p, k) == [op |-> "touch", p |-> p, k |-> k]
Str(p) == [op |-> "str", p |-> p, k |-> 0]
Write(p, k, v) == [op |-> "write", p |-> p, k |-> k, v |-> v]
Exec(p) == [op |-> "exec", p |-> p, k |-> 0]
WriteAll(p, n, v) == [k \in 1 .. n |-> Write(p, k - 1, v)]
TouchAll(p, n) == [k \in 1 .. n |-> Touch(p, k - 1)]

Open(checked) == [op |-> "open", checked |-> checked]
WriteFile(v) == [op |-> "write_file", v |-> v]
Do(op) == [op |-> op]
ReadFile == Do("read_file") \* fopen(), fread(), fclose()
Unlink == Do("unlink")
Trim == Do("trim")          \* malloc_trim(0)
Overflow == Do("overflow")  \* calloc((size_t)-1 / 2, 4), printed
Rss == Do("rss")            \* VmRSS from /proc/self/status
Maps == Do("maps")          \* the text of /proc/self/maps or smaps
Brk == Do("brk")            \* sbrk(0), printed
(* getrusage(): the page faults so far, or since the last time. *)
Rusage(total) == [op |-> "rusage", total |-> total]
Pagemap(p) == [op |-> "pagemap", p |-> p]
Printf == Do("printf")      \* the first output, which allocates its buffer
Recurse == Do("recurse")
Landed == Do("landed")      \* sigsetjmp() has returned a second time
Unreachable == Do("unreachable")
Return == Do("return")
Sigaction(how, alt, once) ==
  [op |-> "sigaction", how |-> how, alt |-> alt, once |-> once]

(* Arrays of pointers, of 4 to 1000 in the programs. *)
small == <<"small[0]", "small[1]">>
big == <<"big[0]", "big[1]">>
MallocAll(ps) == [k \in DOMAIN ps |-> Malloc(ps[k], 1)]
FreeAll(ps) == [k \in DOMAIN ps |-> Free(ps[k])]

Pointers == {"p", "q", "r", "a", "b", "heap", "anon", "got", "NULL", "static"}
              \cup {small[k] : k \in DOMAIN small} \cup {big[k] : k \in DOMAIN big}
-----------------------------------------------------------------------------
(* 01_virtual_memory *)
pagesize == <<Mmap("p", 1), Check("p"), Write("p", 0, "a..z"), Read("p", 0),
              Munmap("p", 1), Return>>

lazy_allocation ==
  <<Rss, Mmap("p", Large), Check("p"), Rss>> \o TouchAll("p", Large) \o <<Rss>>
    \o WriteAll("p", Large, "i") \o <<Rss, Dontneed("p", Large), Rss,
    Munmap("p", Large), Rss, Return>>

count_page_faults ==
  <<Mmap("p", Large), Check("p"), Rusage(FALSE)>> \o WriteAll("p", Large, "1") \o <<Rusage(FALSE)>>
    \o TouchAll("p", Large) \o <<Rusage(FALSE), Dontneed("p", Large)>> \o TouchAll("p", Large)
    \o <<Rusage(FALSE), Munmap("p", Large), Return>>

pagemap ==
  <<Malloc("heap", 1), Write("heap", 0, "1"), Mmap("anon", 1), Write("anon", 0, "1"),
    Pagemap("static"), Pagemap("static"), Pagemap("static"), Pagemap("heap"),
    Pagemap("anon"), Pagemap("static"), Free("heap"), Munmap("anon", 1), Return>>

(* 02_process_address_space and 03_stack *)
segments_addresses ==
  <<Malloc("heap", 1), Mmap("anon", 1), Free("heap"), Munmap("anon", 1), Return>>

alloca_vs_vla == <<Malloc("p", 1), Write("p", 0, "M"), Free("p"), Return>>

recursion_depth == <<Sigaction("jump", TRUE, FALSE), Recurse, Return, Landed, Return>>

(* A mistake for the mutation runs: no stack of its own for the handler. *)
HandlerOnSameStack == <<Sigaction("jump", FALSE, TRUE), Recurse, Return, Landed, Return>>

stack_overflow == <<Sigaction("jump", TRUE, TRUE), Recurse, Return, Landed, Return>>

(* 04_heap_malloc, and 05_mallinfo_dump.c of 12_debugging_tools.  Where    *)
(* the addresses lie that these print is glibc's choice and left out.      *)
malloc_basics ==
  <<Malloc("a", 1), Read("a", 0), Calloc("b", 1), Read("b", 0),
    Resize("a", "a", 1, 2, "heap"), Write("a", 0, "aaa"), Write("a", 1, "aaa"),
    Resize("a", "a", 2, Large, "heap"), Free("a"), Free("b"), Free("NULL"),
    Malloc("r", 1), Free("r"), Return>>

chunk_layout ==
  <<Malloc("p", 1), Touch("p", 0), Malloc("q", 1), Touch("q", 0),
    Malloc("r", Large), Touch("r", 0), Free("p"), Free("q"), Free("r"), Return>>

brk_vs_mmap == MallocAll(small) \o MallocAll(big) \o <<Maps>>
                 \o <<Free(small[1]), Free(big[1]), Free(small[2]), Free(big[2]), Return>>

mallopt_tuning == MallocAll(big) \o FreeAll(big) \o <<Malloc("q", 1), Free("q"), Return>>

mallinfo == MallocAll(small) \o FreeAll(small) \o <<Malloc("r", Large), Free("r"), Return>>

alignment == <<Malloc("p", 1), Free("p"), Malloc("p", 1), Free("p"), Malloc("p", 1), Free("p"),
               Malloc("p", 1), Free("p"), Malloc("p", 1), Free("p"), Return>>

calloc_realloc ==
  <<Calloc("a", 1), Read("a", 0), Free("a"), Overflow,
    Malloc("p", 1), Write("p", 0, "1234567"), Str("p"),
    Resize("p", "p", 1, 1, "heap"), Str("p"), Resize("p", "p", 1, Large, "heap"), Str("p"),
    Free("p"), Malloc("q", 1), Free("q"), Return>>

double_free == <<Malloc("p", 1), Free("p"), Free("p"), Unreachable, Return>>

malloc_trim == <<Rss>> \o MallocAll(big) \o [k \in DOMAIN big |-> Write(big[k], 0, "1")]
                 \o <<Rss>> \o FreeAll(big) \o <<Rss, Trim, Rss, Return>>

mallinfo_dump == MallocAll(small) \o FreeAll(small) \o <<Return>>
-----------------------------------------------------------------------------
(* 05_mmap *)
anon_mmap ==
  <<Mmap("p", Large), Check("p"), Read("p", 0), Read("p", Large - 1),
    Write("p", 0, "hello mmap"), Read("p", 0), Munmap("p", Large), Return>>

(* A mistake for the mutation runs: MAP_SHARED. *)
MapsFileShared ==
  <<Open(TRUE), WriteFile("hello"), MmapFile("p", "shared"), Check("p"), Read("p", 0),
    Write("p", 0, "Hello"), Read("p", 0), ReadFile, Munmap("p", 1), Unlink, Return>>

file_mmap ==
  <<Open(TRUE), WriteFile("hello"), MmapFile("p", "private"), Check("p"), Read("p", 0),
    Write("p", 0, "Hello"), Read("p", 0), ReadFile, Munmap("p", 1), Unlink, Return>>

file_share_write ==
  <<Open(FALSE), WriteFile("AA"), MmapFile("p", "shared"), Check("p"), Read("p", 0),
    Write("p", 0, "BA"), ReadFile, Munmap("p", 1), Unlink, Return>>

(* A mistake for the mutation runs: the handler returns. *)
HandlerReturns ==
  <<Mmap("p", 3), Mprotect("p", 2, {}, FALSE), Mprotect("p", 0, {}, FALSE),
    Sigaction("return", FALSE, FALSE), Write("p", 1, "0x42"), Write("p", 2, "X"),
    Unreachable, Return>>

(* The mprotect() of line 41 lacks its length; the next two are the ones   *)
(* that make the guards.                                                   *)
mprotect_guard ==
  <<Mmap("p", 3), Mprotect("p", 2, {}, FALSE), Mprotect("p", 0, {}, FALSE),
    Sigaction("exit", FALSE, FALSE), Write("p", 1, "0x42"), Write("p", 2, "X"),
    Unreachable, Return>>

madvise_dontneed ==
  <<Mmap("p", Large), Check("p"), Rss>> \o WriteAll("p", Large, "1") \o <<Rss,
    Dontneed("p", Large), Rss, Read("p", 0), Read("p", 1), Rss, Munmap("p", Large), Return>>

(* A mistake for the mutation runs: the address before the move is unmapped. *)
UnmapsOldAddress ==
  <<Mmap("p", 2), Check("p"), Write("p", 0, "marker"), Read("p", 0),
    Resize("q", "p", 2, Large, "map"), Check("q"), Read("q", 0),
    Resize("r", "q", Large, 1, "map"), Check("r"), Read("r", 0), Munmap("p", 1), Return>>

mremap ==
  <<Mmap("p", 2), Check("p"), Write("p", 0, "marker"), Read("p", 0),
    Resize("q", "p", 2, Large, "map"), Check("q"), Read("q", 0),
    Resize("r", "q", Large, 1, "map"), Check("r"), Read("r", 0), Munmap("r", 1), Return>>

map_populate ==
  <<Mmap("p", Large)>> \o WriteAll("p", Large, "1") \o WriteAll("p", Large, "1")
    \o <<Munmap("p", Large), MmapPopulate("p", Large)>> \o WriteAll("p", Large, "1")
    \o <<Munmap("p", Large), Return>>

(* A mistake for the mutation runs: MAP_FIXED. *)
MapsOverOthers ==
  <<Mmap("p", 1), Munmap("p", 1), Printf, MmapFixed("q", "p", "FIXED"), Check("q"),
    MmapFixed("r", "p", "FIXED"), Munmap("q", 1), Return>>

fixed_noreplace ==
  <<Mmap("p", 1), Munmap("p", 1), Printf, MmapFixed("q", "p", "NOREPLACE"), Check("q"),
    MmapFixed("r", "p", "NOREPLACE"), Munmap("q", 1), Return>>

(* 06_brk_sbrk *)
program_break ==
  <<Malloc("p", 1), Malloc("q", 1), Malloc("r", Large), Free("p"), Free("q"), Free("r"), Return>>

brk_directly ==
  <<Brk, Printf, Sbrk("got", 2), Check("got"), Brk>> \o WriteAll("got", 2, "A")
    \o <<SbrkBack(2), Brk, Return>>
-----------------------------------------------------------------------------
(* 07_paging_swapping and 04_getrusage_demo.c of 12_debugging_tools *)
mlock == <<Rss, Malloc("p", Large)>> \o WriteAll("p", Large, "1") \o <<Rss, Mlock("p", Large), Rss,
           Munlock("p", Large), Rss, Free("p"), Return>>

madvise_pageout ==
  <<Mmap("p", Large)>> \o WriteAll("p", Large, "0xAA") \o <<Rss, Pageout("p", Large), Rss,
    Read("p", 1), Rss, Munmap("p", Large), Return>>

overcommit == <<Mmap("p", Large), Check("p"), Rss, Write("p", 0, "0x42"), Rss,
                Munmap("p", Large), Return>>

getrusage_demo == <<Rusage(TRUE), Malloc("p", Large)>> \o WriteAll("p", Large, "1") \o <<Rusage(TRUE)>>
                    \o TouchAll("p", Large) \o <<Rusage(TRUE), Free("p"), Rusage(TRUE), Return>>

(* 11_memory_protection *)
mprotect_jit ==
  <<Mmap("p", 1), Check("p"), Write("p", 0, "code"), Mprotect("p", 0, {"r", "x"}, TRUE),
    Exec("p"), Munmap("p", 1), Return>>

segfault_handler == <<Sigaction("exit", TRUE, FALSE), Write("NULL", 0, "42"),
                      Unreachable, Return>>

w_xor_x == <<Sigaction("exit", FALSE, FALSE), Mmap("p", 1), Write("p", 0, "ret"), Exec("p"),
             Unreachable, Return>>

(* 13_advanced *)
thp_madvise == <<Mmap("p", Large), Check("p")>> \o WriteAll("p", Large, "0x41")
                 \o <<Maps, Munmap("p", Large), Return>>

hugetlb_mmap == <<Mmap("p", 1), Check("p"), Write("p", 0, "0x42"), Munmap("p", 1), Return>>

ksm_demo == <<Mmap("a", 2), Mmap("b", 2)>> \o WriteAll("a", 2, "0xAA")
              \o WriteAll("b", 2, "0xAA") \o <<Munmap("a", 2), Munmap("b", 2), Return>>

(* 00_fundamentals/01_memory_hierarchy.c is in PointerChase. *)
memory_hierarchy == <<Do("measure"), Return>>

Script ==
  [pagesize |-> pagesize, lazy_allocation |-> lazy_allocation,
   count_page_faults |-> count_page_faults, pagemap |-> pagemap,
   segments_addresses |-> segments_addresses, alloca_vs_vla |-> alloca_vs_vla,
   recursion_depth |-> recursion_depth, stack_overflow |-> stack_overflow,
   malloc_basics |-> malloc_basics, chunk_layout |-> chunk_layout,
   brk_vs_mmap |-> brk_vs_mmap, mallopt_tuning |-> mallopt_tuning, mallinfo |-> mallinfo,
   alignment |-> alignment,
   calloc_realloc |-> calloc_realloc, double_free |-> double_free,
   malloc_trim |-> malloc_trim, mallinfo_dump |-> mallinfo_dump, anon_mmap |-> anon_mmap,
   file_mmap |-> file_mmap, file_share_write |-> file_share_write,
   mprotect_guard |-> mprotect_guard, madvise_dontneed |-> madvise_dontneed,
   mremap |-> mremap, map_populate |-> map_populate, fixed_noreplace |-> fixed_noreplace,
   program_break |-> program_break, brk_directly |-> brk_directly, mlock |-> mlock,
   madvise_pageout |-> madvise_pageout, overcommit |-> overcommit,
   getrusage_demo |-> getrusage_demo, mprotect_jit |-> mprotect_jit,
   segfault_handler |-> segfault_handler, w_xor_x |-> w_xor_x, thp_madvise |-> thp_madvise,
   hugetlb_mmap |-> hugetlb_mmap, ksm_demo |-> ksm_demo,
   memory_hierarchy |-> memory_hierarchy]

Programs == DOMAIN Script
=============================================================================
