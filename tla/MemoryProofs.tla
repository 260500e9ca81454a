---------------------------- MODULE MemoryProofs ----------------------------
(***************************************************************************)
(* The memory programs, for address spaces, regions and buffers of any     *)
(* size: that each script is a sequence of harmless steps that ends with a *)
(* return, which step is which, and that the steps go with what Holdings   *)
(* says the program holds.  00_fundamentals/01_memory_hierarchy.c: the     *)
(* pointer chase goes through all slots of its buffer, whatever the        *)
(* shuffle.  All 39 programs: they stay in their scripts and their address *)
(* spaces, have no page to be both written and run, and never take the     *)
(* page with the output buffer from the C library.  Then what a step does  *)
(* to what a program holds, and to the protection of its pages.            *)
(***************************************************************************)
EXTENDS Promises, SequenceTheorems, FiniteSetTheorems, WellFoundedInduction, TLAPS

(* Addresses are numbers. *)
LEMMA AddressesAre ==
  /\ BrkPages \in Nat /\ BrkPages >= 3 /\ MapPages \in Nat /\ Large \in Nat /\ Large >= 2
  /\ MapPages > Large + 2
  /\ Addresses \subseteq Int /\ MapArea \subseteq Addresses /\ Nowhere \notin Addresses
  /\ \A b : b \in Addresses <=> b \in Int /\ 0 <= b /\ b <= BrkPages + MapPages - 1
  /\ \A b : b \in MapArea <=> b \in Int /\ BrkPages <= b /\ b <= BrkPages + MapPages - 1
BY MemoryAssumption DEF AddressAssumption, LargeAssumption, Addresses, MapArea, Nowhere

(* Steps that make no library page and none to be written and run, and     *)
(* those of them that make, move or print nothing and do not jump.         *)
Tame(st) == /\ st.op \in {"get", "resize", "mmap_file"} => st.kind # "library"
            /\ st.op = "mprotect" => ~ ({"w", "x"} \subseteq st.prot)
Plain(st) == /\ Tame(st)
             /\ st.op \notin {"printf", "resize", "mmap_fixed", "sbrk", "sbrk_back"}
             /\ st.op = "sigaction" => st.how # "jump"

(* Sequences of such steps, and those that end with a return. *)
Body(s) == \E n \in Nat : /\ s = [k \in 1 .. n |-> s[k]] /\ Len(s) = n
                          /\ \A k \in 1 .. n : Plain(s[k])
Ends(s) == Body(s) /\ s # <<>> /\ s[Len(s)].op = "return"

(* The steps of the programs but for printf() and siglongjmp(). *)
LEMMA StepsArePlain ==
  /\ \A p, n : Plain(Mmap(p, n)) /\ Plain(MmapPopulate(p, n)) /\ Plain(Malloc(p, n))
               /\ Plain(Calloc(p, n)) /\ Plain(Munmap(p, n)) /\ Plain(Dontneed(p, n))
               /\ Plain(Pageout(p, n)) /\ Plain(Mlock(p, n)) /\ Plain(Munlock(p, n))
               /\ Plain(Read(p, n)) /\ Plain(Touch(p, n))
  /\ \A p : Plain(MmapFile(p, "private")) /\ Plain(MmapFile(p, "shared"))
            /\ Plain(Check(p)) /\ Plain(Free(p)) /\ Plain(Str(p)) /\ Plain(Exec(p))
            /\ Plain(Pagemap(p)) /\ Plain(Open(p)) /\ Plain(WriteFile(p))
            /\ Plain(Rusage(p))
  /\ \A p, k, v : Plain(Write(p, k, v))
  /\ \A p, k, c : Plain(Mprotect(p, k, {}, c)) /\ Plain(Mprotect(p, k, {"r", "x"}, c))
  /\ \A a, o : Plain(Sigaction("exit", a, o))
  /\ Plain(ReadFile) /\ Plain(Unlink) /\ Plain(Trim) /\ Plain(Rss) /\ Plain(Maps) /\ Plain(Brk)
  /\ Plain(Unreachable) /\ Plain(Return) /\ Plain(Do("measure")) /\ Return.op = "return"
<1> USE DEF Plain, Tame
<1>1. \A p, n : Plain(Mmap(p, n)) /\ Plain(MmapPopulate(p, n)) /\ Plain(Malloc(p, n))
               /\ Plain(Calloc(p, n)) 
  BY DEF Mmap, MmapPopulate, Malloc, Calloc, Get
<1>2. \A p, n : Plain(Munmap(p, n)) /\ Plain(Dontneed(p, n))
               /\ Plain(Pageout(p, n)) /\ Plain(Mlock(p, n)) /\ Plain(Munlock(p, n))
               /\ Plain(Read(p, n)) /\ Plain(Touch(p, n))
  BY DEF Munmap, Dontneed, Pageout, Mlock, Munlock, Read, Touch
<1>3. \A p : Plain(MmapFile(p, "private")) /\ Plain(MmapFile(p, "shared"))
            /\ Plain(Check(p)) /\ Plain(Free(p)) /\ Plain(Str(p)) /\ Plain(Exec(p))
            /\ Plain(Pagemap(p)) /\ Plain(Open(p)) /\ Plain(WriteFile(p))
            /\ Plain(Rusage(p))
  BY DEF MmapFile, Check, Free, Str, Exec, Pagemap, Open, WriteFile, Rusage
<1>4. \A p, k, v : Plain(Write(p, k, v))
  BY DEF Write
<1>6. \A p, k, c : Plain(Mprotect(p, k, {}, c)) /\ Plain(Mprotect(p, k, {"r", "x"}, c))
  BY DEF Mprotect
<1>7. \A a, o : Plain(Sigaction("exit", a, o))
  BY DEF Sigaction
<1>8. /\ Plain(ReadFile) /\ Plain(Unlink) /\ Plain(Trim) /\ Plain(Rss) /\ Plain(Maps) /\ Plain(Brk)
      /\ Plain(Unreachable) /\ Plain(Return) /\ Plain(Do("measure")) /\ Return.op = "return"
  BY DEF ReadFile, Unlink, Trim, Rss, Maps, Brk, Unreachable, Return, Do
<1> HIDE DEF Plain, Tame
<1> QED BY <1>1, <1>2, <1>3, <1>4, <1>6, <1>7, <1>8, Zenon

(* Bodies one after the other are one, and end as the last one does. *)
LEMMA BodiesJoin ==
  ASSUME NEW s, NEW t, Body(s), Body(t)
  PROVE  Body(s \o t) /\ (Ends(t) => Ends(s \o t))
<1>1. PICK n \in Nat : s = [k \in 1 .. n |-> s[k]] /\ Len(s) = n /\
      \A k \in 1 .. n : Plain(s[k])
  BY DEF Body
<1>2. PICK m \in Nat : t = [k \in 1 .. m |-> t[k]] /\ Len(t) = m /\
      \A k \in 1 .. m : Plain(t[k])
  BY DEF Body
<1> DEFINE u == s \o t
<1> DEFINE S == {s[k] : k \in 1 .. n} \cup {t[k] : k \in 1 .. m}
<1>9. s \in Seq(S) /\ t \in Seq(S)
  <2>1. ASSUME NEW v, NEW l \in Nat, v = [k \in 1 .. l |-> v[k]], \A k \in 1 .. l : v[k] \in S
        PROVE  v \in Seq(S)
    BY <2>1
  <2> QED BY <1>1, <1>2, <2>1
<1> HIDE DEF S
<1>3. /\ u \in Seq(S) /\ Len(u) = n + m
      /\ \A k \in 1 .. n + m : u[k] = IF k <= n THEN s[k] ELSE t[k - n]
  BY <1>1, <1>2, <1>9, ConcatProperties
<1> HIDE DEF u
<1>4. u = [k \in 1 .. n + m |-> u[k]]
  BY <1>3
<1>5. Len(u) = n + m
  BY <1>3
<1>6. \A k \in 1 .. n + m : Plain(u[k])
  <2> TAKE k \in 1 .. n + m
  <2>1. CASE k <= n
    BY <1>1, <1>3, <2>1
  <2>2. CASE k > n
    <3>1. k - n \in 1 .. m /\ ~ (k <= n)
      BY <2>2
    <3>2. u[k] = t[k - n]
      BY <1>3, <3>1
    <3> QED BY <1>2, <3>1, <3>2
  <2> QED BY <2>1, <2>2
<1>7. Body(u)
  BY <1>4, <1>5, <1>6 DEF Body
<1>8. ASSUME Ends(t) PROVE Ends(u)
  <2>1. t # <<>> /\ t[m].op = "return"
    BY <1>2, <1>8 DEF Ends
  <2>2. m # 0
    BY <1>2, <1>8 DEF Ends
  <2>3. u[n + m] = t[m] /\ n + m # 0
    BY <1>3, <2>2
  <2>4. u # <<>>
    BY <1>5, <2>3
  <2> QED BY <1>5, <1>7, <2>1, <2>3, <2>4 DEF Ends
<1> QED BY <1>7, <1>8 DEF u

(* The loops over the pages of a region and over an array of pointers are  *)
(* bodies.                                                                 *)
LEMMA Loops ==
  /\ \A p, v : \A n \in Nat : Body(WriteAll(p, n, v)) /\ Body(TouchAll(p, n))
  /\ Body(MallocAll(small)) /\ Body(MallocAll(big)) /\ Body(FreeAll(small)) /\ Body(FreeAll(big))
<1>1. ASSUME NEW n \in Nat, NEW s, s = [k \in 1 .. n |-> s[k]], \A k \in 1 .. n : Plain(s[k])
      PROVE  Body(s)
  <2>1. Len(s) = n
    BY <1>1
  <2> QED BY <1>1, <2>1 DEF Body
<1>2. ASSUME NEW p, NEW v, NEW n \in Nat PROVE Body(WriteAll(p, n, v)) /\ Body(TouchAll(p, n))
  BY <1>1, StepsArePlain DEF WriteAll, TouchAll
<1>3. /\ Body(MallocAll(small)) /\ Body(MallocAll(big)) /\ Body(FreeAll(small)) /\ Body(FreeAll(big))
  <2>1. DOMAIN small = 1 .. 2 /\ DOMAIN big = 1 .. 2 /\ 2 \in Nat
    BY DEF small, big
  <2> QED BY <1>1, <2>1, StepsArePlain DEF MallocAll, FreeAll
<1> QED BY <1>2, <1>3

(* The scripts without loops: plain steps, and a return at the end. *)
LEMMA ShortScripts ==
  /\ Ends(pagesize) /\ Ends(pagemap) /\ Ends(segments_addresses) /\ Ends(alloca_vs_vla)
  /\ Ends(chunk_layout) /\ Ends(alignment) /\ Ends(double_free) /\ Ends(program_break)
  /\ Ends(overcommit) /\ Ends(hugetlb_mmap) /\ Ends(memory_hierarchy)
<1> USE StepsArePlain DEF Body, Ends
<1>1. Ends(pagesize)
  BY DEF pagesize
<1>2. Ends(pagemap)
  BY DEF pagemap
<1>3. Ends(segments_addresses)
  BY DEF segments_addresses
<1>4. Ends(alloca_vs_vla)
  BY DEF alloca_vs_vla
<1>5. Ends(chunk_layout)
  BY DEF chunk_layout
<1>6. Ends(alignment)
  BY DEF alignment
<1>7. Ends(double_free)
  BY DEF double_free
<1>8. Ends(program_break)
  BY DEF program_break
<1>9. Ends(overcommit)
  BY DEF overcommit
<1>10. Ends(hugetlb_mmap)
  BY DEF hugetlb_mmap
<1>11. Ends(memory_hierarchy)
  BY DEF memory_hierarchy
<1> HIDE StepsArePlain DEF Body, Ends
<1> QED BY <1>1, <1>2, <1>3, <1>4, <1>5, <1>6, <1>7, <1>8, <1>9, <1>10, <1>11

(* The scripts with steps that have a flag or a protection: plain, and with*)
(* a return at the end.                                                    *)
LEMMA FlaggedScripts ==
  /\ Ends(anon_mmap) /\ Ends(file_mmap) /\ Ends(file_share_write) /\ Ends(mprotect_guard)
  /\ Ends(mprotect_jit) /\ Ends(segfault_handler) /\ Ends(w_xor_x)
<1>0. PICK open, unchecked, guard0, guard2, exec, alt, same, last :
        /\ open = Open(TRUE) /\ unchecked = Open(FALSE)
        /\ guard0 = Mprotect("p", 0, {}, FALSE) /\ guard2 = Mprotect("p", 2, {}, FALSE)
        /\ exec = Mprotect("p", 0, {"r", "x"}, TRUE)
        /\ alt = Sigaction("exit", TRUE, FALSE) /\ same = Sigaction("exit", FALSE, FALSE)
        /\ last = Read("p", Large - 1)
  BY Zenon
<1>1. /\ Plain(open) /\ Plain(unchecked) /\ Plain(guard0) /\ Plain(guard2) /\ Plain(exec)
      /\ Plain(alt) /\ Plain(same) /\ Plain(last)
  BY <1>0, StepsArePlain, Zenon
<1> DEFINE
     Anon == <<Mmap("p", Large), Check("p"), Read("p", 0), last,
               Write("p", 0, "hello mmap"), Read("p", 0), Munmap("p", Large), Return>>
     File == <<open, WriteFile("hello"), MmapFile("p", "private"), Check("p"), Read("p", 0),
               Write("p", 0, "Hello"), Read("p", 0), ReadFile, Munmap("p", 1), Unlink, Return>>
     Share == <<unchecked, WriteFile("AA"), MmapFile("p", "shared"), Check("p"), Read("p", 0),
                Write("p", 0, "BA"), ReadFile, Munmap("p", 1), Unlink, Return>>
     Guard == <<Mmap("p", 3), guard2, guard0, same, Write("p", 1, "0x42"), Write("p", 2, "X"),
                Unreachable, Return>>
     Jit == <<Mmap("p", 1), Check("p"), Write("p", 0, "code"), exec, Exec("p"),
              Munmap("p", 1), Return>>
     Segfault == <<alt, Write("NULL", 0, "42"), Unreachable, Return>>
     WorX == <<same, Mmap("p", 1), Write("p", 0, "ret"), Exec("p"), Unreachable, Return>>
<1>2. /\ anon_mmap = Anon /\ file_mmap = File /\ file_share_write = Share
      /\ mprotect_guard = Guard /\ mprotect_jit = Jit /\ segfault_handler = Segfault
      /\ w_xor_x = WorX
  BY <1>0, Zenon DEF anon_mmap, file_mmap, file_share_write, mprotect_guard, mprotect_jit,
     segfault_handler, w_xor_x
<1>3. Ends(Anon)
  <2>1. PICK hello : hello = Write("p", 0, "hello mmap")
    BY Zenon
  <2>2. Plain(hello)
    BY <2>1, StepsArePlain, Zenon
  <2>3. Ends(<<Mmap("p", Large), Check("p"), Read("p", 0), last, hello, Read("p", 0),
               Munmap("p", Large), Return>>)
    BY <1>1, <2>2, StepsArePlain DEF Body, Ends
  <2> QED BY <2>1, <2>3, Zenon
<1>8. Ends(Jit)
  BY <1>1, StepsArePlain DEF Body, Ends
<1>4. Ends(File)
  BY <1>1, StepsArePlain DEF Body, Ends
<1>5. Ends(Share)
  BY <1>1, StepsArePlain DEF Body, Ends
<1>6. Ends(Guard)
  BY <1>1, StepsArePlain DEF Body, Ends
<1>7. Ends(Segfault) /\ Ends(WorX)
  BY <1>1, StepsArePlain DEF Body, Ends
<1> QED BY <1>2, <1>3, <1>4, <1>5, <1>6, <1>7, <1>8, Zenon

(* A script of several bodies ends as its last piece does. *)
LEMMA Pieces ==
  ASSUME NEW a, NEW b, NEW c, NEW d, NEW e, NEW f, NEW z,
         Body(a), Body(b), Body(c), Body(d), Body(e), Body(f), Ends(z)
  PROVE  /\ Ends(a \o b \o z) /\ Ends(a \o b \o c \o z) /\ Ends(a \o b \o c \o d \o z)
         /\ Ends(a \o b \o c \o d \o e \o z) /\ Ends(a \o b \o c \o d \o e \o f \o z)
<1>0. Body(z)
  BY DEF Ends
<1>1. PICK ab : ab = a \o b /\ Body(ab)
  BY BodiesJoin
<1>2. PICK abc : abc = ab \o c /\ Body(abc)
  BY <1>1, BodiesJoin
<1>3. PICK abcd : abcd = abc \o d /\ Body(abcd)
  BY <1>2, BodiesJoin
<1>4. PICK abcde : abcde = abcd \o e /\ Body(abcde)
  BY <1>3, BodiesJoin
<1>5. PICK abcdef : abcdef = abcde \o f /\ Body(abcdef)
  BY <1>4, BodiesJoin
<1>6. Ends(ab \o z) /\ Ends(abc \o z) /\ Ends(abcd \o z) /\ Ends(abcde \o z) /\
      Ends(abcdef \o z)
  BY <1>0, <1>1, <1>2, <1>3, <1>4, <1>5, BodiesJoin
<1> QED BY <1>1, <1>2, <1>3, <1>4, <1>5, <1>6, Zenon

(* The scripts with loops, in pieces. *)
LEMMA LongScripts ==
  /\ Ends(lazy_allocation) /\ Ends(count_page_faults) /\ Ends(brk_vs_mmap)
  /\ Ends(mallopt_tuning) /\ Ends(mallinfo) /\ Ends(malloc_trim) /\ Ends(mallinfo_dump)
  /\ Ends(madvise_dontneed) /\ Ends(map_populate) /\ Ends(mlock) /\ Ends(madvise_pageout)
  /\ Ends(getrusage_demo) /\ Ends(thp_madvise) /\ Ends(ksm_demo)
<1>1. PICK count, total : count = Rusage(FALSE) /\ total = Rusage(TRUE)
  BY Zenon
<1>2. Plain(count) /\ Plain(total)
  BY <1>1, StepsArePlain, Zenon
<1>3. /\ Body(TouchAll("p", Large)) /\ \A v : Body(WriteAll("p", Large, v))
      /\ \A p, v : Body(WriteAll(p, 2, v))
  BY MemoryAssumption, Loops DEF LargeAssumption
<1>4. Ends(lazy_allocation)
  <2>1. Body(<<Rss, Mmap("p", Large), Check("p"), Rss>>) /\ Body(<<Rss>>)
    BY <1>2, StepsArePlain DEF Body
  <2>2. Ends(<<Rss, Dontneed("p", Large), Rss, Munmap("p", Large), Rss, Return>>)
    BY <1>2, StepsArePlain DEF Body, Ends
  <2> QED BY <1>1, <1>3, <2>1, <2>2, Loops, Pieces, Zenon DEF lazy_allocation
<1>5. Ends(count_page_faults)
  <2>1. Body(<<Mmap("p", Large), Check("p"), count>>) /\ Body(<<count>>) /\
        Body(<<count, Dontneed("p", Large)>>)
    BY <1>2, StepsArePlain DEF Body
  <2>2. Ends(<<count, Munmap("p", Large), Return>>)
    BY <1>2, StepsArePlain DEF Body, Ends
  <2>3. Ends(<<Mmap("p", Large), Check("p"), count>> \o WriteAll("p", Large, "1") \o <<count>>
                \o TouchAll("p", Large) \o <<count, Dontneed("p", Large)>> \o TouchAll("p", Large)
                \o <<count, Munmap("p", Large), Return>>)
    BY <1>3, <2>1, <2>2, Pieces, Zenon
  <2> QED BY <1>1, <2>3, Zenon DEF count_page_faults
<1>6. Ends(brk_vs_mmap)
  <2>1. Body(<<Maps>>)
    BY <1>2, StepsArePlain DEF Body
  <2>2. Ends(<<Free(small[1]), Free(big[1]), Free(small[2]), Free(big[2]), Return>>)
    BY <1>2, StepsArePlain DEF Body, Ends
  <2> QED BY <1>1, <1>3, <2>1, <2>2, Loops, Pieces, Zenon DEF brk_vs_mmap
<1>7. Ends(mallopt_tuning)
  <2>2. Ends(<<Malloc("q", 1), Free("q"), Return>>)
    BY <1>2, StepsArePlain DEF Body, Ends
  <2> QED BY <1>1, <1>3, <2>2, Loops, Pieces, Zenon DEF mallopt_tuning
<1>8. Ends(mallinfo)
  <2>2. Ends(<<Malloc("r", Large), Free("r"), Return>>)
    BY <1>2, StepsArePlain DEF Body, Ends
  <2> QED BY <1>1, <1>3, <2>2, Loops, Pieces, Zenon DEF mallinfo
<1>9. Ends(malloc_trim)
  <2>0. Body([k \in DOMAIN big |-> Write(big[k], 0, "1")])
    <3>1. DOMAIN big = 1 .. 2
      BY DEF big
    <3> QED BY <3>1, StepsArePlain DEF Body
  <2>1. Body(<<Rss>>)
    BY <1>2, StepsArePlain DEF Body
  <2>2. Ends(<<Rss, Trim, Rss, Return>>)
    BY <1>2, StepsArePlain DEF Body, Ends
  <2> QED BY <1>1, <1>3, <2>0, <2>1, <2>2, Loops, Pieces, Zenon DEF malloc_trim
<1>10. Ends(mallinfo_dump)
  <2>2. Ends(<<Return>>)
    BY <1>2, StepsArePlain DEF Body, Ends
  <2> QED BY <1>1, <1>3, <2>2, Loops, Pieces, Zenon DEF mallinfo_dump
<1>11. Ends(madvise_dontneed)
  <2>1. Body(<<Mmap("p", Large), Check("p"), Rss>>)
    BY <1>2, StepsArePlain DEF Body
  <2>2. Ends(<<Rss, Dontneed("p", Large), Rss, Read("p", 0), Read("p", 1), Rss, Munmap("p", Large), Return>>)
    BY <1>2, StepsArePlain DEF Body, Ends
  <2> QED BY <1>1, <1>3, <2>1, <2>2, Loops, Pieces, Zenon DEF madvise_dontneed
<1>12. Ends(map_populate)
  <2>1. Body(<<Mmap("p", Large)>>) /\ Body(<<Munmap("p", Large), MmapPopulate("p", Large)>>)
    BY <1>2, StepsArePlain DEF Body
  <2>2. Ends(<<Munmap("p", Large), Return>>)
    BY <1>2, StepsArePlain DEF Body, Ends
  <2> QED BY <1>1, <1>3, <2>1, <2>2, Loops, Pieces, Zenon DEF map_populate
<1>13. Ends(mlock)
  <2>1. Body(<<Rss, Malloc("p", Large)>>)
    BY <1>2, StepsArePlain DEF Body
  <2>2. Ends(<<Rss, Mlock("p", Large), Rss, Munlock("p", Large), Rss, Free("p"), Return>>)
    BY <1>2, StepsArePlain DEF Body, Ends
  <2> QED BY <1>1, <1>3, <2>1, <2>2, Loops, Pieces, Zenon DEF mlock
<1>14. Ends(madvise_pageout)
  <2>1. Body(<<Mmap("p", Large)>>)
    BY <1>2, StepsArePlain DEF Body
  <2>2. Ends(<<Rss, Pageout("p", Large), Rss, Read("p", 1), Rss, Munmap("p", Large), Return>>)
    BY <1>2, StepsArePlain DEF Body, Ends
  <2> QED BY <1>1, <1>3, <2>1, <2>2, Loops, Pieces, Zenon DEF madvise_pageout
<1>15. Ends(getrusage_demo)
  <2>1. Body(<<total, Malloc("p", Large)>>) /\ Body(<<total>>)
    BY <1>2, StepsArePlain DEF Body
  <2>2. Ends(<<total, Free("p"), total, Return>>)
    BY <1>2, StepsArePlain DEF Body, Ends
  <2> QED BY <1>1, <1>3, <2>1, <2>2, Loops, Pieces, Zenon DEF getrusage_demo
<1>16. Ends(thp_madvise)
  <2>1. Body(<<Mmap("p", Large), Check("p")>>)
    BY <1>2, StepsArePlain DEF Body
  <2>2. Ends(<<Maps, Munmap("p", Large), Return>>)
    BY <1>2, StepsArePlain DEF Body, Ends
  <2> QED BY <1>1, <1>3, <2>1, <2>2, Loops, Pieces, Zenon DEF thp_madvise
<1>17. Ends(ksm_demo)
  <2>1. Body(<<Mmap("a", 2), Mmap("b", 2)>>)
    BY <1>2, StepsArePlain DEF Body
  <2>2. Ends(<<Munmap("a", 2), Munmap("b", 2), Return>>)
    BY <1>2, StepsArePlain DEF Body, Ends
  <2> QED BY <1>1, <1>3, <2>1, <2>2, Loops, Pieces, Zenon DEF ksm_demo
<1> QED BY <1>4, <1>5, <1>6, <1>7, <1>8, <1>9, <1>10, <1>11, <1>12, <1>13, <1>14, <1>15, <1>16,
           <1>17
-----------------------------------------------------------------------------
(* The scripts by name. *)
LEMMA ScriptOf ==
  /\ Programs = {"pagesize", "lazy_allocation", "count_page_faults", "pagemap",
                 "segments_addresses", "alloca_vs_vla", "recursion_depth",
                 "stack_overflow", "malloc_basics", "chunk_layout", "brk_vs_mmap",
                 "mallopt_tuning", "mallinfo", "alignment", "calloc_realloc",
                 "double_free", "malloc_trim", "mallinfo_dump", "anon_mmap",
                 "file_mmap", "file_share_write", "mprotect_guard", "madvise_dontneed",
                 "mremap", "map_populate", "fixed_noreplace", "program_break",
                 "brk_directly", "mlock", "madvise_pageout", "overcommit",
                 "getrusage_demo", "mprotect_jit", "segfault_handler", "w_xor_x",
                 "thp_madvise", "hugetlb_mmap", "ksm_demo", "memory_hierarchy"}
  /\ Script["pagesize"] = pagesize /\ Script["lazy_allocation"] = lazy_allocation
  /\ Script["count_page_faults"] = count_page_faults /\ Script["pagemap"] = pagemap
  /\ Script["segments_addresses"] = segments_addresses
  /\ Script["alloca_vs_vla"] = alloca_vs_vla
  /\ Script["recursion_depth"] = recursion_depth
  /\ Script["stack_overflow"] = stack_overflow
  /\ Script["malloc_basics"] = malloc_basics /\ Script["chunk_layout"] = chunk_layout
  /\ Script["brk_vs_mmap"] = brk_vs_mmap /\ Script["mallopt_tuning"] = mallopt_tuning
  /\ Script["mallinfo"] = mallinfo /\ Script["alignment"] = alignment
  /\ Script["calloc_realloc"] = calloc_realloc /\ Script["double_free"] = double_free
  /\ Script["malloc_trim"] = malloc_trim /\ Script["mallinfo_dump"] = mallinfo_dump
  /\ Script["anon_mmap"] = anon_mmap /\ Script["file_mmap"] = file_mmap
  /\ Script["file_share_write"] = file_share_write
  /\ Script["mprotect_guard"] = mprotect_guard
  /\ Script["madvise_dontneed"] = madvise_dontneed /\ Script["mremap"] = mremap
  /\ Script["map_populate"] = map_populate
  /\ Script["fixed_noreplace"] = fixed_noreplace
  /\ Script["program_break"] = program_break /\ Script["brk_directly"] = brk_directly
  /\ Script["mlock"] = mlock /\ Script["madvise_pageout"] = madvise_pageout
  /\ Script["overcommit"] = overcommit /\ Script["getrusage_demo"] = getrusage_demo
  /\ Script["mprotect_jit"] = mprotect_jit
  /\ Script["segfault_handler"] = segfault_handler /\ Script["w_xor_x"] = w_xor_x
  /\ Script["thp_madvise"] = thp_madvise /\ Script["hugetlb_mmap"] = hugetlb_mmap
  /\ Script["ksm_demo"] = ksm_demo /\ Script["memory_hierarchy"] = memory_hierarchy
BY DEF Programs, Script

(* The scripts with a printf() or a resize that matters, and those that    *)
(* jump, step by step.                                                     *)
LEMMA FixedScript ==
  /\ DOMAIN fixed_noreplace = 1 .. 8
  /\ fixed_noreplace[1] = Mmap("p", 1) /\ fixed_noreplace[2] = Munmap("p", 1)
  /\ fixed_noreplace[3] = Printf
  /\ fixed_noreplace[4] = MmapFixed("q", "p", "NOREPLACE")
  /\ fixed_noreplace[5] = Check("q")
  /\ fixed_noreplace[6] = MmapFixed("r", "p", "NOREPLACE")
  /\ fixed_noreplace[7] = Munmap("q", 1) /\ fixed_noreplace[8] = Return
BY DEF fixed_noreplace

(* 01_malloc_basics.c *)
LEMMA BasicsScript ==
  /\ DOMAIN malloc_basics = 1 .. 14
  /\ malloc_basics[1] = Malloc("a", 1) /\ malloc_basics[2] = Read("a", 0)
  /\ malloc_basics[3] = Calloc("b", 1) /\ malloc_basics[4] = Read("b", 0)
  /\ malloc_basics[5] = Resize("a", "a", 1, 2, "heap")
  /\ malloc_basics[6] = Write("a", 0, "aaa")
  /\ malloc_basics[7] = Write("a", 1, "aaa")
  /\ malloc_basics[8] = Resize("a", "a", 2, Large, "heap")
  /\ malloc_basics[9] = Free("a") /\ malloc_basics[10] = Free("b")
  /\ malloc_basics[11] = Free("NULL") /\ malloc_basics[12] = Malloc("r", 1)
  /\ malloc_basics[13] = Free("r") /\ malloc_basics[14] = Return
BY DEF malloc_basics

(* 07_calloc_realloc.c *)
LEMMA ReallocScript ==
  /\ DOMAIN calloc_realloc = 1 .. 15
  /\ calloc_realloc[1] = Calloc("a", 1) /\ calloc_realloc[2] = Read("a", 0)
  /\ calloc_realloc[3] = Free("a") /\ calloc_realloc[4] = Overflow
  /\ calloc_realloc[5] = Malloc("p", 1)
  /\ calloc_realloc[6] = Write("p", 0, "1234567") /\ calloc_realloc[7] = Str("p")
  /\ calloc_realloc[8] = Resize("p", "p", 1, 1, "heap")
  /\ calloc_realloc[9] = Str("p")
  /\ calloc_realloc[10] = Resize("p", "p", 1, Large, "heap")
  /\ calloc_realloc[11] = Str("p") /\ calloc_realloc[12] = Free("p")
  /\ calloc_realloc[13] = Malloc("q", 1) /\ calloc_realloc[14] = Free("q")
  /\ calloc_realloc[15] = Return
BY DEF calloc_realloc

(* 07_mremap.c *)
LEMMA MremapScript ==
  /\ DOMAIN mremap = 1 .. 12
  /\ mremap[1] = Mmap("p", 2) /\ mremap[2] = Check("p")
  /\ mremap[3] = Write("p", 0, "marker") /\ mremap[4] = Read("p", 0)
  /\ mremap[5] = Resize("q", "p", 2, Large, "map") /\ mremap[6] = Check("q")
  /\ mremap[7] = Read("q", 0) /\ mremap[8] = Resize("r", "q", Large, 1, "map")
  /\ mremap[9] = Check("r") /\ mremap[10] = Read("r", 0)
  /\ mremap[11] = Munmap("r", 1) /\ mremap[12] = Return
BY DEF mremap

(* Two sequences, one after the other. *)
LEMMA JoinIs ==
  ASSUME NEW S, NEW s \in Seq(S), NEW t \in Seq(S), NEW u, u = s \o t
  PROVE  /\ u \in Seq(S) /\ Len(u) = Len(s) + Len(t)
         /\ \A i \in 1 .. Len(s) + Len(t) : u[i] = IF i <= Len(s) THEN s[i] ELSE t[i - Len(s)]
BY ConcatProperties

(* 02_brk_directly.c *)
LEMMA BreakScript ==
  /\ DOMAIN brk_directly = 1 .. 10
  /\ brk_directly[1] = Brk /\ brk_directly[2] = Printf
  /\ brk_directly[3] = Sbrk("got", 2) /\ brk_directly[4] = Check("got")
  /\ brk_directly[5] = Brk /\ brk_directly[6] = Write("got", 0, "A")
  /\ brk_directly[7] = Write("got", 1, "A") /\ brk_directly[8] = SbrkBack(2)
  /\ brk_directly[9] = Brk /\ brk_directly[10] = Return
<1>1. PICK a, w, z : /\ a = <<Brk, Printf, Sbrk("got", 2), Check("got"), Brk>>
                     /\ w = <<Write("got", 0, "A"), Write("got", 1, "A")>>
                     /\ z = <<SbrkBack(2), Brk, Return>>
  BY Zenon
<1>2. WriteAll("got", 2, "A") = w
  BY <1>1 DEF WriteAll
<1>3. PICK u, v : u = a \o w /\ v = u \o z
  BY Zenon
<1>4. brk_directly = v
  BY <1>1, <1>2, <1>3, Zenon DEF brk_directly
<1>5. PICK S : /\ a \in Seq(S) /\ w \in Seq(S) /\ z \in Seq(S)
  <2> DEFINE S == {a[1], a[2], a[3], a[4], a[5], w[1], w[2], z[1], z[2], z[3]}
  <2>1. a \in Seq(S) /\ w \in Seq(S) /\ z \in Seq(S)
    BY <1>1
  <2> HIDE DEF S
  <2> QED BY <2>1
<1>6. Len(a) = 5 /\ Len(w) = 2 /\ Len(z) = 3
  BY <1>1
<1>7. /\ u \in Seq(S) /\ Len(u) = Len(a) + Len(w)
      /\ \A i \in 1 .. Len(a) + Len(w) : u[i] = IF i <= Len(a) THEN a[i] ELSE w[i - Len(a)]
  BY <1>3, <1>5, JoinIs
<1>8. /\ v \in Seq(S) /\ Len(v) = Len(u) + Len(z)
      /\ \A i \in 1 .. Len(u) + Len(z) : v[i] = IF i <= Len(u) THEN u[i] ELSE z[i - Len(u)]
  BY <1>3, <1>5, <1>7, JoinIs
<1>9. Len(u) = 7 /\ \A i \in 1 .. 7 : u[i] = IF i <= 5 THEN a[i] ELSE w[i - 5]
  BY <1>6, <1>7
<1>10. Len(v) = 10 /\ \A i \in 1 .. 10 : v[i] = IF i <= 7 THEN u[i] ELSE z[i - 7]
  BY <1>6, <1>8, <1>9
<1>11. DOMAIN v = 1 .. 10
  <2>1. v \in Seq(S) /\ Len(v) = 10
    BY <1>8, <1>10
  <2> QED BY <2>1
<1>12. /\ v[1] = a[1] /\ v[2] = a[2] /\ v[3] = a[3] /\ v[4] = a[4] /\ v[5] = a[5]
       /\ v[6] = w[1] /\ v[7] = w[2] /\ v[8] = z[1] /\ v[9] = z[2] /\ v[10] = z[3]
  BY <1>9, <1>10
<1>13. /\ a[1] = Brk /\ a[2] = Printf /\ a[3] = Sbrk("got", 2) /\ a[4] = Check("got")
       /\ a[5] = Brk /\ w[1] = Write("got", 0, "A") /\ w[2] = Write("got", 1, "A")
       /\ z[1] = SbrkBack(2) /\ z[2] = Brk /\ z[3] = Return
  BY <1>1
<1> QED BY <1>4, <1>11, <1>12, <1>13

(* 02_recursion_depth.c and 04_stack_overflow.c *)
LEMMA JumpScripts ==
  ASSUME NEW q \in Jumpers
  PROVE  /\ DOMAIN Script[q] = 1 .. 5
         /\ Script[q][1].op = "sigaction" /\ Script[q][2] = Recurse /\ Script[q][3] = Return
         /\ Script[q][4] = Landed /\ Script[q][5] = Return
BY ScriptOf DEF Jumpers, recursion_depth, stack_overflow, Sigaction

(* A program but for these: plain steps and a return. *)
LEMMA PlainScripts ==
  ASSUME NEW q \in Programs, q \notin Printers, q \notin Jumpers, q \notin Resizers
  PROVE  Ends(Script[q])
BY ScriptOf, ShortScripts, FlaggedScripts, LongScripts DEF Printers, Jumpers, Resizers

(* What is known of a step of a program: another one follows it unless it  *)
(* is a return, and those that are not plain occur in few programs.        *)
LEMMA StepFacts ==
  ASSUME NEW q \in Programs, NEW k \in DOMAIN Script[q], NEW st, st = Script[q][k]
  PROVE  /\ k \in Nat
         /\ st.op # "return" => k + 1 \in DOMAIN Script[q]
         /\ Tame(st)
         /\ st.op = "sigaction" /\ st.how = "jump" => q \in Jumpers
         /\ st.op = "printf" => q \in Printers
         /\ st.op = "mmap_fixed" => q = "fixed_noreplace"
         /\ st.op \in {"sbrk", "sbrk_back"} => q = "brk_directly"
         /\ st.op = "resize" => q \in Resizers
<1>1. CASE q \notin Printers /\ q \notin Jumpers /\ q \notin Resizers
  <2>1. Ends(Script[q])
    BY <1>1, PlainScripts
  <2>2. PICK n \in Nat : /\ Script[q] = [j \in 1 .. n |-> Script[q][j]] /\ Len(Script[q]) = n
                         /\ \A j \in 1 .. n : Plain(Script[q][j])
    BY <2>1 DEF Ends, Body
  <2>3. Script[q][n].op = "return"
    BY <2>1, <2>2 DEF Ends
  <2>4. DOMAIN Script[q] = 1 .. n
    BY <2>2
  <2>5. k \in 1 .. n /\ Plain(st)
    BY <2>2, <2>4
  <2>6. st.op # "return" => k + 1 \in 1 .. n
    BY <2>3, <2>5
  <2> QED BY <2>4, <2>5, <2>6 DEF Plain
<1>2. CASE q \in Jumpers
  <2>1. DOMAIN Script[q] = 1 .. 5 /\ k \in 1 .. 5
    BY <1>2, JumpScripts
  <2>2. st.op \in {"sigaction", "recurse", "landed", "return"} /\ (k = 5 => st.op = "return")
    BY <1>2, <2>1, JumpScripts DEF Recurse, Return, Landed, Do
  <2> QED BY <1>2, <2>1, <2>2 DEF Tame
<1>3. CASE q \in Resizers
  <2>1. CASE q = "malloc_basics"
    <3>1. Script[q] = malloc_basics
      BY <2>1, ScriptOf
    <3>2. k \in 1 .. 14
      BY <3>1, BasicsScript
    <3>3. /\ st.op \in {"get", "read", "resize", "write", "free", "return"}
          /\ Tame(st) /\ (k = 14 => st.op = "return")
      BY <3>1, <3>2, BasicsScript
         DEF Tame, Malloc, Calloc, Get, Read, Resize, Write, Free, Return, Do
    <3> QED BY <1>3, <3>1, <3>2, <3>3, BasicsScript
  <2>2. CASE q = "calloc_realloc"
    <3>1. Script[q] = calloc_realloc
      BY <2>2, ScriptOf
    <3>2. k \in 1 .. 15
      BY <3>1, ReallocScript
    <3>3. /\ st.op \in {"get", "read", "resize", "write", "str", "free", "overflow", "return"}
          /\ Tame(st) /\ (k = 15 => st.op = "return")
      BY <3>1, <3>2, ReallocScript
         DEF Tame, Malloc, Calloc, Get, Read, Resize, Write, Str, Free, Overflow, Return, Do
    <3> QED BY <1>3, <3>1, <3>2, <3>3, ReallocScript
  <2>3. CASE q = "mremap"
    <3>1. Script[q] = mremap
      BY <2>3, ScriptOf
    <3>2. k \in 1 .. 12
      BY <3>1, MremapScript
    <3>3. /\ st.op \in {"get", "check", "read", "resize", "write", "munmap", "return"}
          /\ Tame(st) /\ (k = 12 => st.op = "return")
      BY <3>1, <3>2, MremapScript
         DEF Tame, Mmap, Get, Check, Read, Resize, Write, Munmap, Return, Do
    <3> QED BY <1>3, <3>1, <3>2, <3>3, MremapScript
  <2> QED BY <1>3, <2>1, <2>2, <2>3 DEF Resizers
<1>4. CASE q = "fixed_noreplace"
  <2>1. Script[q] = fixed_noreplace
    BY <1>4, ScriptOf
  <2>2. k \in 1 .. 8
    BY <2>1, FixedScript
  <2>3. /\ st.op \in {"get", "munmap", "printf", "mmap_fixed", "check", "return"}
        /\ Tame(st) /\ (k = 8 => st.op = "return")
    BY <2>1, <2>2, FixedScript
       DEF Tame, Mmap, Get, Munmap, Printf, MmapFixed, Check, Return, Do
  <2> QED BY <1>4, <2>1, <2>2, <2>3, FixedScript DEF Printers
<1>5. CASE q = "brk_directly"
  <2>1. Script[q] = brk_directly
    BY <1>5, ScriptOf
  <2>2. k \in 1 .. 10
    BY <2>1, BreakScript
  <2>3. /\ st.op \in {"brk", "printf", "sbrk", "check", "write", "sbrk_back", "return"}
        /\ Tame(st) /\ (k = 10 => st.op = "return")
    BY <2>1, <2>2, BreakScript
       DEF Tame, Brk, Printf, Sbrk, Check, Write, SbrkBack, Return, Do
  <2> QED BY <1>5, <2>1, <2>2, <2>3, BreakScript DEF Printers
<1> QED BY <1>1, <1>2, <1>3, <1>4, <1>5 DEF Printers

(* siglongjmp() comes to the place after sigsetjmp(). *)
LEMMA LandingIs ==
  ASSUME program \in Jumpers
  PROVE  Landing \in DOMAIN Script[program]
<1>1. 4 \in DOMAIN Script[program] /\ Script[program][4].op = "landed"
  BY JumpScripts DEF Landed, Do
<1> QED BY <1>1, Zenon DEF Landing
-----------------------------------------------------------------------------
(* A sequence of n steps. *)
Runs(s, n) == s = [k \in 1 .. n |-> s[k]]

(* w is the n steps of s followed by the m steps of t. *)
Glued(w, s, n, t, m) == /\ Runs(w, n + m)
                        /\ \A k \in 1 .. n : w[k] = s[k]
                        /\ \A k \in n + 1 .. n + m : w[k] = t[k - n]

(* Two sequences, one after the other. *)
LEMMA GlueTwo ==
  ASSUME NEW s, NEW t, NEW n \in Nat, NEW m \in Nat, Runs(s, n), Runs(t, m)
  PROVE  Glued(s \o t, s, n, t, m)
<1>1. s = [k \in 1 .. n |-> s[k]]
  BY DEF Runs
<1>2. t = [k \in 1 .. m |-> t[k]]
  BY DEF Runs
<1>8. Len(s) = n /\ Len(t) = m
  BY <1>1, <1>2
<1> DEFINE u == s \o t
<1> DEFINE S == {s[k] : k \in 1 .. n} \cup {t[k] : k \in 1 .. m}
<1>9. s \in Seq(S) /\ t \in Seq(S)
  <2>1. ASSUME NEW v, NEW l \in Nat, v = [k \in 1 .. l |-> v[k]], \A k \in 1 .. l : v[k] \in S
        PROVE  v \in Seq(S)
    BY <2>1
  <2> QED BY <1>1, <1>2, <2>1
<1> HIDE DEF S
<1>3. /\ u \in Seq(S) /\ Len(u) = n + m
      /\ \A k \in 1 .. n + m : u[k] = IF k <= n THEN s[k] ELSE t[k - n]
  BY <1>8, <1>9, ConcatProperties
<1> HIDE DEF u
<1>4. u = [k \in 1 .. n + m |-> u[k]]
  BY <1>3
<1>5. \A k \in 1 .. n : u[k] = s[k]
  BY <1>3
<1>6. \A k \in n + 1 .. n + m : u[k] = t[k - n]
  <2> TAKE k \in n + 1 .. n + m
  <2>1. k \in 1 .. n + m /\ ~ (k <= n)
    OBVIOUS
  <2> QED BY <1>3, <2>1
<1>7. Runs(u, n + m)
  BY <1>4, Zenon DEF Runs
<1>10. Glued(u, s, n, t, m)
  BY <1>5, <1>6, <1>7, Zenon DEF Glued
<1> QED BY <1>10 DEF u

Joined(w, s, t) == w = s \o t

(* In w, the n steps of r come after the first o. *)
In(w, o, r, n) == \A k \in o + 1 .. o + n : w[k] = r[k - o]

(* The steps of two sequences are those of the whole. *)
LEMMA GlueOn ==
  ASSUME NEW s, NEW t, NEW w, NEW n \in Nat, NEW m \in Nat, Runs(s, n), Runs(t, m), Joined(w, s, t)
  PROVE  /\ Runs(w, n + m) /\ In(w, 0, s, n) /\ In(w, n, t, m)
         /\ \A r : \A o, i \in Nat : In(s, o, r, i) /\ o + i <= n => In(w, o, r, i)
<1>1. Glued(w, s, n, t, m)
  BY GlueTwo, Zenon DEF Joined
<1>2. Runs(w, n + m)
  BY <1>1 DEF Glued
<1>3. /\ \A k \in 1 .. n : w[k] = s[k]
      /\ \A k \in n + 1 .. n + m : w[k] = t[k - n]
  BY <1>1 DEF Glued
<1>4. In(w, 0, s, n)
  BY <1>3 DEF In
<1>5. In(w, n, t, m)
  BY <1>3, Zenon DEF In
<1>6. ASSUME NEW o \in Nat, NEW i \in Nat, NEW r, In(s, o, r, i), o + i <= n
      PROVE  In(w, o, r, i)
  BY <1>3, <1>6 DEF In
<1> QED BY <1>2, <1>4, <1>5, <1>6

(* A script of three pieces. *)
LEMMA Glue3 ==
  ASSUME NEW a, NEW b, NEW c, NEW u2, NEW u3,
         NEW n1 \in Nat, NEW n2 \in Nat, NEW n3 \in Nat,
         Runs(a, n1), Runs(b, n2), Runs(c, n3),
         Joined(u2, a, b), Joined(u3, u2, c)
  PROVE  /\ Runs(u3, n1 + n2 + n3)
         /\ In(u3, 0, a, n1)
         /\ In(u3, n1, b, n2)
         /\ In(u3, n1 + n2, c, n3)
<1>1. /\ Runs(u2, n1 + n2) /\ In(u2, 0, a, n1) /\ In(u2, n1, b, n2)
  BY GlueOn
<1>2. PICK m \in Nat : m = n1 + n2
  OBVIOUS
<1>3. Runs(u2, m)
  BY <1>1, <1>2
<1>4. /\ Runs(u3, m + n3) /\ In(u3, m, c, n3)
      /\ \A r : \A o, i \in Nat : In(u2, o, r, i) /\ o + i <= m => In(u3, o, r, i)
  BY <1>3, GlueOn, Zenon
<1>5. In(u3, 0, a, n1)
  <2>1. 0 \in Nat /\ 0 + n1 <= m
    BY <1>2
  <2> QED BY <1>1, <1>4, <2>1
<1>6. In(u3, n1, b, n2)
  <2>1. n1 \in Nat /\ n1 + n2 <= m
    BY <1>2
  <2> QED BY <1>1, <1>4, <2>1
<1> QED BY <1>2, <1>4, <1>5, <1>6

(* A script of four pieces. *)
LEMMA Glue4 ==
  ASSUME NEW a, NEW b, NEW c, NEW d, NEW u2, NEW u3, NEW u4,
         NEW n1 \in Nat, NEW n2 \in Nat, NEW n3 \in Nat, NEW n4 \in Nat,
         Runs(a, n1), Runs(b, n2), Runs(c, n3), Runs(d, n4),
         Joined(u2, a, b), Joined(u3, u2, c), Joined(u4, u3, d)
  PROVE  /\ Runs(u4, n1 + n2 + n3 + n4)
         /\ In(u4, 0, a, n1)
         /\ In(u4, n1, b, n2)
         /\ In(u4, n1 + n2, c, n3)
         /\ In(u4, n1 + n2 + n3, d, n4)
<1>1. /\ Runs(u3, n1 + n2 + n3)
      /\ In(u3, 0, a, n1)
      /\ In(u3, n1, b, n2)
      /\ In(u3, n1 + n2, c, n3)
  BY Glue3, Zenon
<1>2. PICK m \in Nat : m = n1 + n2 + n3
  OBVIOUS
<1>3. Runs(u3, m)
  BY <1>1, <1>2
<1>4. /\ Runs(u4, m + n4) /\ In(u4, m, d, n4)
      /\ \A r : \A o, i \in Nat : In(u3, o, r, i) /\ o + i <= m => In(u4, o, r, i)
  BY <1>3, GlueOn, Zenon
<1>5. In(u4, 0, a, n1)
  <2>1. 0 \in Nat /\ 0 + n1 <= m
    BY <1>2
  <2> QED BY <1>1, <1>4, <2>1
<1>6. In(u4, n1, b, n2)
  <2>1. n1 \in Nat /\ n1 + n2 <= m
    BY <1>2
  <2> QED BY <1>1, <1>4, <2>1
<1>7. In(u4, n1 + n2, c, n3)
  <2>1. n1 + n2 \in Nat /\ n1 + n2 + n3 <= m
    BY <1>2
  <2> QED BY <1>1, <1>4, <2>1
<1> QED BY <1>2, <1>4, <1>5, <1>6, <1>7

(* What is in a part of the script is in the script. *)
LEMMA InIn ==
  ASSUME NEW w, NEW s, NEW r, NEW o \in Nat, NEW i \in Nat, NEW m \in Nat,
         In(w, 0, s, m), In(s, o, r, i), o + i <= m
  PROVE  In(w, o, r, i)
<1> SUFFICES ASSUME NEW k \in o + 1 .. o + i PROVE w[k] = r[k - o]
  BY DEF In
<1>1. k \in 0 + 1 .. 0 + m /\ k - 0 = k
  OBVIOUS
<1> QED BY <1>1 DEF In

(* The steps after the first o are the rounds of a loop over n pages of p. *)
Touching(w, o, n, p) == \A k \in o + 1 .. o + n : w[k] = Touch(p, k - (o + 1))
Writing(w, o, n, p, v) == \A k \in o + 1 .. o + n : w[k] = Write(p, k - (o + 1), v)

(* What a loop does in its rounds. *)
LEMMA LoopSteps ==
  ASSUME NEW w, NEW o \in Nat, NEW n \in Nat, NEW p, NEW v
  PROVE  /\ In(w, o, TouchAll(p, n), n) => Touching(w, o, n, p)
         /\ In(w, o, WriteAll(p, n, v), n) => Writing(w, o, n, p, v)
<1> SUFFICES ASSUME NEW k \in o + 1 .. o + n
             PROVE  /\ In(w, o, TouchAll(p, n), n) => w[k] = Touch(p, k - (o + 1))
                    /\ In(w, o, WriteAll(p, n, v), n) => w[k] = Write(p, k - (o + 1), v)
  BY Zenon DEF Touching, Writing
<1>1. PICK j \in 1 .. n : j = k - o /\ j - 1 = k - (o + 1)
  OBVIOUS
<1>2. \A s : In(w, o, s, n) => w[k] = s[j]
  BY <1>1 DEF In
<1>3. /\ TouchAll(p, n)[j] = Touch(p, j - 1) /\ WriteAll(p, n, v)[j] = Write(p, j - 1, v)
  BY Zenon DEF TouchAll, WriteAll
<1> QED BY <1>1, <1>2, <1>3
-----------------------------------------------------------------------------
(* A large region has two pages or more. *)
LEMMA LargeIs == Large \in Nat /\ Large >= 2
BY AddressesAre

(* 01_virtual_memory/02_lazy_allocation.c, step by step. *)
LEMMA LazyAllocationScript ==
  /\ DOMAIN lazy_allocation = 1 .. 2 * Large + 11
  /\ lazy_allocation[1] = Rss
  /\ lazy_allocation[2] = Mmap("p", Large)
  /\ lazy_allocation[3] = Check("p")
  /\ lazy_allocation[4] = Rss
  /\ \A k \in 5 .. Large + 4 : lazy_allocation[k] = Touch("p", k - 5)
  /\ lazy_allocation[Large + 5] = Rss
  /\ \A k \in Large + 6 .. 2 * Large + 5 : lazy_allocation[k] = Write("p", k - Large - 6, "i")
  /\ lazy_allocation[2 * Large + 6] = Rss
  /\ lazy_allocation[2 * Large + 7] = Dontneed("p", Large)
  /\ lazy_allocation[2 * Large + 8] = Rss
  /\ lazy_allocation[2 * Large + 9] = Munmap("p", Large)
  /\ lazy_allocation[2 * Large + 10] = Rss
  /\ lazy_allocation[2 * Large + 11] = Return
<1>1. PICK a, b, c, d, e, u2, u3, u4, u5 :
        /\ a = <<Rss, Mmap("p", Large), Check("p"), Rss>>
        /\ b = TouchAll("p", Large)
        /\ c = <<Rss>>
        /\ d = WriteAll("p", Large, "i")
        /\ e = <<Rss, Dontneed("p", Large), Rss, Munmap("p", Large), Rss, Return>>
        /\ Joined(u2, a, b) /\ Joined(u3, u2, c) /\ Joined(u4, u3, d) /\ Joined(u5, u4, e)
        /\ lazy_allocation = u5
  BY Zenon DEF lazy_allocation, Joined
<1>2. Joined(u2, a, b) /\ Joined(u3, u2, c) /\ Joined(u4, u3, d) /\ Joined(u5, u4, e) /\
      lazy_allocation = u5
  BY <1>1
<1>3. a = <<Rss, Mmap("p", Large), Check("p"), Rss>>
  BY <1>1
<1>4. Runs(a, 4)
  BY <1>3 DEF Runs
<1>5. b = TouchAll("p", Large)
  BY <1>1
<1>6. Runs(b, Large)
  BY <1>5, LargeIs DEF Runs, TouchAll
<1>7. c = <<Rss>>
  BY <1>1
<1>8. Runs(c, 1)
  BY <1>7 DEF Runs
<1>9. d = WriteAll("p", Large, "i")
  BY <1>1
<1>10. Runs(d, Large)
  BY <1>9, LargeIs DEF Runs, WriteAll
<1>11. e = <<Rss, Dontneed("p", Large), Rss, Munmap("p", Large), Rss, Return>>
  BY <1>1
<1>12. Runs(e, 6)
  BY <1>11 DEF Runs
<1>13. 1 \in Nat /\ 4 \in Nat /\ 6 \in Nat /\ Large \in Nat
  BY LargeIs
<1>14. /\ Runs(u3, 4 + Large + 1)
      /\ In(u3, 0, a, 4)
      /\ In(u3, 4, b, Large)
      /\ In(u3, 4 + Large, c, 1)
  BY <1>2, <1>13, <1>4, <1>6, <1>8, Glue3
<1>15. PICK m \in Nat : m = 4 + Large + 1
  BY LargeIs
<1>16. Runs(u3, m)
  BY <1>14, <1>15
<1>17. /\ Runs(u5, m + Large + 6) /\ In(u5, 0, u3, m)
      /\ In(u5, m, d, Large)
      /\ In(u5, m + Large, e, 6)
  BY <1>2, <1>13, <1>16, <1>10, <1>12, Glue3
<1>18. In(u5, 0, a, 4)
  <2>1. 0 \in Nat /\ 4 \in Nat /\ 0 + 4 <= m
    BY <1>15, LargeIs
  <2> QED BY <1>14, <1>17, <2>1, InIn
<1>19. In(u5, 4, b, Large)
  <2>1. 4 \in Nat /\ Large \in Nat /\ 4 + Large <= m
    BY <1>15, LargeIs
  <2> QED BY <1>14, <1>17, <2>1, InIn
<1>20. In(u5, 4 + Large, c, 1)
  <2>1. 4 + Large \in Nat /\ 1 \in Nat /\ 4 + Large + 1 <= m
    BY <1>15, LargeIs
  <2> QED BY <1>14, <1>17, <2>1, InIn
<1>21. /\ Runs(u5, 4 + Large + 1 + Large + 6)
      /\ In(u5, 0, a, 4)
      /\ In(u5, 4, b, Large)
      /\ In(u5, 4 + Large, c, 1)
      /\ In(u5, 4 + Large + 1, d, Large)
      /\ In(u5, 4 + Large + 1 + Large, e, 6)
  BY <1>15, <1>17, <1>18, <1>19, <1>20
<1>22. DOMAIN u5 = 1 .. 2 * Large + 11
  BY <1>21, LargeIs DEF Runs
<1>23. u5[1] = a[1] /\ u5[2] = a[2] /\ u5[3] = a[3] /\ u5[4] = a[4]
  BY <1>21, LargeIs DEF In
<1>24. u5[1] = Rss /\ u5[2] = Mmap("p", Large) /\ u5[3] = Check("p") /\ u5[4] = Rss
  BY <1>23, <1>3
<1>25. Touching(u5, 4, Large, "p")
  <2>1. 4 \in Nat /\ Large \in Nat
    BY LargeIs
  <2>2. In(u5, 4, TouchAll("p", Large), Large)
    BY <1>21, <1>5
  <2> QED BY <2>1, <2>2, LoopSteps
<1>26. \A k \in 5 .. Large + 4 : u5[k] = Touch("p", k - 5)
  BY <1>25, LargeIs DEF Touching
<1>27. u5[Large + 5] = c[1]
  BY <1>21, LargeIs DEF In
<1>28. u5[Large + 5] = Rss
  BY <1>27, <1>7
<1>29. Writing(u5, 4 + Large + 1, Large, "p", "i")
  <2>1. 4 + Large + 1 \in Nat /\ Large \in Nat
    BY LargeIs
  <2>2. In(u5, 4 + Large + 1, WriteAll("p", Large, "i"), Large)
    BY <1>21, <1>9
  <2> QED BY <2>1, <2>2, LoopSteps
<1>30. \A k \in Large + 6 .. 2 * Large + 5 : u5[k] = Write("p", k - Large - 6, "i")
  BY <1>29, LargeIs DEF Writing
<1>31. u5[2 * Large + 6] = e[1] /\ u5[2 * Large + 7] = e[2] /\ u5[2 * Large + 8] = e[3] /\
       u5[2 * Large + 9] = e[4] /\ u5[2 * Large + 10] = e[5] /\ u5[2 * Large + 11] = e[6]
  BY <1>21, LargeIs DEF In
<1>32. u5[2 * Large + 6] = Rss /\ u5[2 * Large + 7] = Dontneed("p", Large) /\
       u5[2 * Large + 8] = Rss /\ u5[2 * Large + 9] = Munmap("p", Large) /\ u5[2 * Large + 10] = Rss
           /\ u5[2 * Large + 11] = Return
  BY <1>31, <1>11
<1> QED BY <1>2, <1>22, <1>24, <1>26, <1>28, <1>30, <1>32

(* 01_virtual_memory/03_count_page_faults.c, step by step. *)
LEMMA CountPageFaultsScript ==
  /\ DOMAIN count_page_faults = 1 .. 3 * Large + 9
  /\ count_page_faults[1] = Mmap("p", Large)
  /\ count_page_faults[2] = Check("p")
  /\ count_page_faults[3] = Rusage(FALSE)
  /\ \A k \in 4 .. Large + 3 : count_page_faults[k] = Write("p", k - 4, "1")
  /\ count_page_faults[Large + 4] = Rusage(FALSE)
  /\ \A k \in Large + 5 .. 2 * Large + 4 : count_page_faults[k] = Touch("p", k - Large - 5)
  /\ count_page_faults[2 * Large + 5] = Rusage(FALSE)
  /\ count_page_faults[2 * Large + 6] = Dontneed("p", Large)
  /\ \A k \in 2 * Large + 7 .. 3 * Large + 6 : count_page_faults[k] = Touch("p", k - 2 * Large - 7)
  /\ count_page_faults[3 * Large + 7] = Rusage(FALSE)
  /\ count_page_faults[3 * Large + 8] = Munmap("p", Large)
  /\ count_page_faults[3 * Large + 9] = Return
<1>0. PICK count : count = Rusage(FALSE)
  BY Zenon
<1>1. PICK a, b, c, d, e, f, g, u2, u3, u4, u5, u6, u7 :
        /\ a = <<Mmap("p", Large), Check("p"), count>>
        /\ b = WriteAll("p", Large, "1")
        /\ c = <<count>>
        /\ d = TouchAll("p", Large)
        /\ e = <<count, Dontneed("p", Large)>>
        /\ f = TouchAll("p", Large)
        /\ g = <<count, Munmap("p", Large), Return>>
        /\ Joined(u2, a, b) /\ Joined(u3, u2, c) /\ Joined(u4, u3, d) /\ Joined(u5, u4, e)
               /\ Joined(u6, u5, f) /\ Joined(u7, u6, g)
        /\ count_page_faults = u7
  BY <1>0, Zenon DEF count_page_faults, Joined
<1>2. Joined(u2, a, b) /\ Joined(u3, u2, c) /\ Joined(u4, u3, d) /\ Joined(u5, u4, e) /\
      Joined(u6, u5, f) /\ Joined(u7, u6, g) /\ count_page_faults = u7
  BY <1>1
<1>3. a = <<Mmap("p", Large), Check("p"), count>>
  BY <1>1
<1>4. Runs(a, 3)
  BY <1>3 DEF Runs
<1>5. b = WriteAll("p", Large, "1")
  BY <1>1
<1>6. Runs(b, Large)
  BY <1>5, LargeIs DEF Runs, WriteAll
<1>7. c = <<count>>
  BY <1>1
<1>8. Runs(c, 1)
  BY <1>7 DEF Runs
<1>9. d = TouchAll("p", Large)
  BY <1>1
<1>10. Runs(d, Large)
  BY <1>9, LargeIs DEF Runs, TouchAll
<1>11. e = <<count, Dontneed("p", Large)>>
  BY <1>1
<1>12. Runs(e, 2)
  BY <1>11 DEF Runs
<1>13. f = TouchAll("p", Large)
  BY <1>1
<1>14. Runs(f, Large)
  BY <1>13, LargeIs DEF Runs, TouchAll
<1>15. g = <<count, Munmap("p", Large), Return>>
  BY <1>1
<1>16. Runs(g, 3)
  BY <1>15 DEF Runs
<1>17. 1 \in Nat /\ 2 \in Nat /\ 3 \in Nat /\ Large \in Nat
  BY LargeIs
<1>18. /\ Runs(u4, 3 + Large + 1 + Large)
      /\ In(u4, 0, a, 3)
      /\ In(u4, 3, b, Large)
      /\ In(u4, 3 + Large, c, 1)
      /\ In(u4, 3 + Large + 1, d, Large)
  BY <1>2, <1>17, <1>4, <1>6, <1>8, <1>10, Glue4
<1>19. PICK m \in Nat : m = 3 + Large + 1 + Large
  BY LargeIs
<1>20. Runs(u4, m)
  BY <1>18, <1>19
<1>21. /\ Runs(u7, m + 2 + Large + 3) /\ In(u7, 0, u4, m)
      /\ In(u7, m, e, 2)
      /\ In(u7, m + 2, f, Large)
      /\ In(u7, m + 2 + Large, g, 3)
  BY <1>2, <1>17, <1>20, <1>12, <1>14, <1>16, Glue4
<1>22. In(u7, 0, a, 3)
  <2>1. 0 \in Nat /\ 3 \in Nat /\ 0 + 3 <= m
    BY <1>19, LargeIs
  <2> QED BY <1>18, <1>21, <2>1, InIn
<1>23. In(u7, 3, b, Large)
  <2>1. 3 \in Nat /\ Large \in Nat /\ 3 + Large <= m
    BY <1>19, LargeIs
  <2> QED BY <1>18, <1>21, <2>1, InIn
<1>24. In(u7, 3 + Large, c, 1)
  <2>1. 3 + Large \in Nat /\ 1 \in Nat /\ 3 + Large + 1 <= m
    BY <1>19, LargeIs
  <2> QED BY <1>18, <1>21, <2>1, InIn
<1>25. In(u7, 3 + Large + 1, d, Large)
  <2>1. 3 + Large + 1 \in Nat /\ Large \in Nat /\ 3 + Large + 1 + Large <= m
    BY <1>19, LargeIs
  <2> QED BY <1>18, <1>21, <2>1, InIn
<1>26. /\ Runs(u7, 3 + Large + 1 + Large + 2 + Large + 3)
      /\ In(u7, 0, a, 3)
      /\ In(u7, 3, b, Large)
      /\ In(u7, 3 + Large, c, 1)
      /\ In(u7, 3 + Large + 1, d, Large)
      /\ In(u7, 3 + Large + 1 + Large, e, 2)
      /\ In(u7, 3 + Large + 1 + Large + 2, f, Large)
      /\ In(u7, 3 + Large + 1 + Large + 2 + Large, g, 3)
  BY <1>19, <1>21, <1>22, <1>23, <1>24, <1>25
<1>27. DOMAIN u7 = 1 .. 3 * Large + 9
  BY <1>26, LargeIs DEF Runs
<1>28. u7[1] = a[1] /\ u7[2] = a[2] /\ u7[3] = a[3]
  BY <1>26, LargeIs DEF In
<1>29. u7[1] = Mmap("p", Large) /\ u7[2] = Check("p") /\ u7[3] = count
  BY <1>28, <1>3
<1>30. Writing(u7, 3, Large, "p", "1")
  <2>1. 3 \in Nat /\ Large \in Nat
    BY LargeIs
  <2>2. In(u7, 3, WriteAll("p", Large, "1"), Large)
    BY <1>26, <1>5
  <2> QED BY <2>1, <2>2, LoopSteps
<1>31. \A k \in 4 .. Large + 3 : u7[k] = Write("p", k - 4, "1")
  BY <1>30, LargeIs DEF Writing
<1>32. u7[Large + 4] = c[1]
  BY <1>26, LargeIs DEF In
<1>33. u7[Large + 4] = count
  BY <1>32, <1>7
<1>34. Touching(u7, 3 + Large + 1, Large, "p")
  <2>1. 3 + Large + 1 \in Nat /\ Large \in Nat
    BY LargeIs
  <2>2. In(u7, 3 + Large + 1, TouchAll("p", Large), Large)
    BY <1>26, <1>9
  <2> QED BY <2>1, <2>2, LoopSteps
<1>35. \A k \in Large + 5 .. 2 * Large + 4 : u7[k] = Touch("p", k - Large - 5)
  BY <1>34, LargeIs DEF Touching
<1>36. u7[2 * Large + 5] = e[1] /\ u7[2 * Large + 6] = e[2]
  BY <1>26, LargeIs DEF In
<1>37. u7[2 * Large + 5] = count /\ u7[2 * Large + 6] = Dontneed("p", Large)
  BY <1>36, <1>11
<1>38. Touching(u7, 3 + Large + 1 + Large + 2, Large, "p")
  <2>1. 3 + Large + 1 + Large + 2 \in Nat /\ Large \in Nat
    BY LargeIs
  <2>2. In(u7, 3 + Large + 1 + Large + 2, TouchAll("p", Large), Large)
    BY <1>26, <1>13
  <2> QED BY <2>1, <2>2, LoopSteps
<1>39. \A k \in 2 * Large + 7 .. 3 * Large + 6 : u7[k] = Touch("p", k - 2 * Large - 7)
  BY <1>38, LargeIs DEF Touching
<1>40. u7[3 * Large + 7] = g[1] /\ u7[3 * Large + 8] = g[2] /\ u7[3 * Large + 9] = g[3]
  BY <1>26, LargeIs DEF In
<1>41. u7[3 * Large + 7] = count /\ u7[3 * Large + 8] = Munmap("p", Large) /\
       u7[3 * Large + 9] = Return
  BY <1>40, <1>15
<1> QED BY <1>2, <1>0, <1>27, <1>29, <1>31, <1>33, <1>35, <1>37, <1>39, <1>41, Zenon

(* 04_heap_malloc/03_brk_vs_mmap.c, step by step. *)
LEMMA BrkVsMmapScript ==
  /\ DOMAIN brk_vs_mmap = 1 .. 10
  /\ brk_vs_mmap[1] = Malloc("small[0]", 1)
  /\ brk_vs_mmap[2] = Malloc("small[1]", 1)
  /\ brk_vs_mmap[3] = Malloc("big[0]", 1)
  /\ brk_vs_mmap[4] = Malloc("big[1]", 1)
  /\ brk_vs_mmap[5] = Maps
  /\ brk_vs_mmap[6] = Free("small[0]")
  /\ brk_vs_mmap[7] = Free("big[0]")
  /\ brk_vs_mmap[8] = Free("small[1]")
  /\ brk_vs_mmap[9] = Free("big[1]")
  /\ brk_vs_mmap[10] = Return
<1>1. PICK a, b, c, d, u2, u3, u4 :
        /\ a = MallocAll(small)
        /\ b = MallocAll(big)
        /\ c = <<Maps>>
        /\ d = <<Free(small[1]), Free(big[1]), Free(small[2]), Free(big[2]), Return>>
        /\ Joined(u2, a, b) /\ Joined(u3, u2, c) /\ Joined(u4, u3, d)
        /\ brk_vs_mmap = u4
  BY Zenon DEF brk_vs_mmap, Joined
<1>2. Joined(u2, a, b) /\ Joined(u3, u2, c) /\ Joined(u4, u3, d) /\ brk_vs_mmap = u4
  BY <1>1
<1>3. a = <<Malloc("small[0]", 1), Malloc("small[1]", 1)>>
  BY <1>1 DEF MallocAll, small
<1>4. Runs(a, 2)
  BY <1>3 DEF Runs
<1>5. b = <<Malloc("big[0]", 1), Malloc("big[1]", 1)>>
  BY <1>1 DEF MallocAll, big
<1>6. Runs(b, 2)
  BY <1>5 DEF Runs
<1>7. c = <<Maps>>
  BY <1>1
<1>8. Runs(c, 1)
  BY <1>7 DEF Runs
<1>9. d = <<Free("small[0]"), Free("big[0]"), Free("small[1]"), Free("big[1]"), Return>>
  BY <1>1 DEF small, big
<1>10. Runs(d, 5)
  BY <1>9 DEF Runs
<1>11. 1 \in Nat /\ 2 \in Nat /\ 5 \in Nat
  BY LargeIs
<1>12. /\ Runs(u4, 2 + 2 + 1 + 5)
      /\ In(u4, 0, a, 2)
      /\ In(u4, 2, b, 2)
      /\ In(u4, 2 + 2, c, 1)
      /\ In(u4, 2 + 2 + 1, d, 5)
  BY <1>2, <1>11, <1>4, <1>6, <1>8, <1>10, Glue4
<1>13. DOMAIN u4 = 1 .. 10
  BY <1>12, LargeIs DEF Runs
<1>14. u4[1] = a[1] /\ u4[2] = a[2]
  BY <1>12, LargeIs DEF In
<1>15. u4[1] = Malloc("small[0]", 1) /\ u4[2] = Malloc("small[1]", 1)
  BY <1>14, <1>3
<1>16. u4[3] = b[1] /\ u4[4] = b[2]
  BY <1>12, LargeIs DEF In
<1>17. u4[3] = Malloc("big[0]", 1) /\ u4[4] = Malloc("big[1]", 1)
  BY <1>16, <1>5
<1>18. u4[5] = c[1]
  BY <1>12, LargeIs DEF In
<1>19. u4[5] = Maps
  BY <1>18, <1>7
<1>20. u4[6] = d[1] /\ u4[7] = d[2] /\ u4[8] = d[3] /\ u4[9] = d[4] /\ u4[10] = d[5]
  BY <1>12, LargeIs DEF In
<1>21. u4[6] = Free("small[0]") /\ u4[7] = Free("big[0]") /\ u4[8] = Free("small[1]") /\
       u4[9] = Free("big[1]") /\ u4[10] = Return
  BY <1>20, <1>9
<1> QED BY <1>2, <1>13, <1>15, <1>17, <1>19, <1>21

(* 04_heap_malloc/04_mallopt_tuning.c, step by step. *)
LEMMA MalloptTuningScript ==
  /\ DOMAIN mallopt_tuning = 1 .. 7
  /\ mallopt_tuning[1] = Malloc("big[0]", 1)
  /\ mallopt_tuning[2] = Malloc("big[1]", 1)
  /\ mallopt_tuning[3] = Free("big[0]")
  /\ mallopt_tuning[4] = Free("big[1]")
  /\ mallopt_tuning[5] = Malloc("q", 1)
  /\ mallopt_tuning[6] = Free("q")
  /\ mallopt_tuning[7] = Return
<1>1. PICK a, b, c, u2, u3 :
        /\ a = MallocAll(big)
        /\ b = FreeAll(big)
        /\ c = <<Malloc("q", 1), Free("q"), Return>>
        /\ Joined(u2, a, b) /\ Joined(u3, u2, c)
        /\ mallopt_tuning = u3
  BY Zenon DEF mallopt_tuning, Joined
<1>2. Joined(u2, a, b) /\ Joined(u3, u2, c) /\ mallopt_tuning = u3
  BY <1>1
<1>3. a = <<Malloc("big[0]", 1), Malloc("big[1]", 1)>>
  BY <1>1 DEF MallocAll, big
<1>4. Runs(a, 2)
  BY <1>3 DEF Runs
<1>5. b = <<Free("big[0]"), Free("big[1]")>>
  BY <1>1 DEF FreeAll, big
<1>6. Runs(b, 2)
  BY <1>5 DEF Runs
<1>7. c = <<Malloc("q", 1), Free("q"), Return>>
  BY <1>1
<1>8. Runs(c, 3)
  BY <1>7 DEF Runs
<1>9. 2 \in Nat /\ 3 \in Nat
  BY LargeIs
<1>10. /\ Runs(u3, 2 + 2 + 3)
      /\ In(u3, 0, a, 2)
      /\ In(u3, 2, b, 2)
      /\ In(u3, 2 + 2, c, 3)
  BY <1>2, <1>9, <1>4, <1>6, <1>8, Glue3
<1>11. DOMAIN u3 = 1 .. 7
  BY <1>10, LargeIs DEF Runs
<1>12. u3[1] = a[1] /\ u3[2] = a[2]
  BY <1>10, LargeIs DEF In
<1>13. u3[1] = Malloc("big[0]", 1) /\ u3[2] = Malloc("big[1]", 1)
  BY <1>12, <1>3
<1>14. u3[3] = b[1] /\ u3[4] = b[2]
  BY <1>10, LargeIs DEF In
<1>15. u3[3] = Free("big[0]") /\ u3[4] = Free("big[1]")
  BY <1>14, <1>5
<1>16. u3[5] = c[1] /\ u3[6] = c[2] /\ u3[7] = c[3]
  BY <1>10, LargeIs DEF In
<1>17. u3[5] = Malloc("q", 1) /\ u3[6] = Free("q") /\ u3[7] = Return
  BY <1>16, <1>7
<1> QED BY <1>2, <1>11, <1>13, <1>15, <1>17

(* 04_heap_malloc/05_mallinfo.c, step by step. *)
LEMMA MallinfoScript ==
  /\ DOMAIN mallinfo = 1 .. 7
  /\ mallinfo[1] = Malloc("small[0]", 1)
  /\ mallinfo[2] = Malloc("small[1]", 1)
  /\ mallinfo[3] = Free("small[0]")
  /\ mallinfo[4] = Free("small[1]")
  /\ mallinfo[5] = Malloc("r", Large)
  /\ mallinfo[6] = Free("r")
  /\ mallinfo[7] = Return
<1>1. PICK a, b, c, u2, u3 :
        /\ a = MallocAll(small)
        /\ b = FreeAll(small)
        /\ c = <<Malloc("r", Large), Free("r"), Return>>
        /\ Joined(u2, a, b) /\ Joined(u3, u2, c)
        /\ mallinfo = u3
  BY Zenon DEF mallinfo, Joined
<1>2. Joined(u2, a, b) /\ Joined(u3, u2, c) /\ mallinfo = u3
  BY <1>1
<1>3. a = <<Malloc("small[0]", 1), Malloc("small[1]", 1)>>
  BY <1>1 DEF MallocAll, small
<1>4. Runs(a, 2)
  BY <1>3 DEF Runs
<1>5. b = <<Free("small[0]"), Free("small[1]")>>
  BY <1>1 DEF FreeAll, small
<1>6. Runs(b, 2)
  BY <1>5 DEF Runs
<1>7. c = <<Malloc("r", Large), Free("r"), Return>>
  BY <1>1
<1>8. Runs(c, 3)
  BY <1>7 DEF Runs
<1>9. 2 \in Nat /\ 3 \in Nat
  BY LargeIs
<1>10. /\ Runs(u3, 2 + 2 + 3)
      /\ In(u3, 0, a, 2)
      /\ In(u3, 2, b, 2)
      /\ In(u3, 2 + 2, c, 3)
  BY <1>2, <1>9, <1>4, <1>6, <1>8, Glue3
<1>11. DOMAIN u3 = 1 .. 7
  BY <1>10, LargeIs DEF Runs
<1>12. u3[1] = a[1] /\ u3[2] = a[2]
  BY <1>10, LargeIs DEF In
<1>13. u3[1] = Malloc("small[0]", 1) /\ u3[2] = Malloc("small[1]", 1)
  BY <1>12, <1>3
<1>14. u3[3] = b[1] /\ u3[4] = b[2]
  BY <1>10, LargeIs DEF In
<1>15. u3[3] = Free("small[0]") /\ u3[4] = Free("small[1]")
  BY <1>14, <1>5
<1>16. u3[5] = c[1] /\ u3[6] = c[2] /\ u3[7] = c[3]
  BY <1>10, LargeIs DEF In
<1>17. u3[5] = Malloc("r", Large) /\ u3[6] = Free("r") /\ u3[7] = Return
  BY <1>16, <1>7
<1> QED BY <1>2, <1>11, <1>13, <1>15, <1>17

(* 04_heap_malloc/13_malloc_trim.c, step by step. *)
LEMMA MallocTrimScript ==
  /\ DOMAIN malloc_trim = 1 .. 12
  /\ malloc_trim[1] = Rss
  /\ malloc_trim[2] = Malloc("big[0]", 1)
  /\ malloc_trim[3] = Malloc("big[1]", 1)
  /\ malloc_trim[4] = Write("big[0]", 0, "1")
  /\ malloc_trim[5] = Write("big[1]", 0, "1")
  /\ malloc_trim[6] = Rss
  /\ malloc_trim[7] = Free("big[0]")
  /\ malloc_trim[8] = Free("big[1]")
  /\ malloc_trim[9] = Rss
  /\ malloc_trim[10] = Trim
  /\ malloc_trim[11] = Rss
  /\ malloc_trim[12] = Return
<1>1. PICK a, b, c, d, e, f, u2, u3, u4, u5, u6 :
        /\ a = <<Rss>>
        /\ b = MallocAll(big)
        /\ c = [k \in DOMAIN big |-> Write(big[k], 0, "1")]
        /\ d = <<Rss>>
        /\ e = FreeAll(big)
        /\ f = <<Rss, Trim, Rss, Return>>
        /\ Joined(u2, a, b) /\ Joined(u3, u2, c) /\ Joined(u4, u3, d) /\ Joined(u5, u4, e)
               /\ Joined(u6, u5, f)
        /\ malloc_trim = u6
  BY Zenon DEF malloc_trim, Joined
<1>2. Joined(u2, a, b) /\ Joined(u3, u2, c) /\ Joined(u4, u3, d) /\ Joined(u5, u4, e) /\
      Joined(u6, u5, f) /\ malloc_trim = u6
  BY <1>1
<1>3. a = <<Rss>>
  BY <1>1
<1>4. Runs(a, 1)
  BY <1>3 DEF Runs
<1>5. b = <<Malloc("big[0]", 1), Malloc("big[1]", 1)>>
  BY <1>1 DEF MallocAll, big
<1>6. Runs(b, 2)
  BY <1>5 DEF Runs
<1>7. c = <<Write("big[0]", 0, "1"), Write("big[1]", 0, "1")>>
  BY <1>1 DEF big
<1>8. Runs(c, 2)
  BY <1>7 DEF Runs
<1>9. d = <<Rss>>
  BY <1>1
<1>10. Runs(d, 1)
  BY <1>9 DEF Runs
<1>11. e = <<Free("big[0]"), Free("big[1]")>>
  BY <1>1 DEF FreeAll, big
<1>12. Runs(e, 2)
  BY <1>11 DEF Runs
<1>13. f = <<Rss, Trim, Rss, Return>>
  BY <1>1
<1>14. Runs(f, 4)
  BY <1>13 DEF Runs
<1>15. 1 \in Nat /\ 2 \in Nat /\ 4 \in Nat
  BY LargeIs
<1>16. /\ Runs(u3, 1 + 2 + 2)
      /\ In(u3, 0, a, 1)
      /\ In(u3, 1, b, 2)
      /\ In(u3, 1 + 2, c, 2)
  BY <1>2, <1>15, <1>4, <1>6, <1>8, Glue3
<1>17. PICK m \in Nat : m = 1 + 2 + 2
  BY LargeIs
<1>18. Runs(u3, m)
  BY <1>16, <1>17
<1>19. /\ Runs(u6, m + 1 + 2 + 4) /\ In(u6, 0, u3, m)
      /\ In(u6, m, d, 1)
      /\ In(u6, m + 1, e, 2)
      /\ In(u6, m + 1 + 2, f, 4)
  BY <1>2, <1>15, <1>18, <1>10, <1>12, <1>14, Glue4
<1>20. In(u6, 0, a, 1)
  <2>1. 0 \in Nat /\ 1 \in Nat /\ 0 + 1 <= m
    BY <1>17, LargeIs
  <2> QED BY <1>16, <1>19, <2>1, InIn
<1>21. In(u6, 1, b, 2)
  <2>1. 1 \in Nat /\ 2 \in Nat /\ 1 + 2 <= m
    BY <1>17, LargeIs
  <2> QED BY <1>16, <1>19, <2>1, InIn
<1>22. In(u6, 1 + 2, c, 2)
  <2>1. 1 + 2 \in Nat /\ 2 \in Nat /\ 1 + 2 + 2 <= m
    BY <1>17, LargeIs
  <2> QED BY <1>16, <1>19, <2>1, InIn
<1>23. /\ Runs(u6, 1 + 2 + 2 + 1 + 2 + 4)
      /\ In(u6, 0, a, 1)
      /\ In(u6, 1, b, 2)
      /\ In(u6, 1 + 2, c, 2)
      /\ In(u6, 1 + 2 + 2, d, 1)
      /\ In(u6, 1 + 2 + 2 + 1, e, 2)
      /\ In(u6, 1 + 2 + 2 + 1 + 2, f, 4)
  BY <1>17, <1>19, <1>20, <1>21, <1>22
<1>24. DOMAIN u6 = 1 .. 12
  BY <1>23, LargeIs DEF Runs
<1>25. u6[1] = a[1]
  BY <1>23, LargeIs DEF In
<1>26. u6[1] = Rss
  BY <1>25, <1>3
<1>27. u6[2] = b[1] /\ u6[3] = b[2]
  BY <1>23, LargeIs DEF In
<1>28. u6[2] = Malloc("big[0]", 1) /\ u6[3] = Malloc("big[1]", 1)
  BY <1>27, <1>5
<1>29. u6[4] = c[1] /\ u6[5] = c[2]
  BY <1>23, LargeIs DEF In
<1>30. u6[4] = Write("big[0]", 0, "1") /\ u6[5] = Write("big[1]", 0, "1")
  BY <1>29, <1>7
<1>31. u6[6] = d[1]
  BY <1>23, LargeIs DEF In
<1>32. u6[6] = Rss
  BY <1>31, <1>9
<1>33. u6[7] = e[1] /\ u6[8] = e[2]
  BY <1>23, LargeIs DEF In
<1>34. u6[7] = Free("big[0]") /\ u6[8] = Free("big[1]")
  BY <1>33, <1>11
<1>35. u6[9] = f[1] /\ u6[10] = f[2] /\ u6[11] = f[3] /\ u6[12] = f[4]
  BY <1>23, LargeIs DEF In
<1>36. u6[9] = Rss /\ u6[10] = Trim /\ u6[11] = Rss /\ u6[12] = Return
  BY <1>35, <1>13
<1> QED BY <1>2, <1>24, <1>26, <1>28, <1>30, <1>32, <1>34, <1>36

(* 12_debugging_tools/05_mallinfo_dump.c, step by step. *)
LEMMA MallinfoDumpScript ==
  /\ DOMAIN mallinfo_dump = 1 .. 5
  /\ mallinfo_dump[1] = Malloc("small[0]", 1)
  /\ mallinfo_dump[2] = Malloc("small[1]", 1)
  /\ mallinfo_dump[3] = Free("small[0]")
  /\ mallinfo_dump[4] = Free("small[1]")
  /\ mallinfo_dump[5] = Return
<1>1. PICK a, b, c, u2, u3 :
        /\ a = MallocAll(small)
        /\ b = FreeAll(small)
        /\ c = <<Return>>
        /\ Joined(u2, a, b) /\ Joined(u3, u2, c)
        /\ mallinfo_dump = u3
  BY Zenon DEF mallinfo_dump, Joined
<1>2. Joined(u2, a, b) /\ Joined(u3, u2, c) /\ mallinfo_dump = u3
  BY <1>1
<1>3. a = <<Malloc("small[0]", 1), Malloc("small[1]", 1)>>
  BY <1>1 DEF MallocAll, small
<1>4. Runs(a, 2)
  BY <1>3 DEF Runs
<1>5. b = <<Free("small[0]"), Free("small[1]")>>
  BY <1>1 DEF FreeAll, small
<1>6. Runs(b, 2)
  BY <1>5 DEF Runs
<1>7. c = <<Return>>
  BY <1>1
<1>8. Runs(c, 1)
  BY <1>7 DEF Runs
<1>9. 1 \in Nat /\ 2 \in Nat
  BY LargeIs
<1>10. /\ Runs(u3, 2 + 2 + 1)
      /\ In(u3, 0, a, 2)
      /\ In(u3, 2, b, 2)
      /\ In(u3, 2 + 2, c, 1)
  BY <1>2, <1>9, <1>4, <1>6, <1>8, Glue3
<1>11. DOMAIN u3 = 1 .. 5
  BY <1>10, LargeIs DEF Runs
<1>12. u3[1] = a[1] /\ u3[2] = a[2]
  BY <1>10, LargeIs DEF In
<1>13. u3[1] = Malloc("small[0]", 1) /\ u3[2] = Malloc("small[1]", 1)
  BY <1>12, <1>3
<1>14. u3[3] = b[1] /\ u3[4] = b[2]
  BY <1>10, LargeIs DEF In
<1>15. u3[3] = Free("small[0]") /\ u3[4] = Free("small[1]")
  BY <1>14, <1>5
<1>16. u3[5] = c[1]
  BY <1>10, LargeIs DEF In
<1>17. u3[5] = Return
  BY <1>16, <1>7
<1> QED BY <1>2, <1>11, <1>13, <1>15, <1>17

(* 05_mmap/06_madvise_dontneed.c, step by step. *)
LEMMA MadviseDontneedScript ==
  /\ DOMAIN madvise_dontneed = 1 .. Large + 11
  /\ madvise_dontneed[1] = Mmap("p", Large)
  /\ madvise_dontneed[2] = Check("p")
  /\ madvise_dontneed[3] = Rss
  /\ \A k \in 4 .. Large + 3 : madvise_dontneed[k] = Write("p", k - 4, "1")
  /\ madvise_dontneed[Large + 4] = Rss
  /\ madvise_dontneed[Large + 5] = Dontneed("p", Large)
  /\ madvise_dontneed[Large + 6] = Rss
  /\ madvise_dontneed[Large + 7] = Read("p", 0)
  /\ madvise_dontneed[Large + 8] = Read("p", 1)
  /\ madvise_dontneed[Large + 9] = Rss
  /\ madvise_dontneed[Large + 10] = Munmap("p", Large)
  /\ madvise_dontneed[Large + 11] = Return
<1>1. PICK a, b, c, u2, u3 :
        /\ a = <<Mmap("p", Large), Check("p"), Rss>>
        /\ b = WriteAll("p", Large, "1")
        /\ c = <<Rss, Dontneed("p", Large), Rss, Read("p", 0), Read("p", 1), Rss, Munmap("p", Large), Return>>
        /\ Joined(u2, a, b) /\ Joined(u3, u2, c)
        /\ madvise_dontneed = u3
  BY Zenon DEF madvise_dontneed, Joined
<1>2. Joined(u2, a, b) /\ Joined(u3, u2, c) /\ madvise_dontneed = u3
  BY <1>1
<1>3. a = <<Mmap("p", Large), Check("p"), Rss>>
  BY <1>1
<1>4. Runs(a, 3)
  BY <1>3 DEF Runs
<1>5. b = WriteAll("p", Large, "1")
  BY <1>1
<1>6. Runs(b, Large)
  BY <1>5, LargeIs DEF Runs, WriteAll
<1>7. c = <<Rss, Dontneed("p", Large), Rss, Read("p", 0), Read("p", 1), Rss, Munmap("p", Large), Return>>
  BY <1>1
<1>8. Runs(c, 8)
  BY <1>7 DEF Runs
<1>9. 3 \in Nat /\ 8 \in Nat /\ Large \in Nat
  BY LargeIs
<1>10. /\ Runs(u3, 3 + Large + 8)
      /\ In(u3, 0, a, 3)
      /\ In(u3, 3, b, Large)
      /\ In(u3, 3 + Large, c, 8)
  BY <1>2, <1>9, <1>4, <1>6, <1>8, Glue3
<1>11. DOMAIN u3 = 1 .. Large + 11
  BY <1>10, LargeIs DEF Runs
<1>12. u3[1] = a[1] /\ u3[2] = a[2] /\ u3[3] = a[3]
  BY <1>10, LargeIs DEF In
<1>13. u3[1] = Mmap("p", Large) /\ u3[2] = Check("p") /\ u3[3] = Rss
  BY <1>12, <1>3
<1>14. Writing(u3, 3, Large, "p", "1")
  <2>1. 3 \in Nat /\ Large \in Nat
    BY LargeIs
  <2>2. In(u3, 3, WriteAll("p", Large, "1"), Large)
    BY <1>10, <1>5
  <2> QED BY <2>1, <2>2, LoopSteps
<1>15. \A k \in 4 .. Large + 3 : u3[k] = Write("p", k - 4, "1")
  BY <1>14, LargeIs DEF Writing
<1>16. u3[Large + 4] = c[1] /\ u3[Large + 5] = c[2] /\ u3[Large + 6] = c[3] /\
       u3[Large + 7] = c[4] /\ u3[Large + 8] = c[5] /\ u3[Large + 9] = c[6] /\ u3[Large + 10] = c[7]
           /\ u3[Large + 11] = c[8]
  BY <1>10, LargeIs DEF In
<1>17. u3[Large + 4] = Rss /\ u3[Large + 5] = Dontneed("p", Large) /\ u3[Large + 6] = Rss /\
       u3[Large + 7] = Read("p", 0) /\ u3[Large + 8] = Read("p", 1) /\ u3[Large + 9] = Rss
           /\ u3[Large + 10] = Munmap("p", Large) /\ u3[Large + 11] = Return
  BY <1>16, <1>7
<1> QED BY <1>2, <1>11, <1>13, <1>15, <1>17

(* 05_mmap/08_map_populate.c, step by step. *)
LEMMA MapPopulateScript ==
  /\ DOMAIN map_populate = 1 .. 3 * Large + 5
  /\ map_populate[1] = Mmap("p", Large)
  /\ \A k \in 2 .. Large + 1 : map_populate[k] = Write("p", k - 2, "1")
  /\ \A k \in Large + 2 .. 2 * Large + 1 : map_populate[k] = Write("p", k - Large - 2, "1")
  /\ map_populate[2 * Large + 2] = Munmap("p", Large)
  /\ map_populate[2 * Large + 3] = MmapPopulate("p", Large)
  /\ \A k \in 2 * Large + 4 .. 3 * Large + 3 : map_populate[k] = Write("p", k - 2 * Large - 4, "1")
  /\ map_populate[3 * Large + 4] = Munmap("p", Large)
  /\ map_populate[3 * Large + 5] = Return
<1>0. PICK populate : populate = MmapPopulate("p", Large)
  BY Zenon
<1>1. PICK a, b, c, d, e, f, u2, u3, u4, u5, u6 :
        /\ a = <<Mmap("p", Large)>>
        /\ b = WriteAll("p", Large, "1")
        /\ c = WriteAll("p", Large, "1")
        /\ d = <<Munmap("p", Large), populate>>
        /\ e = WriteAll("p", Large, "1")
        /\ f = <<Munmap("p", Large), Return>>
        /\ Joined(u2, a, b) /\ Joined(u3, u2, c) /\ Joined(u4, u3, d) /\ Joined(u5, u4, e)
               /\ Joined(u6, u5, f)
        /\ map_populate = u6
  BY <1>0, Zenon DEF map_populate, Joined
<1>2. Joined(u2, a, b) /\ Joined(u3, u2, c) /\ Joined(u4, u3, d) /\ Joined(u5, u4, e) /\
      Joined(u6, u5, f) /\ map_populate = u6
  BY <1>1
<1>3. a = <<Mmap("p", Large)>>
  BY <1>1
<1>4. Runs(a, 1)
  BY <1>3 DEF Runs
<1>5. b = WriteAll("p", Large, "1")
  BY <1>1
<1>6. Runs(b, Large)
  BY <1>5, LargeIs DEF Runs, WriteAll
<1>7. c = WriteAll("p", Large, "1")
  BY <1>1
<1>8. Runs(c, Large)
  BY <1>7, LargeIs DEF Runs, WriteAll
<1>9. d = <<Munmap("p", Large), populate>>
  BY <1>1
<1>10. Runs(d, 2)
  BY <1>9 DEF Runs
<1>11. e = WriteAll("p", Large, "1")
  BY <1>1
<1>12. Runs(e, Large)
  BY <1>11, LargeIs DEF Runs, WriteAll
<1>13. f = <<Munmap("p", Large), Return>>
  BY <1>1
<1>14. Runs(f, 2)
  BY <1>13 DEF Runs
<1>15. 1 \in Nat /\ 2 \in Nat /\ Large \in Nat
  BY LargeIs
<1>16. /\ Runs(u3, 1 + Large + Large)
      /\ In(u3, 0, a, 1)
      /\ In(u3, 1, b, Large)
      /\ In(u3, 1 + Large, c, Large)
  BY <1>2, <1>15, <1>4, <1>6, <1>8, Glue3
<1>17. PICK m \in Nat : m = 1 + Large + Large
  BY LargeIs
<1>18. Runs(u3, m)
  BY <1>16, <1>17
<1>19. /\ Runs(u6, m + 2 + Large + 2) /\ In(u6, 0, u3, m)
      /\ In(u6, m, d, 2)
      /\ In(u6, m + 2, e, Large)
      /\ In(u6, m + 2 + Large, f, 2)
  BY <1>2, <1>15, <1>18, <1>10, <1>12, <1>14, Glue4
<1>20. In(u6, 0, a, 1)
  <2>1. 0 \in Nat /\ 1 \in Nat /\ 0 + 1 <= m
    BY <1>17, LargeIs
  <2> QED BY <1>16, <1>19, <2>1, InIn
<1>21. In(u6, 1, b, Large)
  <2>1. 1 \in Nat /\ Large \in Nat /\ 1 + Large <= m
    BY <1>17, LargeIs
  <2> QED BY <1>16, <1>19, <2>1, InIn
<1>22. In(u6, 1 + Large, c, Large)
  <2>1. 1 + Large \in Nat /\ Large \in Nat /\ 1 + Large + Large <= m
    BY <1>17, LargeIs
  <2> QED BY <1>16, <1>19, <2>1, InIn
<1>23. /\ Runs(u6, 1 + Large + Large + 2 + Large + 2)
      /\ In(u6, 0, a, 1)
      /\ In(u6, 1, b, Large)
      /\ In(u6, 1 + Large, c, Large)
      /\ In(u6, 1 + Large + Large, d, 2)
      /\ In(u6, 1 + Large + Large + 2, e, Large)
      /\ In(u6, 1 + Large + Large + 2 + Large, f, 2)
  BY <1>17, <1>19, <1>20, <1>21, <1>22
<1>24. DOMAIN u6 = 1 .. 3 * Large + 5
  BY <1>23, LargeIs DEF Runs
<1>25. u6[1] = a[1]
  BY <1>23, LargeIs DEF In
<1>26. u6[1] = Mmap("p", Large)
  BY <1>25, <1>3
<1>27. Writing(u6, 1, Large, "p", "1")
  <2>1. 1 \in Nat /\ Large \in Nat
    BY LargeIs
  <2>2. In(u6, 1, WriteAll("p", Large, "1"), Large)
    BY <1>23, <1>5
  <2> QED BY <2>1, <2>2, LoopSteps
<1>28. \A k \in 2 .. Large + 1 : u6[k] = Write("p", k - 2, "1")
  BY <1>27, LargeIs DEF Writing
<1>29. Writing(u6, 1 + Large, Large, "p", "1")
  <2>1. 1 + Large \in Nat /\ Large \in Nat
    BY LargeIs
  <2>2. In(u6, 1 + Large, WriteAll("p", Large, "1"), Large)
    BY <1>23, <1>7
  <2> QED BY <2>1, <2>2, LoopSteps
<1>30. \A k \in Large + 2 .. 2 * Large + 1 : u6[k] = Write("p", k - Large - 2, "1")
  BY <1>29, LargeIs DEF Writing
<1>31. u6[2 * Large + 2] = d[1] /\ u6[2 * Large + 3] = d[2]
  BY <1>23, LargeIs DEF In
<1>32. u6[2 * Large + 2] = Munmap("p", Large) /\ u6[2 * Large + 3] = populate
  BY <1>31, <1>9
<1>33. Writing(u6, 1 + Large + Large + 2, Large, "p", "1")
  <2>1. 1 + Large + Large + 2 \in Nat /\ Large \in Nat
    BY LargeIs
  <2>2. In(u6, 1 + Large + Large + 2, WriteAll("p", Large, "1"), Large)
    BY <1>23, <1>11
  <2> QED BY <2>1, <2>2, LoopSteps
<1>34. \A k \in 2 * Large + 4 .. 3 * Large + 3 : u6[k] = Write("p", k - 2 * Large - 4, "1")
  BY <1>33, LargeIs DEF Writing
<1>35. u6[3 * Large + 4] = f[1] /\ u6[3 * Large + 5] = f[2]
  BY <1>23, LargeIs DEF In
<1>36. u6[3 * Large + 4] = Munmap("p", Large) /\ u6[3 * Large + 5] = Return
  BY <1>35, <1>13
<1> QED BY <1>2, <1>0, <1>24, <1>26, <1>28, <1>30, <1>32, <1>34, <1>36, Zenon

(* 07_paging_swapping/02_mlock.c, step by step. *)
LEMMA MlockScript ==
  /\ DOMAIN mlock = 1 .. Large + 9
  /\ mlock[1] = Rss
  /\ mlock[2] = Malloc("p", Large)
  /\ \A k \in 3 .. Large + 2 : mlock[k] = Write("p", k - 3, "1")
  /\ mlock[Large + 3] = Rss
  /\ mlock[Large + 4] = Mlock("p", Large)
  /\ mlock[Large + 5] = Rss
  /\ mlock[Large + 6] = Munlock("p", Large)
  /\ mlock[Large + 7] = Rss
  /\ mlock[Large + 8] = Free("p")
  /\ mlock[Large + 9] = Return
<1>1. PICK a, b, c, u2, u3 :
        /\ a = <<Rss, Malloc("p", Large)>>
        /\ b = WriteAll("p", Large, "1")
        /\ c = <<Rss, Mlock("p", Large), Rss, Munlock("p", Large), Rss, Free("p"), Return>>
        /\ Joined(u2, a, b) /\ Joined(u3, u2, c)
        /\ mlock = u3
  BY Zenon DEF mlock, Joined
<1>2. Joined(u2, a, b) /\ Joined(u3, u2, c) /\ mlock = u3
  BY <1>1
<1>3. a = <<Rss, Malloc("p", Large)>>
  BY <1>1
<1>4. Runs(a, 2)
  BY <1>3 DEF Runs
<1>5. b = WriteAll("p", Large, "1")
  BY <1>1
<1>6. Runs(b, Large)
  BY <1>5, LargeIs DEF Runs, WriteAll
<1>7. c = <<Rss, Mlock("p", Large), Rss, Munlock("p", Large), Rss, Free("p"), Return>>
  BY <1>1
<1>8. Runs(c, 7)
  BY <1>7 DEF Runs
<1>9. 2 \in Nat /\ 7 \in Nat /\ Large \in Nat
  BY LargeIs
<1>10. /\ Runs(u3, 2 + Large + 7)
      /\ In(u3, 0, a, 2)
      /\ In(u3, 2, b, Large)
      /\ In(u3, 2 + Large, c, 7)
  BY <1>2, <1>9, <1>4, <1>6, <1>8, Glue3
<1>11. DOMAIN u3 = 1 .. Large + 9
  BY <1>10, LargeIs DEF Runs
<1>12. u3[1] = a[1] /\ u3[2] = a[2]
  BY <1>10, LargeIs DEF In
<1>13. u3[1] = Rss /\ u3[2] = Malloc("p", Large)
  BY <1>12, <1>3
<1>14. Writing(u3, 2, Large, "p", "1")
  <2>1. 2 \in Nat /\ Large \in Nat
    BY LargeIs
  <2>2. In(u3, 2, WriteAll("p", Large, "1"), Large)
    BY <1>10, <1>5
  <2> QED BY <2>1, <2>2, LoopSteps
<1>15. \A k \in 3 .. Large + 2 : u3[k] = Write("p", k - 3, "1")
  BY <1>14, LargeIs DEF Writing
<1>16. u3[Large + 3] = c[1] /\ u3[Large + 4] = c[2] /\ u3[Large + 5] = c[3] /\
       u3[Large + 6] = c[4] /\ u3[Large + 7] = c[5] /\ u3[Large + 8] = c[6] /\ u3[Large + 9] = c[7]
  BY <1>10, LargeIs DEF In
<1>17. u3[Large + 3] = Rss /\ u3[Large + 4] = Mlock("p", Large) /\ u3[Large + 5] = Rss /\
       u3[Large + 6] = Munlock("p", Large) /\ u3[Large + 7] = Rss /\ u3[Large + 8] = Free("p")
           /\ u3[Large + 9] = Return
  BY <1>16, <1>7
<1> QED BY <1>2, <1>11, <1>13, <1>15, <1>17

(* 07_paging_swapping/03_madvise_pageout.c, step by step. *)
LEMMA MadvisePageoutScript ==
  /\ DOMAIN madvise_pageout = 1 .. Large + 8
  /\ madvise_pageout[1] = Mmap("p", Large)
  /\ \A k \in 2 .. Large + 1 : madvise_pageout[k] = Write("p", k - 2, "0xAA")
  /\ madvise_pageout[Large + 2] = Rss
  /\ madvise_pageout[Large + 3] = Pageout("p", Large)
  /\ madvise_pageout[Large + 4] = Rss
  /\ madvise_pageout[Large + 5] = Read("p", 1)
  /\ madvise_pageout[Large + 6] = Rss
  /\ madvise_pageout[Large + 7] = Munmap("p", Large)
  /\ madvise_pageout[Large + 8] = Return
<1>1. PICK a, b, c, u2, u3 :
        /\ a = <<Mmap("p", Large)>>
        /\ b = WriteAll("p", Large, "0xAA")
        /\ c = <<Rss, Pageout("p", Large), Rss, Read("p", 1), Rss, Munmap("p", Large), Return>>
        /\ Joined(u2, a, b) /\ Joined(u3, u2, c)
        /\ madvise_pageout = u3
  BY Zenon DEF madvise_pageout, Joined
<1>2. Joined(u2, a, b) /\ Joined(u3, u2, c) /\ madvise_pageout = u3
  BY <1>1
<1>3. a = <<Mmap("p", Large)>>
  BY <1>1
<1>4. Runs(a, 1)
  BY <1>3 DEF Runs
<1>5. b = WriteAll("p", Large, "0xAA")
  BY <1>1
<1>6. Runs(b, Large)
  BY <1>5, LargeIs DEF Runs, WriteAll
<1>7. c = <<Rss, Pageout("p", Large), Rss, Read("p", 1), Rss, Munmap("p", Large), Return>>
  BY <1>1
<1>8. Runs(c, 7)
  BY <1>7 DEF Runs
<1>9. 1 \in Nat /\ 7 \in Nat /\ Large \in Nat
  BY LargeIs
<1>10. /\ Runs(u3, 1 + Large + 7)
      /\ In(u3, 0, a, 1)
      /\ In(u3, 1, b, Large)
      /\ In(u3, 1 + Large, c, 7)
  BY <1>2, <1>9, <1>4, <1>6, <1>8, Glue3
<1>11. DOMAIN u3 = 1 .. Large + 8
  BY <1>10, LargeIs DEF Runs
<1>12. u3[1] = a[1]
  BY <1>10, LargeIs DEF In
<1>13. u3[1] = Mmap("p", Large)
  BY <1>12, <1>3
<1>14. Writing(u3, 1, Large, "p", "0xAA")
  <2>1. 1 \in Nat /\ Large \in Nat
    BY LargeIs
  <2>2. In(u3, 1, WriteAll("p", Large, "0xAA"), Large)
    BY <1>10, <1>5
  <2> QED BY <2>1, <2>2, LoopSteps
<1>15. \A k \in 2 .. Large + 1 : u3[k] = Write("p", k - 2, "0xAA")
  BY <1>14, LargeIs DEF Writing
<1>16. u3[Large + 2] = c[1] /\ u3[Large + 3] = c[2] /\ u3[Large + 4] = c[3] /\
       u3[Large + 5] = c[4] /\ u3[Large + 6] = c[5] /\ u3[Large + 7] = c[6] /\ u3[Large + 8] = c[7]
  BY <1>10, LargeIs DEF In
<1>17. u3[Large + 2] = Rss /\ u3[Large + 3] = Pageout("p", Large) /\ u3[Large + 4] = Rss /\
       u3[Large + 5] = Read("p", 1) /\ u3[Large + 6] = Rss /\ u3[Large + 7] = Munmap("p", Large)
           /\ u3[Large + 8] = Return
  BY <1>16, <1>7
<1> QED BY <1>2, <1>11, <1>13, <1>15, <1>17

(* 12_debugging_tools/04_getrusage_demo.c, step by step. *)
LEMMA GetrusageDemoScript ==
  /\ DOMAIN getrusage_demo = 1 .. 2 * Large + 7
  /\ getrusage_demo[1] = Rusage(TRUE)
  /\ getrusage_demo[2] = Malloc("p", Large)
  /\ \A k \in 3 .. Large + 2 : getrusage_demo[k] = Write("p", k - 3, "1")
  /\ getrusage_demo[Large + 3] = Rusage(TRUE)
  /\ \A k \in Large + 4 .. 2 * Large + 3 : getrusage_demo[k] = Touch("p", k - Large - 4)
  /\ getrusage_demo[2 * Large + 4] = Rusage(TRUE)
  /\ getrusage_demo[2 * Large + 5] = Free("p")
  /\ getrusage_demo[2 * Large + 6] = Rusage(TRUE)
  /\ getrusage_demo[2 * Large + 7] = Return
<1>0. PICK total : total = Rusage(TRUE)
  BY Zenon
<1>1. PICK a, b, c, d, e, u2, u3, u4, u5 :
        /\ a = <<total, Malloc("p", Large)>>
        /\ b = WriteAll("p", Large, "1")
        /\ c = <<total>>
        /\ d = TouchAll("p", Large)
        /\ e = <<total, Free("p"), total, Return>>
        /\ Joined(u2, a, b) /\ Joined(u3, u2, c) /\ Joined(u4, u3, d) /\ Joined(u5, u4, e)
        /\ getrusage_demo = u5
  BY <1>0, Zenon DEF getrusage_demo, Joined
<1>2. Joined(u2, a, b) /\ Joined(u3, u2, c) /\ Joined(u4, u3, d) /\ Joined(u5, u4, e) /\
      getrusage_demo = u5
  BY <1>1
<1>3. a = <<total, Malloc("p", Large)>>
  BY <1>1
<1>4. Runs(a, 2)
  BY <1>3 DEF Runs
<1>5. b = WriteAll("p", Large, "1")
  BY <1>1
<1>6. Runs(b, Large)
  BY <1>5, LargeIs DEF Runs, WriteAll
<1>7. c = <<total>>
  BY <1>1
<1>8. Runs(c, 1)
  BY <1>7 DEF Runs
<1>9. d = TouchAll("p", Large)
  BY <1>1
<1>10. Runs(d, Large)
  BY <1>9, LargeIs DEF Runs, TouchAll
<1>11. e = <<total, Free("p"), total, Return>>
  BY <1>1
<1>12. Runs(e, 4)
  BY <1>11 DEF Runs
<1>13. 1 \in Nat /\ 2 \in Nat /\ 4 \in Nat /\ Large \in Nat
  BY LargeIs
<1>14. /\ Runs(u3, 2 + Large + 1)
      /\ In(u3, 0, a, 2)
      /\ In(u3, 2, b, Large)
      /\ In(u3, 2 + Large, c, 1)
  BY <1>2, <1>13, <1>4, <1>6, <1>8, Glue3
<1>15. PICK m \in Nat : m = 2 + Large + 1
  BY LargeIs
<1>16. Runs(u3, m)
  BY <1>14, <1>15
<1>17. /\ Runs(u5, m + Large + 4) /\ In(u5, 0, u3, m)
      /\ In(u5, m, d, Large)
      /\ In(u5, m + Large, e, 4)
  BY <1>2, <1>13, <1>16, <1>10, <1>12, Glue3
<1>18. In(u5, 0, a, 2)
  <2>1. 0 \in Nat /\ 2 \in Nat /\ 0 + 2 <= m
    BY <1>15, LargeIs
  <2> QED BY <1>14, <1>17, <2>1, InIn
<1>19. In(u5, 2, b, Large)
  <2>1. 2 \in Nat /\ Large \in Nat /\ 2 + Large <= m
    BY <1>15, LargeIs
  <2> QED BY <1>14, <1>17, <2>1, InIn
<1>20. In(u5, 2 + Large, c, 1)
  <2>1. 2 + Large \in Nat /\ 1 \in Nat /\ 2 + Large + 1 <= m
    BY <1>15, LargeIs
  <2> QED BY <1>14, <1>17, <2>1, InIn
<1>21. /\ Runs(u5, 2 + Large + 1 + Large + 4)
      /\ In(u5, 0, a, 2)
      /\ In(u5, 2, b, Large)
      /\ In(u5, 2 + Large, c, 1)
      /\ In(u5, 2 + Large + 1, d, Large)
      /\ In(u5, 2 + Large + 1 + Large, e, 4)
  BY <1>15, <1>17, <1>18, <1>19, <1>20
<1>22. DOMAIN u5 = 1 .. 2 * Large + 7
  BY <1>21, LargeIs DEF Runs
<1>23. u5[1] = a[1] /\ u5[2] = a[2]
  BY <1>21, LargeIs DEF In
<1>24. u5[1] = total /\ u5[2] = Malloc("p", Large)
  BY <1>23, <1>3
<1>25. Writing(u5, 2, Large, "p", "1")
  <2>1. 2 \in Nat /\ Large \in Nat
    BY LargeIs
  <2>2. In(u5, 2, WriteAll("p", Large, "1"), Large)
    BY <1>21, <1>5
  <2> QED BY <2>1, <2>2, LoopSteps
<1>26. \A k \in 3 .. Large + 2 : u5[k] = Write("p", k - 3, "1")
  BY <1>25, LargeIs DEF Writing
<1>27. u5[Large + 3] = c[1]
  BY <1>21, LargeIs DEF In
<1>28. u5[Large + 3] = total
  BY <1>27, <1>7
<1>29. Touching(u5, 2 + Large + 1, Large, "p")
  <2>1. 2 + Large + 1 \in Nat /\ Large \in Nat
    BY LargeIs
  <2>2. In(u5, 2 + Large + 1, TouchAll("p", Large), Large)
    BY <1>21, <1>9
  <2> QED BY <2>1, <2>2, LoopSteps
<1>30. \A k \in Large + 4 .. 2 * Large + 3 : u5[k] = Touch("p", k - Large - 4)
  BY <1>29, LargeIs DEF Touching
<1>31. u5[2 * Large + 4] = e[1] /\ u5[2 * Large + 5] = e[2] /\ u5[2 * Large + 6] = e[3] /\
       u5[2 * Large + 7] = e[4]
  BY <1>21, LargeIs DEF In
<1>32. u5[2 * Large + 4] = total /\ u5[2 * Large + 5] = Free("p") /\
       u5[2 * Large + 6] = total /\ u5[2 * Large + 7] = Return
  BY <1>31, <1>11
<1> QED BY <1>2, <1>0, <1>22, <1>24, <1>26, <1>28, <1>30, <1>32, Zenon

(* 13_advanced/01_thp_madvise.c, step by step. *)
LEMMA ThpMadviseScript ==
  /\ DOMAIN thp_madvise = 1 .. Large + 5
  /\ thp_madvise[1] = Mmap("p", Large)
  /\ thp_madvise[2] = Check("p")
  /\ \A k \in 3 .. Large + 2 : thp_madvise[k] = Write("p", k - 3, "0x41")
  /\ thp_madvise[Large + 3] = Maps
  /\ thp_madvise[Large + 4] = Munmap("p", Large)
  /\ thp_madvise[Large + 5] = Return
<1>1. PICK a, b, c, u2, u3 :
        /\ a = <<Mmap("p", Large), Check("p")>>
        /\ b = WriteAll("p", Large, "0x41")
        /\ c = <<Maps, Munmap("p", Large), Return>>
        /\ Joined(u2, a, b) /\ Joined(u3, u2, c)
        /\ thp_madvise = u3
  BY Zenon DEF thp_madvise, Joined
<1>2. Joined(u2, a, b) /\ Joined(u3, u2, c) /\ thp_madvise = u3
  BY <1>1
<1>3. a = <<Mmap("p", Large), Check("p")>>
  BY <1>1
<1>4. Runs(a, 2)
  BY <1>3 DEF Runs
<1>5. b = WriteAll("p", Large, "0x41")
  BY <1>1
<1>6. Runs(b, Large)
  BY <1>5, LargeIs DEF Runs, WriteAll
<1>7. c = <<Maps, Munmap("p", Large), Return>>
  BY <1>1
<1>8. Runs(c, 3)
  BY <1>7 DEF Runs
<1>9. 2 \in Nat /\ 3 \in Nat /\ Large \in Nat
  BY LargeIs
<1>10. /\ Runs(u3, 2 + Large + 3)
      /\ In(u3, 0, a, 2)
      /\ In(u3, 2, b, Large)
      /\ In(u3, 2 + Large, c, 3)
  BY <1>2, <1>9, <1>4, <1>6, <1>8, Glue3
<1>11. DOMAIN u3 = 1 .. Large + 5
  BY <1>10, LargeIs DEF Runs
<1>12. u3[1] = a[1] /\ u3[2] = a[2]
  BY <1>10, LargeIs DEF In
<1>13. u3[1] = Mmap("p", Large) /\ u3[2] = Check("p")
  BY <1>12, <1>3
<1>14. Writing(u3, 2, Large, "p", "0x41")
  <2>1. 2 \in Nat /\ Large \in Nat
    BY LargeIs
  <2>2. In(u3, 2, WriteAll("p", Large, "0x41"), Large)
    BY <1>10, <1>5
  <2> QED BY <2>1, <2>2, LoopSteps
<1>15. \A k \in 3 .. Large + 2 : u3[k] = Write("p", k - 3, "0x41")
  BY <1>14, LargeIs DEF Writing
<1>16. u3[Large + 3] = c[1] /\ u3[Large + 4] = c[2] /\ u3[Large + 5] = c[3]
  BY <1>10, LargeIs DEF In
<1>17. u3[Large + 3] = Maps /\ u3[Large + 4] = Munmap("p", Large) /\ u3[Large + 5] = Return
  BY <1>16, <1>7
<1> QED BY <1>2, <1>11, <1>13, <1>15, <1>17

(* 13_advanced/05_ksm_demo.c, step by step. *)
LEMMA KsmDemoScript ==
  /\ DOMAIN ksm_demo = 1 .. 9
  /\ ksm_demo[1] = Mmap("a", 2)
  /\ ksm_demo[2] = Mmap("b", 2)
  /\ ksm_demo[3] = Write("a", 0, "0xAA")
  /\ ksm_demo[4] = Write("a", 1, "0xAA")
  /\ ksm_demo[5] = Write("b", 0, "0xAA")
  /\ ksm_demo[6] = Write("b", 1, "0xAA")
  /\ ksm_demo[7] = Munmap("a", 2)
  /\ ksm_demo[8] = Munmap("b", 2)
  /\ ksm_demo[9] = Return
<1>1. PICK a, b, c, d, u2, u3, u4 :
        /\ a = <<Mmap("a", 2), Mmap("b", 2)>>
        /\ b = WriteAll("a", 2, "0xAA")
        /\ c = WriteAll("b", 2, "0xAA")
        /\ d = <<Munmap("a", 2), Munmap("b", 2), Return>>
        /\ Joined(u2, a, b) /\ Joined(u3, u2, c) /\ Joined(u4, u3, d)
        /\ ksm_demo = u4
  BY Zenon DEF ksm_demo, Joined
<1>2. Joined(u2, a, b) /\ Joined(u3, u2, c) /\ Joined(u4, u3, d) /\ ksm_demo = u4
  BY <1>1
<1>3. a = <<Mmap("a", 2), Mmap("b", 2)>>
  BY <1>1
<1>4. Runs(a, 2)
  BY <1>3 DEF Runs
<1>5. b = <<Write("a", 0, "0xAA"), Write("a", 1, "0xAA")>>
  BY <1>1 DEF WriteAll
<1>6. Runs(b, 2)
  BY <1>5 DEF Runs
<1>7. c = <<Write("b", 0, "0xAA"), Write("b", 1, "0xAA")>>
  BY <1>1 DEF WriteAll
<1>8. Runs(c, 2)
  BY <1>7 DEF Runs
<1>9. d = <<Munmap("a", 2), Munmap("b", 2), Return>>
  BY <1>1
<1>10. Runs(d, 3)
  BY <1>9 DEF Runs
<1>11. 2 \in Nat /\ 3 \in Nat
  BY LargeIs
<1>12. /\ Runs(u4, 2 + 2 + 2 + 3)
      /\ In(u4, 0, a, 2)
      /\ In(u4, 2, b, 2)
      /\ In(u4, 2 + 2, c, 2)
      /\ In(u4, 2 + 2 + 2, d, 3)
  BY <1>2, <1>11, <1>4, <1>6, <1>8, <1>10, Glue4
<1>13. DOMAIN u4 = 1 .. 9
  BY <1>12, LargeIs DEF Runs
<1>14. u4[1] = a[1] /\ u4[2] = a[2]
  BY <1>12, LargeIs DEF In
<1>15. u4[1] = Mmap("a", 2) /\ u4[2] = Mmap("b", 2)
  BY <1>14, <1>3
<1>16. u4[3] = b[1] /\ u4[4] = b[2]
  BY <1>12, LargeIs DEF In
<1>17. u4[3] = Write("a", 0, "0xAA") /\ u4[4] = Write("a", 1, "0xAA")
  BY <1>16, <1>5
<1>18. u4[5] = c[1] /\ u4[6] = c[2]
  BY <1>12, LargeIs DEF In
<1>19. u4[5] = Write("b", 0, "0xAA") /\ u4[6] = Write("b", 1, "0xAA")
  BY <1>18, <1>7
<1>20. u4[7] = d[1] /\ u4[8] = d[2] /\ u4[9] = d[3]
  BY <1>12, LargeIs DEF In
<1>21. u4[7] = Munmap("a", 2) /\ u4[8] = Munmap("b", 2) /\ u4[9] = Return
  BY <1>20, <1>9
<1> QED BY <1>2, <1>13, <1>15, <1>17, <1>19, <1>21

-----------------------------------------------------------------------------
(* The pointers of the programs. *)
LEMMA PointersAre ==
  {"p", "q", "r", "a", "b", "heap", "anon", "got", "NULL", "static", "small[0]", "small[1]", "big[0]",
      "big[1]"} \subseteq Pointers
BY DEF Pointers, small, big

(* What 01_virtual_memory/02_lazy_allocation.c holds goes with each of its steps. *)
LEMMA Fit_lazy_allocation == \A k \in DOMAIN Script["lazy_allocation"] : Fits("lazy_allocation", k)
<1>1. Script["lazy_allocation"] = lazy_allocation
  BY ScriptOf
<1>2. DOMAIN Script["lazy_allocation"] = 1 .. 2 * Large + 11
  BY <1>1, LazyAllocationScript, Zenon
<1>3. \A k \in Nat, r \in Pointers : Holdings["lazy_allocation"][k][r] =
        IF r = "p" THEN From(3, 2 * Large + 9, Large, k) ELSE 0
  BY DEF Holdings, Only
<1>4. Script["lazy_allocation"][1] = Rss
  BY <1>1, LazyAllocationScript, Zenon
<1>5. Script["lazy_allocation"][2] = Mmap("p", Large)
  BY <1>1, LazyAllocationScript, Zenon
<1>6. Script["lazy_allocation"][3] = Check("p")
  BY <1>1, LazyAllocationScript, Zenon
<1>7. Script["lazy_allocation"][4] = Rss
  BY <1>1, LazyAllocationScript, Zenon
<1>8. \A k \in 5 .. Large + 4 : Script["lazy_allocation"][k] = Touch("p", k - 5)
  BY <1>1, LazyAllocationScript, Zenon
<1>9. Script["lazy_allocation"][Large + 5] = Rss
  BY <1>1, LazyAllocationScript, Zenon
<1>10. \A k \in Large + 6 .. 2 * Large + 5 : Script["lazy_allocation"][k] = Write("p", k - Large - 6, "i")
  BY <1>1, LazyAllocationScript, Zenon
<1>11. Script["lazy_allocation"][2 * Large + 6] = Rss
  BY <1>1, LazyAllocationScript, Zenon
<1>12. Script["lazy_allocation"][2 * Large + 7] = Dontneed("p", Large)
  BY <1>1, LazyAllocationScript, Zenon
<1>13. Script["lazy_allocation"][2 * Large + 8] = Rss
  BY <1>1, LazyAllocationScript, Zenon
<1>14. Script["lazy_allocation"][2 * Large + 9] = Munmap("p", Large)
  BY <1>1, LazyAllocationScript, Zenon
<1>15. Script["lazy_allocation"][2 * Large + 10] = Rss
  BY <1>1, LazyAllocationScript, Zenon
<1>16. Script["lazy_allocation"][2 * Large + 11] = Return
  BY <1>1, LazyAllocationScript, Zenon
<1>17. Fits("lazy_allocation", 1) /\ Fits("lazy_allocation", 2)
  BY <1>3, <1>4, <1>5, <1>6, PointersAre, LargeIs
     DEF Fits, Leaves, KindOf, Mallocers, Careful, Unchecked, From, Check, Do, Get, Mmap, Rss
<1>18. Fits("lazy_allocation", 3) /\ Fits("lazy_allocation", 4)
  BY <1>3, <1>6, <1>7, PointersAre, LargeIs
     DEF Fits, Leaves, KindOf, Mallocers, Careful, Unchecked, From, Check, Do, Rss
<1>19. ASSUME NEW k \in 5 .. Large + 4 PROVE Fits("lazy_allocation", k)
  <2>1. Script["lazy_allocation"][k] = Touch("p", k - 5)
    BY <1>8
  <2>2. \A r \in Pointers : /\ Holdings["lazy_allocation"][k][r] = IF r = "p" THEN Large ELSE 0
                            /\ Holdings["lazy_allocation"][k + 1][r] = IF r = "p" THEN Large ELSE 0
    BY <1>3, LargeIs DEF From
  <2> QED BY <2>1, <2>2, PointersAre, LargeIs
          DEF Fits, Leaves, KindOf, Mallocers, Careful, Unchecked, Touch
<1>20. Fits("lazy_allocation", Large + 5)
  BY <1>3, <1>9, PointersAre, LargeIs
     DEF Fits, Leaves, KindOf, Mallocers, Careful, Unchecked, From, Do, Rss
<1>21. ASSUME NEW k \in Large + 6 .. 2 * Large + 5 PROVE Fits("lazy_allocation", k)
  <2>1. Script["lazy_allocation"][k] = Write("p", k - Large - 6, "i")
    BY <1>10
  <2>2. \A r \in Pointers : /\ Holdings["lazy_allocation"][k][r] = IF r = "p" THEN Large ELSE 0
                            /\ Holdings["lazy_allocation"][k + 1][r] = IF r = "p" THEN Large ELSE 0
    BY <1>3, LargeIs DEF From
  <2> QED BY <2>1, <2>2, PointersAre, LargeIs
          DEF Fits, Leaves, KindOf, Mallocers, Careful, Unchecked, Write
<1>22. Fits("lazy_allocation", 2 * Large + 6) /\ Fits("lazy_allocation", 2 * Large + 7)
  BY <1>3, <1>11, <1>12, <1>13, PointersAre, LargeIs
     DEF Fits, Leaves, KindOf, Mallocers, Careful, Unchecked, From, Do, Dontneed, Rss
<1>23. Fits("lazy_allocation", 2 * Large + 8) /\ Fits("lazy_allocation", 2 * Large + 9)
  BY <1>3, <1>13, <1>14, <1>15, PointersAre, LargeIs
     DEF Fits, Leaves, KindOf, Mallocers, Careful, Unchecked, From, Do, Munmap, Rss
<1>24. Fits("lazy_allocation", 2 * Large + 10) /\ Fits("lazy_allocation", 2 * Large + 11)
  BY <1>3, <1>15, <1>16, PointersAre, LargeIs
     DEF Fits, Leaves, KindOf, Mallocers, Careful, Unchecked, From, Do, Return, Rss
<1> SUFFICES ASSUME NEW k \in 1 .. 2 * Large + 11 PROVE Fits("lazy_allocation", k)
  BY <1>2
<1>25. k = 1 \/ k = 2 \/ k = 3 \/ k = 4 \/ k \in 5 .. Large + 4 \/ k = Large + 5 \/
       k \in Large + 6 .. 2 * Large + 5 \/ k = 2 * Large + 6 \/ k = 2 * Large + 7 \/
       k = 2 * Large + 8 \/ k = 2 * Large + 9 \/ k = 2 * Large + 10 \/ k = 2 * Large + 11
  BY LargeIs
<1> QED BY <1>25, <1>17, <1>18, <1>19, <1>20, <1>21, <1>22, <1>23, <1>24

(* What 01_virtual_memory/03_count_page_faults.c holds goes with each of its steps. *)
LEMMA Fit_count_page_faults == \A k \in DOMAIN Script["count_page_faults"] : Fits("count_page_faults", k)
<1>1. Script["count_page_faults"] = count_page_faults
  BY ScriptOf
<1>2. DOMAIN Script["count_page_faults"] = 1 .. 3 * Large + 9
  BY <1>1, CountPageFaultsScript, Zenon
<1>3. \A k \in Nat, r \in Pointers : Holdings["count_page_faults"][k][r] =
        IF r = "p" THEN From(2, 3 * Large + 8, Large, k) ELSE 0
  BY DEF Holdings, Only
<1>4. Script["count_page_faults"][1] = Mmap("p", Large)
  BY <1>1, CountPageFaultsScript, Zenon
<1>5. Script["count_page_faults"][2] = Check("p")
  BY <1>1, CountPageFaultsScript, Zenon
<1>6. Script["count_page_faults"][3].op = "rusage"
  BY <1>1, CountPageFaultsScript DEF Rusage
<1>7. \A k \in 4 .. Large + 3 : Script["count_page_faults"][k] = Write("p", k - 4, "1")
  BY <1>1, CountPageFaultsScript, Zenon
<1>8. Script["count_page_faults"][Large + 4].op = "rusage"
  BY <1>1, CountPageFaultsScript DEF Rusage
<1>9. \A k \in Large + 5 .. 2 * Large + 4 : Script["count_page_faults"][k] = Touch("p", k - Large - 5)
  BY <1>1, CountPageFaultsScript, Zenon
<1>10. Script["count_page_faults"][2 * Large + 5].op = "rusage"
  BY <1>1, CountPageFaultsScript DEF Rusage
<1>11. Script["count_page_faults"][2 * Large + 6] = Dontneed("p", Large)
  BY <1>1, CountPageFaultsScript, Zenon
<1>12. \A k \in 2 * Large + 7 .. 3 * Large + 6 :
           Script["count_page_faults"][k] = Touch("p", k - 2 * Large - 7)
  BY <1>1, CountPageFaultsScript, Zenon
<1>13. Script["count_page_faults"][3 * Large + 7].op = "rusage"
  BY <1>1, CountPageFaultsScript DEF Rusage
<1>14. Script["count_page_faults"][3 * Large + 8] = Munmap("p", Large)
  BY <1>1, CountPageFaultsScript, Zenon
<1>15. Script["count_page_faults"][3 * Large + 9] = Return
  BY <1>1, CountPageFaultsScript, Zenon
<1>16. Fits("count_page_faults", 1) /\ Fits("count_page_faults", 2)
  BY <1>3, <1>4, <1>5, <1>6, PointersAre, LargeIs
     DEF Fits, Leaves, KindOf, Mallocers, Careful, Unchecked, From, Check, Get, Mmap
<1>17. Fits("count_page_faults", 3)
  BY <1>3, <1>6, PointersAre, LargeIs
     DEF Fits, Leaves, KindOf, Mallocers, Careful, Unchecked, From
<1>18. ASSUME NEW k \in 4 .. Large + 3 PROVE Fits("count_page_faults", k)
  <2>1. Script["count_page_faults"][k] = Write("p", k - 4, "1")
    BY <1>7
  <2>2. \A r \in Pointers : /\ Holdings["count_page_faults"][k][r] = IF r = "p" THEN Large ELSE 0
                            /\ Holdings["count_page_faults"][k + 1][r] = IF r = "p" THEN Large ELSE 0
    BY <1>3, LargeIs DEF From
  <2> QED BY <2>1, <2>2, PointersAre, LargeIs
          DEF Fits, Leaves, KindOf, Mallocers, Careful, Unchecked, Write
<1>19. Fits("count_page_faults", Large + 4)
  BY <1>3, <1>8, PointersAre, LargeIs
     DEF Fits, Leaves, KindOf, Mallocers, Careful, Unchecked, From
<1>20. ASSUME NEW k \in Large + 5 .. 2 * Large + 4 PROVE Fits("count_page_faults", k)
  <2>1. Script["count_page_faults"][k] = Touch("p", k - Large - 5)
    BY <1>9
  <2>2. \A r \in Pointers : /\ Holdings["count_page_faults"][k][r] = IF r = "p" THEN Large ELSE 0
                            /\ Holdings["count_page_faults"][k + 1][r] = IF r = "p" THEN Large ELSE 0
    BY <1>3, LargeIs DEF From
  <2> QED BY <2>1, <2>2, PointersAre, LargeIs
          DEF Fits, Leaves, KindOf, Mallocers, Careful, Unchecked, Touch
<1>21. Fits("count_page_faults", 2 * Large + 5) /\ Fits("count_page_faults", 2 * Large + 6)
  BY <1>3, <1>10, <1>11, PointersAre, LargeIs
     DEF Fits, Leaves, KindOf, Mallocers, Careful, Unchecked, From, Dontneed
<1>22. ASSUME NEW k \in 2 * Large + 7 .. 3 * Large + 6 PROVE Fits("count_page_faults", k)
  <2>1. Script["count_page_faults"][k] = Touch("p", k - 2 * Large - 7)
    BY <1>12
  <2>2. \A r \in Pointers : /\ Holdings["count_page_faults"][k][r] = IF r = "p" THEN Large ELSE 0
                            /\ Holdings["count_page_faults"][k + 1][r] = IF r = "p" THEN Large ELSE 0
    BY <1>3, LargeIs DEF From
  <2> QED BY <2>1, <2>2, PointersAre, LargeIs
          DEF Fits, Leaves, KindOf, Mallocers, Careful, Unchecked, Touch
<1>23. Fits("count_page_faults", 3 * Large + 7) /\ Fits("count_page_faults", 3 * Large + 8)
  BY <1>3, <1>13, <1>14, <1>15, PointersAre, LargeIs
     DEF Fits, Leaves, KindOf, Mallocers, Careful, Unchecked, From, Do, Munmap, Return
<1>24. Fits("count_page_faults", 3 * Large + 9)
  BY <1>3, <1>15, PointersAre, LargeIs
     DEF Fits, Leaves, KindOf, Mallocers, Careful, Unchecked, From, Do, Return
<1> SUFFICES ASSUME NEW k \in 1 .. 3 * Large + 9 PROVE Fits("count_page_faults", k)
  BY <1>2
<1>25. k = 1 \/ k = 2 \/ k = 3 \/ k \in 4 .. Large + 3 \/ k = Large + 4 \/
       k \in Large + 5 .. 2 * Large + 4 \/ k = 2 * Large + 5 \/ k = 2 * Large + 6 \/
       k \in 2 * Large + 7 .. 3 * Large + 6 \/ k = 3 * Large + 7 \/ k = 3 * Large + 8 \/
       k = 3 * Large + 9
  BY LargeIs
<1> QED BY <1>25, <1>16, <1>17, <1>18, <1>19, <1>20, <1>21, <1>22, <1>23, <1>24

(* What 04_heap_malloc/03_brk_vs_mmap.c holds goes with each of its steps. *)
LEMMA Fit_brk_vs_mmap == \A k \in DOMAIN Script["brk_vs_mmap"] : Fits("brk_vs_mmap", k)
<1>1. Script["brk_vs_mmap"] = brk_vs_mmap
  BY ScriptOf
<1>2. DOMAIN Script["brk_vs_mmap"] = 1 .. 10
  BY <1>1, BrkVsMmapScript, Zenon
<1>3. \A k \in Nat, r \in Pointers : Holdings["brk_vs_mmap"][k][r] =
        IF r = "small[0]" THEN From(2, 6, 1, k) ELSE IF r = "small[1]" THEN From(3, 8, 1, k)
      ELSE IF r = "big[0]" THEN From(4, 7, 1, k) ELSE IF r = "big[1]" THEN From(5, 9, 1, k) ELSE 0
  BY DEF Holdings
<1>4. Script["brk_vs_mmap"][1] = Malloc("small[0]", 1)
  BY <1>1, BrkVsMmapScript, Zenon
<1>5. Script["brk_vs_mmap"][2] = Malloc("small[1]", 1)
  BY <1>1, BrkVsMmapScript, Zenon
<1>6. Script["brk_vs_mmap"][3] = Malloc("big[0]", 1)
  BY <1>1, BrkVsMmapScript, Zenon
<1>7. Script["brk_vs_mmap"][4] = Malloc("big[1]", 1)
  BY <1>1, BrkVsMmapScript, Zenon
<1>8. Script["brk_vs_mmap"][5] = Maps
  BY <1>1, BrkVsMmapScript, Zenon
<1>9. Script["brk_vs_mmap"][6] = Free("small[0]")
  BY <1>1, BrkVsMmapScript, Zenon
<1>10. Script["brk_vs_mmap"][7] = Free("big[0]")
  BY <1>1, BrkVsMmapScript, Zenon
<1>11. Script["brk_vs_mmap"][8] = Free("small[1]")
  BY <1>1, BrkVsMmapScript, Zenon
<1>12. Script["brk_vs_mmap"][9] = Free("big[1]")
  BY <1>1, BrkVsMmapScript, Zenon
<1>13. Script["brk_vs_mmap"][10] = Return
  BY <1>1, BrkVsMmapScript, Zenon
<1>14. Fits("brk_vs_mmap", 1) /\ Fits("brk_vs_mmap", 2)
  BY <1>3, <1>4, <1>5, <1>6, PointersAre, LargeIs
     DEF Fits, Leaves, KindOf, Mallocers, Careful, Unchecked, From, Get, Malloc
<1>15. Fits("brk_vs_mmap", 3) /\ Fits("brk_vs_mmap", 4)
  BY <1>3, <1>6, <1>7, <1>8, PointersAre, LargeIs
     DEF Fits, Leaves, KindOf, Mallocers, Careful, Unchecked, From, Do, Get, Malloc, Maps
<1>16. Fits("brk_vs_mmap", 5) /\ Fits("brk_vs_mmap", 6)
  BY <1>3, <1>8, <1>9, <1>10, PointersAre, LargeIs
     DEF Fits, Leaves, KindOf, Mallocers, Careful, Unchecked, From, Do, Free, Maps
<1>17. Fits("brk_vs_mmap", 7) /\ Fits("brk_vs_mmap", 8)
  BY <1>3, <1>10, <1>11, <1>12, PointersAre, LargeIs
     DEF Fits, Leaves, KindOf, Mallocers, Careful, Unchecked, From, Free
<1>18. Fits("brk_vs_mmap", 9) /\ Fits("brk_vs_mmap", 10)
  BY <1>3, <1>12, <1>13, PointersAre, LargeIs
     DEF Fits, Leaves, KindOf, Mallocers, Careful, Unchecked, From, Do, Free, Return
<1> SUFFICES ASSUME NEW k \in 1 .. 10 PROVE Fits("brk_vs_mmap", k)
  BY <1>2
<1>19. k = 1 \/ k = 2 \/ k = 3 \/ k = 4 \/ k = 5 \/ k = 6 \/ k = 7 \/ k = 8 \/ k = 9 \/ k = 10
  BY LargeIs
<1> QED BY <1>19, <1>14, <1>15, <1>16, <1>17, <1>18

(* What 04_heap_malloc/04_mallopt_tuning.c holds goes with each of its steps. *)
LEMMA Fit_mallopt_tuning == \A k \in DOMAIN Script["mallopt_tuning"] : Fits("mallopt_tuning", k)
<1>1. Script["mallopt_tuning"] = mallopt_tuning
  BY ScriptOf
<1>2. DOMAIN Script["mallopt_tuning"] = 1 .. 7
  BY <1>1, MalloptTuningScript, Zenon
<1>3. \A k \in Nat, r \in Pointers : Holdings["mallopt_tuning"][k][r] =
        IF r = "big[0]" THEN From(2, 3, 1, k) ELSE IF r = "big[1]" THEN From(3, 4, 1, k)
      ELSE IF r = "q" THEN From(6, 6, 1, k) ELSE 0
  BY DEF Holdings
<1>4. Script["mallopt_tuning"][1] = Malloc("big[0]", 1)
  BY <1>1, MalloptTuningScript, Zenon
<1>5. Script["mallopt_tuning"][2] = Malloc("big[1]", 1)
  BY <1>1, MalloptTuningScript, Zenon
<1>6. Script["mallopt_tuning"][3] = Free("big[0]")
  BY <1>1, MalloptTuningScript, Zenon
<1>7. Script["mallopt_tuning"][4] = Free("big[1]")
  BY <1>1, MalloptTuningScript, Zenon
<1>8. Script["mallopt_tuning"][5] = Malloc("q", 1)
  BY <1>1, MalloptTuningScript, Zenon
<1>9. Script["mallopt_tuning"][6] = Free("q")
  BY <1>1, MalloptTuningScript, Zenon
<1>10. Script["mallopt_tuning"][7] = Return
  BY <1>1, MalloptTuningScript, Zenon
<1>11. Fits("mallopt_tuning", 1) /\ Fits("mallopt_tuning", 2)
  BY <1>3, <1>4, <1>5, <1>6, PointersAre, LargeIs
     DEF Fits, Leaves, KindOf, Mallocers, Careful, Unchecked, From, Free, Get, Malloc
<1>12. Fits("mallopt_tuning", 3) /\ Fits("mallopt_tuning", 4)
  BY <1>3, <1>6, <1>7, <1>8, PointersAre, LargeIs
     DEF Fits, Leaves, KindOf, Mallocers, Careful, Unchecked, From, Free, Get, Malloc
<1>13. Fits("mallopt_tuning", 5) /\ Fits("mallopt_tuning", 6)
  BY <1>3, <1>8, <1>9, <1>10, PointersAre, LargeIs
     DEF Fits, Leaves, KindOf, Mallocers, Careful, Unchecked, From, Do, Free, Get, Malloc,
         Return
<1>14. Fits("mallopt_tuning", 7)
  BY <1>3, <1>10, PointersAre, LargeIs
     DEF Fits, Leaves, KindOf, Mallocers, Careful, Unchecked, From, Do, Return
<1> SUFFICES ASSUME NEW k \in 1 .. 7 PROVE Fits("mallopt_tuning", k)
  BY <1>2
<1>15. k = 1 \/ k = 2 \/ k = 3 \/ k = 4 \/ k = 5 \/ k = 6 \/ k = 7
  BY LargeIs
<1> QED BY <1>15, <1>11, <1>12, <1>13, <1>14

(* What 04_heap_malloc/05_mallinfo.c holds goes with each of its steps. *)
LEMMA Fit_mallinfo == \A k \in DOMAIN Script["mallinfo"] : Fits("mallinfo", k)
<1>1. Script["mallinfo"] = mallinfo
  BY ScriptOf
<1>2. DOMAIN Script["mallinfo"] = 1 .. 7
  BY <1>1, MallinfoScript, Zenon
<1>3. \A k \in Nat, r \in Pointers : Holdings["mallinfo"][k][r] =
        IF r = "small[0]" THEN From(2, 3, 1, k) ELSE IF r = "small[1]" THEN From(3, 4, 1, k)
      ELSE IF r = "r" THEN From(6, 6, Large, k) ELSE 0
  BY DEF Holdings
<1>4. Script["mallinfo"][1] = Malloc("small[0]", 1)
  BY <1>1, MallinfoScript, Zenon
<1>5. Script["mallinfo"][2] = Malloc("small[1]", 1)
  BY <1>1, MallinfoScript, Zenon
<1>6. Script["mallinfo"][3] = Free("small[0]")
  BY <1>1, MallinfoScript, Zenon
<1>7. Script["mallinfo"][4] = Free("small[1]")
  BY <1>1, MallinfoScript, Zenon
<1>8. Script["mallinfo"][5] = Malloc("r", Large)
  BY <1>1, MallinfoScript, Zenon
<1>9. Script["mallinfo"][6] = Free("r")
  BY <1>1, MallinfoScript, Zenon
<1>10. Script["mallinfo"][7] = Return
  BY <1>1, MallinfoScript, Zenon
<1>11. Fits("mallinfo", 1) /\ Fits("mallinfo", 2)
  BY <1>3, <1>4, <1>5, <1>6, PointersAre, LargeIs
     DEF Fits, Leaves, KindOf, Mallocers, Careful, Unchecked, From, Free, Get, Malloc
<1>12. Fits("mallinfo", 3) /\ Fits("mallinfo", 4)
  BY <1>3, <1>6, <1>7, <1>8, PointersAre, LargeIs
     DEF Fits, Leaves, KindOf, Mallocers, Careful, Unchecked, From, Free, Get, Malloc
<1>13. Fits("mallinfo", 5) /\ Fits("mallinfo", 6)
  BY <1>3, <1>8, <1>9, <1>10, PointersAre, LargeIs
     DEF Fits, Leaves, KindOf, Mallocers, Careful, Unchecked, From, Do, Free, Get, Malloc,
         Return
<1>14. Fits("mallinfo", 7)
  BY <1>3, <1>10, PointersAre, LargeIs
     DEF Fits, Leaves, KindOf, Mallocers, Careful, Unchecked, From, Do, Return
<1> SUFFICES ASSUME NEW k \in 1 .. 7 PROVE Fits("mallinfo", k)
  BY <1>2
<1>15. k = 1 \/ k = 2 \/ k = 3 \/ k = 4 \/ k = 5 \/ k = 6 \/ k = 7
  BY LargeIs
<1> QED BY <1>15, <1>11, <1>12, <1>13, <1>14

(* What 04_heap_malloc/13_malloc_trim.c holds goes with each of its steps. *)
LEMMA Fit_malloc_trim == \A k \in DOMAIN Script["malloc_trim"] : Fits("malloc_trim", k)
<1>1. Script["malloc_trim"] = malloc_trim
  BY ScriptOf
<1>2. DOMAIN Script["malloc_trim"] = 1 .. 12
  BY <1>1, MallocTrimScript, Zenon
<1>3. \A k \in Nat, r \in Pointers : Holdings["malloc_trim"][k][r] =
        IF r = "big[0]" THEN From(3, 7, 1, k) ELSE IF r = "big[1]" THEN From(4, 8, 1, k) ELSE 0
  BY DEF Holdings
<1>4. Script["malloc_trim"][1] = Rss
  BY <1>1, MallocTrimScript, Zenon
<1>5. Script["malloc_trim"][2] = Malloc("big[0]", 1)
  BY <1>1, MallocTrimScript, Zenon
<1>6. Script["malloc_trim"][3] = Malloc("big[1]", 1)
  BY <1>1, MallocTrimScript, Zenon
<1>7. Script["malloc_trim"][4] = Write("big[0]", 0, "1")
  BY <1>1, MallocTrimScript, Zenon
<1>8. Script["malloc_trim"][5] = Write("big[1]", 0, "1")
  BY <1>1, MallocTrimScript, Zenon
<1>9. Script["malloc_trim"][6] = Rss
  BY <1>1, MallocTrimScript, Zenon
<1>10. Script["malloc_trim"][7] = Free("big[0]")
  BY <1>1, MallocTrimScript, Zenon
<1>11. Script["malloc_trim"][8] = Free("big[1]")
  BY <1>1, MallocTrimScript, Zenon
<1>12. Script["malloc_trim"][9] = Rss
  BY <1>1, MallocTrimScript, Zenon
<1>13. Script["malloc_trim"][10] = Trim
  BY <1>1, MallocTrimScript, Zenon
<1>14. Script["malloc_trim"][11] = Rss
  BY <1>1, MallocTrimScript, Zenon
<1>15. Script["malloc_trim"][12] = Return
  BY <1>1, MallocTrimScript, Zenon
<1>16. Fits("malloc_trim", 1) /\ Fits("malloc_trim", 2)
  BY <1>3, <1>4, <1>5, <1>6, PointersAre, LargeIs
     DEF Fits, Leaves, KindOf, Mallocers, Careful, Unchecked, From, Do, Get, Malloc, Rss
<1>17. Fits("malloc_trim", 3) /\ Fits("malloc_trim", 4)
  BY <1>3, <1>6, <1>7, <1>8, PointersAre, LargeIs
     DEF Fits, Leaves, KindOf, Mallocers, Careful, Unchecked, From, Get, Malloc, Write
<1>18. Fits("malloc_trim", 5) /\ Fits("malloc_trim", 6)
  BY <1>3, <1>8, <1>9, <1>10, PointersAre, LargeIs
     DEF Fits, Leaves, KindOf, Mallocers, Careful, Unchecked, From, Do, Free, Rss, Write
<1>19. Fits("malloc_trim", 7) /\ Fits("malloc_trim", 8)
  BY <1>3, <1>10, <1>11, <1>12, PointersAre, LargeIs
     DEF Fits, Leaves, KindOf, Mallocers, Careful, Unchecked, From, Do, Free, Rss
<1>20. Fits("malloc_trim", 9) /\ Fits("malloc_trim", 10)
  BY <1>3, <1>12, <1>13, <1>14, PointersAre, LargeIs
     DEF Fits, Leaves, KindOf, Mallocers, Careful, Unchecked, From, Do, Trim, Rss
<1>21. Fits("malloc_trim", 11) /\ Fits("malloc_trim", 12)
  BY <1>3, <1>14, <1>15, PointersAre, LargeIs
     DEF Fits, Leaves, KindOf, Mallocers, Careful, Unchecked, From, Do, Return, Rss
<1> SUFFICES ASSUME NEW k \in 1 .. 12 PROVE Fits("malloc_trim", k)
  BY <1>2
<1>22. k = 1 \/ k = 2 \/ k = 3 \/ k = 4 \/ k = 5 \/ k = 6 \/ k = 7 \/ k = 8 \/ k = 9 \/
       k = 10 \/ k = 11 \/ k = 12
  BY LargeIs
<1> QED BY <1>22, <1>16, <1>17, <1>18, <1>19, <1>20, <1>21

(* What 12_debugging_tools/05_mallinfo_dump.c holds goes with each of its steps. *)
LEMMA Fit_mallinfo_dump == \A k \in DOMAIN Script["mallinfo_dump"] : Fits("mallinfo_dump", k)
<1>1. Script["mallinfo_dump"] = mallinfo_dump
  BY ScriptOf
<1>2. DOMAIN Script["mallinfo_dump"] = 1 .. 5
  BY <1>1, MallinfoDumpScript, Zenon
<1>3. \A k \in Nat, r \in Pointers : Holdings["mallinfo_dump"][k][r] =
        IF r = "small[0]" THEN From(2, 3, 1, k) ELSE IF r = "small[1]" THEN From(3, 4, 1, k) ELSE 0
  BY DEF Holdings
<1>4. Script["mallinfo_dump"][1] = Malloc("small[0]", 1)
  BY <1>1, MallinfoDumpScript, Zenon
<1>5. Script["mallinfo_dump"][2] = Malloc("small[1]", 1)
  BY <1>1, MallinfoDumpScript, Zenon
<1>6. Script["mallinfo_dump"][3] = Free("small[0]")
  BY <1>1, MallinfoDumpScript, Zenon
<1>7. Script["mallinfo_dump"][4] = Free("small[1]")
  BY <1>1, MallinfoDumpScript, Zenon
<1>8. Script["mallinfo_dump"][5] = Return
  BY <1>1, MallinfoDumpScript, Zenon
<1>9. Fits("mallinfo_dump", 1) /\ Fits("mallinfo_dump", 2)
  BY <1>3, <1>4, <1>5, <1>6, PointersAre, LargeIs
     DEF Fits, Leaves, KindOf, Mallocers, Careful, Unchecked, From, Free, Get, Malloc
<1>10. Fits("mallinfo_dump", 3) /\ Fits("mallinfo_dump", 4)
  BY <1>3, <1>6, <1>7, <1>8, PointersAre, LargeIs
     DEF Fits, Leaves, KindOf, Mallocers, Careful, Unchecked, From, Do, Free, Return
<1>11. Fits("mallinfo_dump", 5)
  BY <1>3, <1>8, PointersAre, LargeIs
     DEF Fits, Leaves, KindOf, Mallocers, Careful, Unchecked, From, Do, Return
<1> SUFFICES ASSUME NEW k \in 1 .. 5 PROVE Fits("mallinfo_dump", k)
  BY <1>2
<1>12. k = 1 \/ k = 2 \/ k = 3 \/ k = 4 \/ k = 5
  BY LargeIs
<1> QED BY <1>12, <1>9, <1>10, <1>11

(* What 05_mmap/06_madvise_dontneed.c holds goes with each of its steps. *)
LEMMA Fit_madvise_dontneed == \A k \in DOMAIN Script["madvise_dontneed"] : Fits("madvise_dontneed", k)
<1>1. Script["madvise_dontneed"] = madvise_dontneed
  BY ScriptOf
<1>2. DOMAIN Script["madvise_dontneed"] = 1 .. Large + 11
  BY <1>1, MadviseDontneedScript, Zenon
<1>3. \A k \in Nat, r \in Pointers : Holdings["madvise_dontneed"][k][r] =
        IF r = "p" THEN From(2, Large + 10, Large, k) ELSE 0
  BY DEF Holdings, Only
<1>4. Script["madvise_dontneed"][1] = Mmap("p", Large)
  BY <1>1, MadviseDontneedScript, Zenon
<1>5. Script["madvise_dontneed"][2] = Check("p")
  BY <1>1, MadviseDontneedScript, Zenon
<1>6. Script["madvise_dontneed"][3] = Rss
  BY <1>1, MadviseDontneedScript, Zenon
<1>7. \A k \in 4 .. Large + 3 : Script["madvise_dontneed"][k] = Write("p", k - 4, "1")
  BY <1>1, MadviseDontneedScript, Zenon
<1>8. Script["madvise_dontneed"][Large + 4] = Rss
  BY <1>1, MadviseDontneedScript, Zenon
<1>9. Script["madvise_dontneed"][Large + 5] = Dontneed("p", Large)
  BY <1>1, MadviseDontneedScript, Zenon
<1>10. Script["madvise_dontneed"][Large + 6] = Rss
  BY <1>1, MadviseDontneedScript, Zenon
<1>11. Script["madvise_dontneed"][Large + 7] = Read("p", 0)
  BY <1>1, MadviseDontneedScript, Zenon
<1>12. Script["madvise_dontneed"][Large + 8] = Read("p", 1)
  BY <1>1, MadviseDontneedScript, Zenon
<1>13. Script["madvise_dontneed"][Large + 9] = Rss
  BY <1>1, MadviseDontneedScript, Zenon
<1>14. Script["madvise_dontneed"][Large + 10] = Munmap("p", Large)
  BY <1>1, MadviseDontneedScript, Zenon
<1>15. Script["madvise_dontneed"][Large + 11] = Return
  BY <1>1, MadviseDontneedScript, Zenon
<1>16. Fits("madvise_dontneed", 1) /\ Fits("madvise_dontneed", 2)
  BY <1>3, <1>4, <1>5, <1>6, PointersAre, LargeIs
     DEF Fits, Leaves, KindOf, Mallocers, Careful, Unchecked, From, Check, Do, Get, Mmap, Rss
<1>17. Fits("madvise_dontneed", 3)
  BY <1>3, <1>6, PointersAre, LargeIs
     DEF Fits, Leaves, KindOf, Mallocers, Careful, Unchecked, From, Do, Rss
<1>18. ASSUME NEW k \in 4 .. Large + 3 PROVE Fits("madvise_dontneed", k)
  <2>1. Script["madvise_dontneed"][k] = Write("p", k - 4, "1")
    BY <1>7
  <2>2. \A r \in Pointers : /\ Holdings["madvise_dontneed"][k][r] = IF r = "p" THEN Large ELSE 0
                            /\ Holdings["madvise_dontneed"][k + 1][r] = IF r = "p" THEN Large ELSE 0
    BY <1>3, LargeIs DEF From
  <2> QED BY <2>1, <2>2, PointersAre, LargeIs
          DEF Fits, Leaves, KindOf, Mallocers, Careful, Unchecked, Write
<1>19. Fits("madvise_dontneed", Large + 4) /\ Fits("madvise_dontneed", Large + 5)
  BY <1>3, <1>8, <1>9, <1>10, PointersAre, LargeIs
     DEF Fits, Leaves, KindOf, Mallocers, Careful, Unchecked, From, Do, Dontneed, Rss
<1>20. Fits("madvise_dontneed", Large + 6) /\ Fits("madvise_dontneed", Large + 7)
  BY <1>3, <1>10, <1>11, <1>12, PointersAre, LargeIs
     DEF Fits, Leaves, KindOf, Mallocers, Careful, Unchecked, From, Do, Read, Rss
<1>21. Fits("madvise_dontneed", Large + 8) /\ Fits("madvise_dontneed", Large + 9)
  BY <1>3, <1>12, <1>13, <1>14, PointersAre, LargeIs
     DEF Fits, Leaves, KindOf, Mallocers, Careful, Unchecked, From, Do, Munmap, Read, Rss
<1>22. Fits("madvise_dontneed", Large + 10) /\ Fits("madvise_dontneed", Large + 11)
  BY <1>3, <1>14, <1>15, PointersAre, LargeIs
     DEF Fits, Leaves, KindOf, Mallocers, Careful, Unchecked, From, Do, Munmap, Return
<1> SUFFICES ASSUME NEW k \in 1 .. Large + 11 PROVE Fits("madvise_dontneed", k)
  BY <1>2
<1>23. k = 1 \/ k = 2 \/ k = 3 \/ k \in 4 .. Large + 3 \/ k = Large + 4 \/ k = Large + 5 \/
       k = Large + 6 \/ k = Large + 7 \/ k = Large + 8 \/ k = Large + 9 \/ k = Large + 10 \/
       k = Large + 11
  BY LargeIs
<1> QED BY <1>23, <1>16, <1>17, <1>18, <1>19, <1>20, <1>21, <1>22

(* What 05_mmap/08_map_populate.c holds goes with each of its steps. *)
LEMMA Fit_map_populate == \A k \in DOMAIN Script["map_populate"] : Fits("map_populate", k)
<1>1. Script["map_populate"] = map_populate
  BY ScriptOf
<1>2. DOMAIN Script["map_populate"] = 1 .. 3 * Large + 5
  BY <1>1, MapPopulateScript, Zenon
<1>3. \A k \in Nat, r \in Pointers : Holdings["map_populate"][k][r] =
        IF r = "p" THEN From(2, 2 * Large + 2, Large, k) + From(2 * Large + 4, 3 * Large + 4, Large, k)
      ELSE 0
  BY DEF Holdings
<1>4. Script["map_populate"][1] = Mmap("p", Large)
  BY <1>1, MapPopulateScript, Zenon
<1>5. \A k \in 2 .. Large + 1 : Script["map_populate"][k] = Write("p", k - 2, "1")
  BY <1>1, MapPopulateScript, Zenon
<1>6. \A k \in Large + 2 .. 2 * Large + 1 : Script["map_populate"][k] = Write("p", k - Large - 2, "1")
  BY <1>1, MapPopulateScript, Zenon
<1>7. Script["map_populate"][2 * Large + 2] = Munmap("p", Large)
  BY <1>1, MapPopulateScript, Zenon
<1>8. /\ Script["map_populate"][2 * Large + 3].op = "get" /\ Script["map_populate"][2 * Large + 3].p = "p"
             /\ Script["map_populate"][2 * Large + 3].n = Large
             /\ Script["map_populate"][2 * Large + 3].kind = "map"
  BY <1>1, MapPopulateScript DEF MmapPopulate, Get
<1>9. \A k \in 2 * Large + 4 .. 3 * Large + 3 : Script["map_populate"][k] = Write("p", k - 2 * Large - 4, "1")
  BY <1>1, MapPopulateScript, Zenon
<1>10. Script["map_populate"][3 * Large + 4] = Munmap("p", Large)
  BY <1>1, MapPopulateScript, Zenon
<1>11. Script["map_populate"][3 * Large + 5] = Return
  BY <1>1, MapPopulateScript, Zenon
<1>12. Fits("map_populate", 1)
  BY <1>3, <1>4, PointersAre, LargeIs
     DEF Fits, Leaves, KindOf, Mallocers, Careful, Unchecked, From, Get, Mmap
<1>13. ASSUME NEW k \in 2 .. Large + 1 PROVE Fits("map_populate", k)
  <2>1. Script["map_populate"][k] = Write("p", k - 2, "1")
    BY <1>5
  <2>2. \A r \in Pointers : /\ Holdings["map_populate"][k][r] = IF r = "p" THEN Large ELSE 0
                            /\ Holdings["map_populate"][k + 1][r] = IF r = "p" THEN Large ELSE 0
    BY <1>3, LargeIs DEF From
  <2> QED BY <2>1, <2>2, PointersAre, LargeIs
          DEF Fits, Leaves, KindOf, Mallocers, Careful, Unchecked, Write
<1>14. ASSUME NEW k \in Large + 2 .. 2 * Large + 1 PROVE Fits("map_populate", k)
  <2>1. Script["map_populate"][k] = Write("p", k - Large - 2, "1")
    BY <1>6
  <2>2. \A r \in Pointers : /\ Holdings["map_populate"][k][r] = IF r = "p" THEN Large ELSE 0
                            /\ Holdings["map_populate"][k + 1][r] = IF r = "p" THEN Large ELSE 0
    BY <1>3, LargeIs DEF From
  <2> QED BY <2>1, <2>2, PointersAre, LargeIs
          DEF Fits, Leaves, KindOf, Mallocers, Careful, Unchecked, Write
<1>15. Fits("map_populate", 2 * Large + 2) /\ Fits("map_populate", 2 * Large + 3)
  BY <1>3, <1>7, <1>8, PointersAre, LargeIs
     DEF Fits, Leaves, KindOf, Mallocers, Careful, Unchecked, From, Munmap
<1>16. ASSUME NEW k \in 2 * Large + 4 .. 3 * Large + 3 PROVE Fits("map_populate", k)
  <2>1. Script["map_populate"][k] = Write("p", k - 2 * Large - 4, "1")
    BY <1>9
  <2>2. \A r \in Pointers : /\ Holdings["map_populate"][k][r] = IF r = "p" THEN Large ELSE 0
                            /\ Holdings["map_populate"][k + 1][r] = IF r = "p" THEN Large ELSE 0
    BY <1>3, LargeIs DEF From
  <2> QED BY <2>1, <2>2, PointersAre, LargeIs
          DEF Fits, Leaves, KindOf, Mallocers, Careful, Unchecked, Write
<1>17. Fits("map_populate", 3 * Large + 4) /\ Fits("map_populate", 3 * Large + 5)
  BY <1>3, <1>10, <1>11, PointersAre, LargeIs
     DEF Fits, Leaves, KindOf, Mallocers, Careful, Unchecked, From, Do, Munmap, Return
<1> SUFFICES ASSUME NEW k \in 1 .. 3 * Large + 5 PROVE Fits("map_populate", k)
  BY <1>2
<1>18. k = 1 \/ k \in 2 .. Large + 1 \/ k \in Large + 2 .. 2 * Large + 1 \/
       k = 2 * Large + 2 \/ k = 2 * Large + 3 \/ k \in 2 * Large + 4 .. 3 * Large + 3 \/
       k = 3 * Large + 4 \/ k = 3 * Large + 5
  BY LargeIs
<1> QED BY <1>18, <1>12, <1>13, <1>14, <1>15, <1>16, <1>17

(* What 07_paging_swapping/02_mlock.c holds goes with each of its steps. *)
LEMMA Fit_mlock == \A k \in DOMAIN Script["mlock"] : Fits("mlock", k)
<1>1. Script["mlock"] = mlock
  BY ScriptOf
<1>2. DOMAIN Script["mlock"] = 1 .. Large + 9
  BY <1>1, MlockScript, Zenon
<1>3. \A k \in Nat, r \in Pointers : Holdings["mlock"][k][r] =
        IF r = "p" THEN From(3, Large + 8, Large, k) ELSE 0
  BY DEF Holdings, Only
<1>4. Script["mlock"][1] = Rss
  BY <1>1, MlockScript, Zenon
<1>5. Script["mlock"][2] = Malloc("p", Large)
  BY <1>1, MlockScript, Zenon
<1>6. \A k \in 3 .. Large + 2 : Script["mlock"][k] = Write("p", k - 3, "1")
  BY <1>1, MlockScript, Zenon
<1>7. Script["mlock"][Large + 3] = Rss
  BY <1>1, MlockScript, Zenon
<1>8. Script["mlock"][Large + 4] = Mlock("p", Large)
  BY <1>1, MlockScript, Zenon
<1>9. Script["mlock"][Large + 5] = Rss
  BY <1>1, MlockScript, Zenon
<1>10. Script["mlock"][Large + 6] = Munlock("p", Large)
  BY <1>1, MlockScript, Zenon
<1>11. Script["mlock"][Large + 7] = Rss
  BY <1>1, MlockScript, Zenon
<1>12. Script["mlock"][Large + 8] = Free("p")
  BY <1>1, MlockScript, Zenon
<1>13. Script["mlock"][Large + 9] = Return
  BY <1>1, MlockScript, Zenon
<1>14. Fits("mlock", 1) /\ Fits("mlock", 2)
  BY <1>3, <1>4, <1>5, PointersAre, LargeIs
     DEF Fits, Leaves, KindOf, Mallocers, Careful, Unchecked, From, Do, Get, Malloc, Rss
<1>15. ASSUME NEW k \in 3 .. Large + 2 PROVE Fits("mlock", k)
  <2>1. Script["mlock"][k] = Write("p", k - 3, "1")
    BY <1>6
  <2>2. \A r \in Pointers : /\ Holdings["mlock"][k][r] = IF r = "p" THEN Large ELSE 0
                            /\ Holdings["mlock"][k + 1][r] = IF r = "p" THEN Large ELSE 0
    BY <1>3, LargeIs DEF From
  <2> QED BY <2>1, <2>2, PointersAre, LargeIs
          DEF Fits, Leaves, KindOf, Mallocers, Careful, Unchecked, Write
<1>16. Fits("mlock", Large + 3) /\ Fits("mlock", Large + 4)
  BY <1>3, <1>7, <1>8, <1>9, PointersAre, LargeIs
     DEF Fits, Leaves, KindOf, Mallocers, Careful, Unchecked, From, Do, Mlock, Rss
<1>17. Fits("mlock", Large + 5) /\ Fits("mlock", Large + 6)
  BY <1>3, <1>9, <1>10, <1>11, PointersAre, LargeIs
     DEF Fits, Leaves, KindOf, Mallocers, Careful, Unchecked, From, Do, Munlock, Rss
<1>18. Fits("mlock", Large + 7) /\ Fits("mlock", Large + 8)
  BY <1>3, <1>11, <1>12, <1>13, PointersAre, LargeIs
     DEF Fits, Leaves, KindOf, Mallocers, Careful, Unchecked, From, Do, Free, Return, Rss
<1>19. Fits("mlock", Large + 9)
  BY <1>3, <1>13, PointersAre, LargeIs
     DEF Fits, Leaves, KindOf, Mallocers, Careful, Unchecked, From, Do, Return
<1> SUFFICES ASSUME NEW k \in 1 .. Large + 9 PROVE Fits("mlock", k)
  BY <1>2
<1>20. k = 1 \/ k = 2 \/ k \in 3 .. Large + 2 \/ k = Large + 3 \/ k = Large + 4 \/
       k = Large + 5 \/ k = Large + 6 \/ k = Large + 7 \/ k = Large + 8 \/ k = Large + 9
  BY LargeIs
<1> QED BY <1>20, <1>14, <1>15, <1>16, <1>17, <1>18, <1>19

(* What 07_paging_swapping/03_madvise_pageout.c holds goes with each of its steps. *)
LEMMA Fit_madvise_pageout == \A k \in DOMAIN Script["madvise_pageout"] : Fits("madvise_pageout", k)
<1>1. Script["madvise_pageout"] = madvise_pageout
  BY ScriptOf
<1>2. DOMAIN Script["madvise_pageout"] = 1 .. Large + 8
  BY <1>1, MadvisePageoutScript, Zenon
<1>3. \A k \in Nat, r \in Pointers : Holdings["madvise_pageout"][k][r] =
        IF r = "p" THEN From(2, Large + 7, Large, k) ELSE 0
  BY DEF Holdings, Only
<1>4. Script["madvise_pageout"][1] = Mmap("p", Large)
  BY <1>1, MadvisePageoutScript, Zenon
<1>5. \A k \in 2 .. Large + 1 : Script["madvise_pageout"][k] = Write("p", k - 2, "0xAA")
  BY <1>1, MadvisePageoutScript, Zenon
<1>6. Script["madvise_pageout"][Large + 2] = Rss
  BY <1>1, MadvisePageoutScript, Zenon
<1>7. Script["madvise_pageout"][Large + 3] = Pageout("p", Large)
  BY <1>1, MadvisePageoutScript, Zenon
<1>8. Script["madvise_pageout"][Large + 4] = Rss
  BY <1>1, MadvisePageoutScript, Zenon
<1>9. Script["madvise_pageout"][Large + 5] = Read("p", 1)
  BY <1>1, MadvisePageoutScript, Zenon
<1>10. Script["madvise_pageout"][Large + 6] = Rss
  BY <1>1, MadvisePageoutScript, Zenon
<1>11. Script["madvise_pageout"][Large + 7] = Munmap("p", Large)
  BY <1>1, MadvisePageoutScript, Zenon
<1>12. Script["madvise_pageout"][Large + 8] = Return
  BY <1>1, MadvisePageoutScript, Zenon
<1>13. Fits("madvise_pageout", 1)
  BY <1>3, <1>4, PointersAre, LargeIs
     DEF Fits, Leaves, KindOf, Mallocers, Careful, Unchecked, From, Get, Mmap
<1>14. ASSUME NEW k \in 2 .. Large + 1 PROVE Fits("madvise_pageout", k)
  <2>1. Script["madvise_pageout"][k] = Write("p", k - 2, "0xAA")
    BY <1>5
  <2>2. \A r \in Pointers : /\ Holdings["madvise_pageout"][k][r] = IF r = "p" THEN Large ELSE 0
                            /\ Holdings["madvise_pageout"][k + 1][r] = IF r = "p" THEN Large ELSE 0
    BY <1>3, LargeIs DEF From
  <2> QED BY <2>1, <2>2, PointersAre, LargeIs
          DEF Fits, Leaves, KindOf, Mallocers, Careful, Unchecked, Write
<1>15. Fits("madvise_pageout", Large + 2) /\ Fits("madvise_pageout", Large + 3)
  BY <1>3, <1>6, <1>7, <1>8, PointersAre, LargeIs
     DEF Fits, Leaves, KindOf, Mallocers, Careful, Unchecked, From, Do, Pageout, Rss
<1>16. Fits("madvise_pageout", Large + 4) /\ Fits("madvise_pageout", Large + 5)
  BY <1>3, <1>8, <1>9, <1>10, PointersAre, LargeIs
     DEF Fits, Leaves, KindOf, Mallocers, Careful, Unchecked, From, Do, Read, Rss
<1>17. Fits("madvise_pageout", Large + 6) /\ Fits("madvise_pageout", Large + 7)
  BY <1>3, <1>10, <1>11, <1>12, PointersAre, LargeIs
     DEF Fits, Leaves, KindOf, Mallocers, Careful, Unchecked, From, Do, Munmap, Return, Rss
<1>18. Fits("madvise_pageout", Large + 8)
  BY <1>3, <1>12, PointersAre, LargeIs
     DEF Fits, Leaves, KindOf, Mallocers, Careful, Unchecked, From, Do, Return
<1> SUFFICES ASSUME NEW k \in 1 .. Large + 8 PROVE Fits("madvise_pageout", k)
  BY <1>2
<1>19. k = 1 \/ k \in 2 .. Large + 1 \/ k = Large + 2 \/ k = Large + 3 \/ k = Large + 4 \/
       k = Large + 5 \/ k = Large + 6 \/ k = Large + 7 \/ k = Large + 8
  BY LargeIs
<1> QED BY <1>19, <1>13, <1>14, <1>15, <1>16, <1>17, <1>18

(* What 12_debugging_tools/04_getrusage_demo.c holds goes with each of its steps. *)
LEMMA Fit_getrusage_demo == \A k \in DOMAIN Script["getrusage_demo"] : Fits("getrusage_demo", k)
<1>1. Script["getrusage_demo"] = getrusage_demo
  BY ScriptOf
<1>2. DOMAIN Script["getrusage_demo"] = 1 .. 2 * Large + 7
  BY <1>1, GetrusageDemoScript, Zenon
<1>3. \A k \in Nat, r \in Pointers : Holdings["getrusage_demo"][k][r] =
        IF r = "p" THEN From(3, 2 * Large + 5, Large, k) ELSE 0
  BY DEF Holdings, Only
<1>4. Script["getrusage_demo"][1].op = "rusage"
  BY <1>1, GetrusageDemoScript DEF Rusage
<1>5. Script["getrusage_demo"][2] = Malloc("p", Large)
  BY <1>1, GetrusageDemoScript, Zenon
<1>6. \A k \in 3 .. Large + 2 : Script["getrusage_demo"][k] = Write("p", k - 3, "1")
  BY <1>1, GetrusageDemoScript, Zenon
<1>7. Script["getrusage_demo"][Large + 3].op = "rusage"
  BY <1>1, GetrusageDemoScript DEF Rusage
<1>8. \A k \in Large + 4 .. 2 * Large + 3 : Script["getrusage_demo"][k] = Touch("p", k - Large - 4)
  BY <1>1, GetrusageDemoScript, Zenon
<1>9. Script["getrusage_demo"][2 * Large + 4].op = "rusage"
  BY <1>1, GetrusageDemoScript DEF Rusage
<1>10. Script["getrusage_demo"][2 * Large + 5] = Free("p")
  BY <1>1, GetrusageDemoScript, Zenon
<1>11. Script["getrusage_demo"][2 * Large + 6].op = "rusage"
  BY <1>1, GetrusageDemoScript DEF Rusage
<1>12. Script["getrusage_demo"][2 * Large + 7] = Return
  BY <1>1, GetrusageDemoScript, Zenon
<1>13. Fits("getrusage_demo", 1) /\ Fits("getrusage_demo", 2)
  BY <1>3, <1>4, <1>5, PointersAre, LargeIs
     DEF Fits, Leaves, KindOf, Mallocers, Careful, Unchecked, From, Get, Malloc
<1>14. ASSUME NEW k \in 3 .. Large + 2 PROVE Fits("getrusage_demo", k)
  <2>1. Script["getrusage_demo"][k] = Write("p", k - 3, "1")
    BY <1>6
  <2>2. \A r \in Pointers : /\ Holdings["getrusage_demo"][k][r] = IF r = "p" THEN Large ELSE 0
                            /\ Holdings["getrusage_demo"][k + 1][r] = IF r = "p" THEN Large ELSE 0
    BY <1>3, LargeIs DEF From
  <2> QED BY <2>1, <2>2, PointersAre, LargeIs
          DEF Fits, Leaves, KindOf, Mallocers, Careful, Unchecked, Write
<1>15. Fits("getrusage_demo", Large + 3)
  BY <1>3, <1>7, PointersAre, LargeIs
     DEF Fits, Leaves, KindOf, Mallocers, Careful, Unchecked, From
<1>16. ASSUME NEW k \in Large + 4 .. 2 * Large + 3 PROVE Fits("getrusage_demo", k)
  <2>1. Script["getrusage_demo"][k] = Touch("p", k - Large - 4)
    BY <1>8
  <2>2. \A r \in Pointers : /\ Holdings["getrusage_demo"][k][r] = IF r = "p" THEN Large ELSE 0
                            /\ Holdings["getrusage_demo"][k + 1][r] = IF r = "p" THEN Large ELSE 0
    BY <1>3, LargeIs DEF From
  <2> QED BY <2>1, <2>2, PointersAre, LargeIs
          DEF Fits, Leaves, KindOf, Mallocers, Careful, Unchecked, Touch
<1>17. Fits("getrusage_demo", 2 * Large + 4) /\ Fits("getrusage_demo", 2 * Large + 5)
  BY <1>3, <1>9, <1>10, <1>11, PointersAre, LargeIs
     DEF Fits, Leaves, KindOf, Mallocers, Careful, Unchecked, From, Free
<1>18. Fits("getrusage_demo", 2 * Large + 6) /\ Fits("getrusage_demo", 2 * Large + 7)
  BY <1>3, <1>11, <1>12, PointersAre, LargeIs
     DEF Fits, Leaves, KindOf, Mallocers, Careful, Unchecked, From, Do, Return
<1> SUFFICES ASSUME NEW k \in 1 .. 2 * Large + 7 PROVE Fits("getrusage_demo", k)
  BY <1>2
<1>19. k = 1 \/ k = 2 \/ k \in 3 .. Large + 2 \/ k = Large + 3 \/
       k \in Large + 4 .. 2 * Large + 3 \/ k = 2 * Large + 4 \/ k = 2 * Large + 5 \/
       k = 2 * Large + 6 \/ k = 2 * Large + 7
  BY LargeIs
<1> QED BY <1>19, <1>13, <1>14, <1>15, <1>16, <1>17, <1>18

(* What 13_advanced/01_thp_madvise.c holds goes with each of its steps. *)
LEMMA Fit_thp_madvise == \A k \in DOMAIN Script["thp_madvise"] : Fits("thp_madvise", k)
<1>1. Script["thp_madvise"] = thp_madvise
  BY ScriptOf
<1>2. DOMAIN Script["thp_madvise"] = 1 .. Large + 5
  BY <1>1, ThpMadviseScript, Zenon
<1>3. \A k \in Nat, r \in Pointers : Holdings["thp_madvise"][k][r] =
        IF r = "p" THEN From(2, Large + 4, Large, k) ELSE 0
  BY DEF Holdings, Only
<1>4. Script["thp_madvise"][1] = Mmap("p", Large)
  BY <1>1, ThpMadviseScript, Zenon
<1>5. Script["thp_madvise"][2] = Check("p")
  BY <1>1, ThpMadviseScript, Zenon
<1>6. \A k \in 3 .. Large + 2 : Script["thp_madvise"][k] = Write("p", k - 3, "0x41")
  BY <1>1, ThpMadviseScript, Zenon
<1>7. Script["thp_madvise"][Large + 3] = Maps
  BY <1>1, ThpMadviseScript, Zenon
<1>8. Script["thp_madvise"][Large + 4] = Munmap("p", Large)
  BY <1>1, ThpMadviseScript, Zenon
<1>9. Script["thp_madvise"][Large + 5] = Return
  BY <1>1, ThpMadviseScript, Zenon
<1>10. Fits("thp_madvise", 1) /\ Fits("thp_madvise", 2)
  BY <1>3, <1>4, <1>5, PointersAre, LargeIs
     DEF Fits, Leaves, KindOf, Mallocers, Careful, Unchecked, From, Check, Get, Mmap
<1>11. ASSUME NEW k \in 3 .. Large + 2 PROVE Fits("thp_madvise", k)
  <2>1. Script["thp_madvise"][k] = Write("p", k - 3, "0x41")
    BY <1>6
  <2>2. \A r \in Pointers : /\ Holdings["thp_madvise"][k][r] = IF r = "p" THEN Large ELSE 0
                            /\ Holdings["thp_madvise"][k + 1][r] = IF r = "p" THEN Large ELSE 0
    BY <1>3, LargeIs DEF From
  <2> QED BY <2>1, <2>2, PointersAre, LargeIs
          DEF Fits, Leaves, KindOf, Mallocers, Careful, Unchecked, Write
<1>12. Fits("thp_madvise", Large + 3) /\ Fits("thp_madvise", Large + 4)
  BY <1>3, <1>7, <1>8, <1>9, PointersAre, LargeIs
     DEF Fits, Leaves, KindOf, Mallocers, Careful, Unchecked, From, Do, Maps, Munmap, Return
<1>13. Fits("thp_madvise", Large + 5)
  BY <1>3, <1>9, PointersAre, LargeIs
     DEF Fits, Leaves, KindOf, Mallocers, Careful, Unchecked, From, Do, Return
<1> SUFFICES ASSUME NEW k \in 1 .. Large + 5 PROVE Fits("thp_madvise", k)
  BY <1>2
<1>14. k = 1 \/ k = 2 \/ k \in 3 .. Large + 2 \/ k = Large + 3 \/ k = Large + 4 \/ k = Large + 5
  BY LargeIs
<1> QED BY <1>14, <1>10, <1>11, <1>12, <1>13

(* What 13_advanced/05_ksm_demo.c holds goes with each of its steps. *)
LEMMA Fit_ksm_demo == \A k \in DOMAIN Script["ksm_demo"] : Fits("ksm_demo", k)
<1>1. Script["ksm_demo"] = ksm_demo
  BY ScriptOf
<1>2. DOMAIN Script["ksm_demo"] = 1 .. 9
  BY <1>1, KsmDemoScript, Zenon
<1>3. \A k \in Nat, r \in Pointers : Holdings["ksm_demo"][k][r] =
        IF r = "a" THEN From(2, 7, 2, k) ELSE IF r = "b" THEN From(3, 8, 2, k) ELSE 0
  BY DEF Holdings
<1>4. Script["ksm_demo"][1] = Mmap("a", 2)
  BY <1>1, KsmDemoScript, Zenon
<1>5. Script["ksm_demo"][2] = Mmap("b", 2)
  BY <1>1, KsmDemoScript, Zenon
<1>6. Script["ksm_demo"][3] = Write("a", 0, "0xAA")
  BY <1>1, KsmDemoScript, Zenon
<1>7. Script["ksm_demo"][4] = Write("a", 1, "0xAA")
  BY <1>1, KsmDemoScript, Zenon
<1>8. Script["ksm_demo"][5] = Write("b", 0, "0xAA")
  BY <1>1, KsmDemoScript, Zenon
<1>9. Script["ksm_demo"][6] = Write("b", 1, "0xAA")
  BY <1>1, KsmDemoScript, Zenon
<1>10. Script["ksm_demo"][7] = Munmap("a", 2)
  BY <1>1, KsmDemoScript, Zenon
<1>11. Script["ksm_demo"][8] = Munmap("b", 2)
  BY <1>1, KsmDemoScript, Zenon
<1>12. Script["ksm_demo"][9] = Return
  BY <1>1, KsmDemoScript, Zenon
<1>13. Fits("ksm_demo", 1) /\ Fits("ksm_demo", 2)
  BY <1>3, <1>4, <1>5, <1>6, PointersAre, LargeIs
     DEF Fits, Leaves, KindOf, Mallocers, Careful, Unchecked, From, Get, Mmap, Write
<1>14. Fits("ksm_demo", 3) /\ Fits("ksm_demo", 4)
  BY <1>3, <1>6, <1>7, <1>8, PointersAre, LargeIs
     DEF Fits, Leaves, KindOf, Mallocers, Careful, Unchecked, From, Write
<1>15. Fits("ksm_demo", 5) /\ Fits("ksm_demo", 6)
  BY <1>3, <1>8, <1>9, <1>10, PointersAre, LargeIs
     DEF Fits, Leaves, KindOf, Mallocers, Careful, Unchecked, From, Munmap, Write
<1>16. Fits("ksm_demo", 7) /\ Fits("ksm_demo", 8)
  BY <1>3, <1>10, <1>11, <1>12, PointersAre, LargeIs
     DEF Fits, Leaves, KindOf, Mallocers, Careful, Unchecked, From, Do, Munmap, Return
<1>17. Fits("ksm_demo", 9)
  BY <1>3, <1>12, PointersAre, LargeIs
     DEF Fits, Leaves, KindOf, Mallocers, Careful, Unchecked, From, Do, Return
<1> SUFFICES ASSUME NEW k \in 1 .. 9 PROVE Fits("ksm_demo", k)
  BY <1>2
<1>18. k = 1 \/ k = 2 \/ k = 3 \/ k = 4 \/ k = 5 \/ k = 6 \/ k = 7 \/ k = 8 \/ k = 9
  BY LargeIs
<1> QED BY <1>18, <1>13, <1>14, <1>15, <1>16, <1>17

(* 01_virtual_memory/04_pagemap.c, step by step. *)
LEMMA PagemapScript ==
  /\ DOMAIN pagemap = 1 .. 13
  /\ pagemap[1] = Malloc("heap", 1)
  /\ pagemap[2] = Write("heap", 0, "1")
  /\ pagemap[3] = Mmap("anon", 1)
  /\ pagemap[4] = Write("anon", 0, "1")
  /\ pagemap[5] = Pagemap("static")
  /\ pagemap[6] = Pagemap("static")
  /\ pagemap[7] = Pagemap("static")
  /\ pagemap[8] = Pagemap("heap")
  /\ pagemap[9] = Pagemap("anon")
  /\ pagemap[10] = Pagemap("static")
  /\ pagemap[11] = Free("heap")
  /\ pagemap[12] = Munmap("anon", 1)
  /\ pagemap[13] = Return
BY DEF pagemap

(* 04_heap_malloc/02_chunk_layout.c, step by step. *)
LEMMA ChunkLayoutScript ==
  /\ DOMAIN chunk_layout = 1 .. 10
  /\ chunk_layout[1] = Malloc("p", 1)
  /\ chunk_layout[2] = Touch("p", 0)
  /\ chunk_layout[3] = Malloc("q", 1)
  /\ chunk_layout[4] = Touch("q", 0)
  /\ chunk_layout[5] = Malloc("r", Large)
  /\ chunk_layout[6] = Touch("r", 0)
  /\ chunk_layout[7] = Free("p")
  /\ chunk_layout[8] = Free("q")
  /\ chunk_layout[9] = Free("r")
  /\ chunk_layout[10] = Return
BY DEF chunk_layout

(* 05_mmap/01_anon_mmap.c, step by step. *)
LEMMA AnonMmapScript ==
  /\ DOMAIN anon_mmap = 1 .. 8
  /\ anon_mmap[1] = Mmap("p", Large)
  /\ anon_mmap[2] = Check("p")
  /\ anon_mmap[3] = Read("p", 0)
  /\ anon_mmap[4] = Read("p", Large - 1)
  /\ anon_mmap[5] = Write("p", 0, "hello mmap")
  /\ anon_mmap[6] = Read("p", 0)
  /\ anon_mmap[7] = Munmap("p", Large)
  /\ anon_mmap[8] = Return
<1>1. PICK s1, s2 :
        /\ s1 = Read("p", Large - 1)
        /\ s2 = Write("p", 0, "hello mmap")
  BY Zenon
<1>2. anon_mmap = <<Mmap("p", Large), Check("p"), Read("p", 0), s1, s2, Read("p", 0),
                    Munmap("p", Large), Return>>
  BY <1>1, Zenon DEF anon_mmap
<1>3. /\ DOMAIN anon_mmap = 1 .. 8
      /\ anon_mmap[1] = Mmap("p", Large)
      /\ anon_mmap[2] = Check("p")
      /\ anon_mmap[3] = Read("p", 0)
      /\ anon_mmap[4] = s1
      /\ anon_mmap[5] = s2
      /\ anon_mmap[6] = Read("p", 0)
      /\ anon_mmap[7] = Munmap("p", Large)
      /\ anon_mmap[8] = Return
  BY <1>2
<1> QED BY <1>1, <1>3, Zenon

(* 05_mmap/02_file_mmap.c, step by step. *)
LEMMA FileMmapScript ==
  /\ DOMAIN file_mmap = 1 .. 11
  /\ file_mmap[1] = Open(TRUE)
  /\ file_mmap[2] = WriteFile("hello")
  /\ file_mmap[3] = MmapFile("p", "private")
  /\ file_mmap[4] = Check("p")
  /\ file_mmap[5] = Read("p", 0)
  /\ file_mmap[6] = Write("p", 0, "Hello")
  /\ file_mmap[7] = Read("p", 0)
  /\ file_mmap[8] = ReadFile
  /\ file_mmap[9] = Munmap("p", 1)
  /\ file_mmap[10] = Unlink
  /\ file_mmap[11] = Return
<1>1. PICK s1 :
        /\ s1 = Open(TRUE)
  BY Zenon
<1>2. file_mmap = <<s1, WriteFile("hello"), MmapFile("p", "private"), Check("p"), Read("p", 0),
                    Write("p", 0, "Hello"), Read("p", 0), ReadFile, Munmap("p", 1), Unlink,
                    Return>>
  BY <1>1, Zenon DEF file_mmap
<1>3. /\ DOMAIN file_mmap = 1 .. 11
      /\ file_mmap[1] = s1
      /\ file_mmap[2] = WriteFile("hello")
      /\ file_mmap[3] = MmapFile("p", "private")
      /\ file_mmap[4] = Check("p")
      /\ file_mmap[5] = Read("p", 0)
      /\ file_mmap[6] = Write("p", 0, "Hello")
      /\ file_mmap[7] = Read("p", 0)
      /\ file_mmap[8] = ReadFile
      /\ file_mmap[9] = Munmap("p", 1)
      /\ file_mmap[10] = Unlink
      /\ file_mmap[11] = Return
  BY <1>2
<1> QED BY <1>1, <1>3, Zenon

(* 05_mmap/04_file_share_write.c, step by step. *)
LEMMA FileShareWriteScript ==
  /\ DOMAIN file_share_write = 1 .. 10
  /\ file_share_write[1] = Open(FALSE)
  /\ file_share_write[2] = WriteFile("AA")
  /\ file_share_write[3] = MmapFile("p", "shared")
  /\ file_share_write[4] = Check("p")
  /\ file_share_write[5] = Read("p", 0)
  /\ file_share_write[6] = Write("p", 0, "BA")
  /\ file_share_write[7] = ReadFile
  /\ file_share_write[8] = Munmap("p", 1)
  /\ file_share_write[9] = Unlink
  /\ file_share_write[10] = Return
<1>1. PICK s1 :
        /\ s1 = Open(FALSE)
  BY Zenon
<1>2. file_share_write = <<s1, WriteFile("AA"), MmapFile("p", "shared"), Check("p"),
                           Read("p", 0), Write("p", 0, "BA"), ReadFile, Munmap("p", 1), Unlink,
                           Return>>
  BY <1>1, Zenon DEF file_share_write
<1>3. /\ DOMAIN file_share_write = 1 .. 10
      /\ file_share_write[1] = s1
      /\ file_share_write[2] = WriteFile("AA")
      /\ file_share_write[3] = MmapFile("p", "shared")
      /\ file_share_write[4] = Check("p")
      /\ file_share_write[5] = Read("p", 0)
      /\ file_share_write[6] = Write("p", 0, "BA")
      /\ file_share_write[7] = ReadFile
      /\ file_share_write[8] = Munmap("p", 1)
      /\ file_share_write[9] = Unlink
      /\ file_share_write[10] = Return
  BY <1>2
<1> QED BY <1>1, <1>3, Zenon

(* 05_mmap/05_mprotect_guard.c, step by step. *)
LEMMA MprotectGuardScript ==
  /\ DOMAIN mprotect_guard = 1 .. 8
  /\ mprotect_guard[1] = Mmap("p", 3)
  /\ mprotect_guard[2] = Mprotect("p", 2, {}, FALSE)
  /\ mprotect_guard[3] = Mprotect("p", 0, {}, FALSE)
  /\ mprotect_guard[4] = Sigaction("exit", FALSE, FALSE)
  /\ mprotect_guard[5] = Write("p", 1, "0x42")
  /\ mprotect_guard[6] = Write("p", 2, "X")
  /\ mprotect_guard[7] = Unreachable
  /\ mprotect_guard[8] = Return
<1>1. PICK s1, s2, s3 :
        /\ s1 = Mprotect("p", 2, {}, FALSE)
        /\ s2 = Mprotect("p", 0, {}, FALSE)
        /\ s3 = Sigaction("exit", FALSE, FALSE)
  BY Zenon
<1>2. mprotect_guard = <<Mmap("p", 3), s1, s2, s3, Write("p", 1, "0x42"), Write("p", 2, "X"),
                         Unreachable, Return>>
  BY <1>1, Zenon DEF mprotect_guard
<1>3. /\ DOMAIN mprotect_guard = 1 .. 8
      /\ mprotect_guard[1] = Mmap("p", 3)
      /\ mprotect_guard[2] = s1
      /\ mprotect_guard[3] = s2
      /\ mprotect_guard[4] = s3
      /\ mprotect_guard[5] = Write("p", 1, "0x42")
      /\ mprotect_guard[6] = Write("p", 2, "X")
      /\ mprotect_guard[7] = Unreachable
      /\ mprotect_guard[8] = Return
  BY <1>2
<1> QED BY <1>1, <1>3, Zenon

(* 11_memory_protection/01_mprotect_jit.c, step by step. *)
LEMMA MprotectJitScript ==
  /\ DOMAIN mprotect_jit = 1 .. 7
  /\ mprotect_jit[1] = Mmap("p", 1)
  /\ mprotect_jit[2] = Check("p")
  /\ mprotect_jit[3] = Write("p", 0, "code")
  /\ mprotect_jit[4] = Mprotect("p", 0, {"r", "x"}, TRUE)
  /\ mprotect_jit[5] = Exec("p")
  /\ mprotect_jit[6] = Munmap("p", 1)
  /\ mprotect_jit[7] = Return
<1>1. PICK s1 :
        /\ s1 = Mprotect("p", 0, {"r", "x"}, TRUE)
  BY Zenon
<1>2. mprotect_jit = <<Mmap("p", 1), Check("p"), Write("p", 0, "code"), s1, Exec("p"),
                       Munmap("p", 1), Return>>
  BY <1>1, Zenon DEF mprotect_jit
<1>3. /\ DOMAIN mprotect_jit = 1 .. 7
      /\ mprotect_jit[1] = Mmap("p", 1)
      /\ mprotect_jit[2] = Check("p")
      /\ mprotect_jit[3] = Write("p", 0, "code")
      /\ mprotect_jit[4] = s1
      /\ mprotect_jit[5] = Exec("p")
      /\ mprotect_jit[6] = Munmap("p", 1)
      /\ mprotect_jit[7] = Return
  BY <1>2
<1> QED BY <1>1, <1>3, Zenon

(* 11_memory_protection/03_segfault_handler.c, step by step. *)
LEMMA SegfaultHandlerScript ==
  /\ DOMAIN segfault_handler = 1 .. 4
  /\ segfault_handler[1] = Sigaction("exit", TRUE, FALSE)
  /\ segfault_handler[2] = Write("NULL", 0, "42")
  /\ segfault_handler[3] = Unreachable
  /\ segfault_handler[4] = Return
<1>1. PICK s1 :
        /\ s1 = Sigaction("exit", TRUE, FALSE)
  BY Zenon
<1>2. segfault_handler = <<s1, Write("NULL", 0, "42"), Unreachable, Return>>
  BY <1>1, Zenon DEF segfault_handler
<1>3. /\ DOMAIN segfault_handler = 1 .. 4
      /\ segfault_handler[1] = s1
      /\ segfault_handler[2] = Write("NULL", 0, "42")
      /\ segfault_handler[3] = Unreachable
      /\ segfault_handler[4] = Return
  BY <1>2
<1> QED BY <1>1, <1>3, Zenon

(* 11_memory_protection/06_w_xor_x.c, step by step. *)
LEMMA WXorXScript ==
  /\ DOMAIN w_xor_x = 1 .. 6
  /\ w_xor_x[1] = Sigaction("exit", FALSE, FALSE)
  /\ w_xor_x[2] = Mmap("p", 1)
  /\ w_xor_x[3] = Write("p", 0, "ret")
  /\ w_xor_x[4] = Exec("p")
  /\ w_xor_x[5] = Unreachable
  /\ w_xor_x[6] = Return
<1>1. PICK s1 :
        /\ s1 = Sigaction("exit", FALSE, FALSE)
  BY Zenon
<1>2. w_xor_x = <<s1, Mmap("p", 1), Write("p", 0, "ret"), Exec("p"), Unreachable, Return>>
  BY <1>1, Zenon DEF w_xor_x
<1>3. /\ DOMAIN w_xor_x = 1 .. 6
      /\ w_xor_x[1] = s1
      /\ w_xor_x[2] = Mmap("p", 1)
      /\ w_xor_x[3] = Write("p", 0, "ret")
      /\ w_xor_x[4] = Exec("p")
      /\ w_xor_x[5] = Unreachable
      /\ w_xor_x[6] = Return
  BY <1>2
<1> QED BY <1>1, <1>3, Zenon

(* What 01_virtual_memory/04_pagemap.c holds goes with each of its steps. *)
LEMMA Fit_pagemap == \A k \in DOMAIN Script["pagemap"] : Fits("pagemap", k)
<1>1. Script["pagemap"] = pagemap
  BY ScriptOf
<1>2. DOMAIN Script["pagemap"] = 1 .. 13
  BY <1>1, PagemapScript, Zenon
<1>3. \A k \in Nat, r \in Pointers : Holdings["pagemap"][k][r] =
        IF r = "heap" THEN From(2, 11, 1, k) ELSE IF r = "anon" THEN From(4, 12, 1, k) ELSE 0
  BY DEF Holdings
<1>4. Script["pagemap"][1] = Malloc("heap", 1)
  BY <1>1, PagemapScript, Zenon
<1>5. Script["pagemap"][2] = Write("heap", 0, "1")
  BY <1>1, PagemapScript, Zenon
<1>6. Script["pagemap"][3] = Mmap("anon", 1)
  BY <1>1, PagemapScript, Zenon
<1>7. Script["pagemap"][4] = Write("anon", 0, "1")
  BY <1>1, PagemapScript, Zenon
<1>8. Script["pagemap"][5] = Pagemap("static")
  BY <1>1, PagemapScript, Zenon
<1>9. Script["pagemap"][6] = Pagemap("static")
  BY <1>1, PagemapScript, Zenon
<1>10. Script["pagemap"][7] = Pagemap("static")
  BY <1>1, PagemapScript, Zenon
<1>11. Script["pagemap"][8] = Pagemap("heap")
  BY <1>1, PagemapScript, Zenon
<1>12. Script["pagemap"][9] = Pagemap("anon")
  BY <1>1, PagemapScript, Zenon
<1>13. Script["pagemap"][10] = Pagemap("static")
  BY <1>1, PagemapScript, Zenon
<1>14. Script["pagemap"][11] = Free("heap")
  BY <1>1, PagemapScript, Zenon
<1>15. Script["pagemap"][12] = Munmap("anon", 1)
  BY <1>1, PagemapScript, Zenon
<1>16. Script["pagemap"][13] = Return
  BY <1>1, PagemapScript, Zenon
<1>17. Fits("pagemap", 1) /\ Fits("pagemap", 2)
  BY <1>3, <1>4, <1>5, <1>6, PointersAre, LargeIs
     DEF Fits, Leaves, KindOf, Mallocers, Careful, Unchecked, Faulters, Guarded, Jumpers, From,
         Get, Malloc, Mmap, Write
<1>18. Fits("pagemap", 3) /\ Fits("pagemap", 4)
  BY <1>3, <1>6, <1>7, <1>8, PointersAre, LargeIs
     DEF Fits, Leaves, KindOf, Mallocers, Careful, Unchecked, Faulters, Guarded, Jumpers, From,
         Get, Mmap, Pagemap, Write
<1>19. Fits("pagemap", 5) /\ Fits("pagemap", 6)
  BY <1>3, <1>8, <1>9, <1>10, PointersAre, LargeIs
     DEF Fits, Leaves, KindOf, Mallocers, Careful, Unchecked, Faulters, Guarded, Jumpers, From,
         Pagemap
<1>20. Fits("pagemap", 7) /\ Fits("pagemap", 8)
  BY <1>3, <1>10, <1>11, <1>12, PointersAre, LargeIs
     DEF Fits, Leaves, KindOf, Mallocers, Careful, Unchecked, Faulters, Guarded, Jumpers, From,
         Pagemap
<1>21. Fits("pagemap", 9) /\ Fits("pagemap", 10)
  BY <1>3, <1>12, <1>13, <1>14, PointersAre, LargeIs
     DEF Fits, Leaves, KindOf, Mallocers, Careful, Unchecked, Faulters, Guarded, Jumpers, From,
         Free, Pagemap
<1>22. Fits("pagemap", 11) /\ Fits("pagemap", 12)
  BY <1>3, <1>14, <1>15, <1>16, PointersAre, LargeIs
     DEF Fits, Leaves, KindOf, Mallocers, Careful, Unchecked, Faulters, Guarded, Jumpers, From,
         Do, Free, Munmap, Return
<1>23. Fits("pagemap", 13)
  BY <1>3, <1>16, PointersAre, LargeIs
     DEF Fits, Leaves, KindOf, Mallocers, Careful, Unchecked, Faulters, Guarded, Jumpers, From,
         Do, Return
<1> SUFFICES ASSUME NEW k \in 1 .. 13 PROVE Fits("pagemap", k)
  BY <1>2
<1>24. k = 1 \/ k = 2 \/ k = 3 \/ k = 4 \/ k = 5 \/ k = 6 \/ k = 7 \/ k = 8 \/ k = 9 \/
       k = 10 \/ k = 11 \/ k = 12 \/ k = 13
  BY LargeIs
<1> QED BY <1>24, <1>17, <1>18, <1>19, <1>20, <1>21, <1>22, <1>23

(* What 04_heap_malloc/02_chunk_layout.c holds goes with each of its steps. *)
LEMMA Fit_chunk_layout == \A k \in DOMAIN Script["chunk_layout"] : Fits("chunk_layout", k)
<1>1. Script["chunk_layout"] = chunk_layout
  BY ScriptOf
<1>2. DOMAIN Script["chunk_layout"] = 1 .. 10
  BY <1>1, ChunkLayoutScript, Zenon
<1>3. \A k \in Nat, r \in Pointers : Holdings["chunk_layout"][k][r] =
        IF r = "p" THEN From(2, 7, 1, k) ELSE IF r = "q" THEN From(4, 8, 1, k)
      ELSE IF r = "r" THEN From(6, 9, Large, k) ELSE 0
  BY DEF Holdings
<1>4. Script["chunk_layout"][1] = Malloc("p", 1)
  BY <1>1, ChunkLayoutScript, Zenon
<1>5. Script["chunk_layout"][2] = Touch("p", 0)
  BY <1>1, ChunkLayoutScript, Zenon
<1>6. Script["chunk_layout"][3] = Malloc("q", 1)
  BY <1>1, ChunkLayoutScript, Zenon
<1>7. Script["chunk_layout"][4] = Touch("q", 0)
  BY <1>1, ChunkLayoutScript, Zenon
<1>8. Script["chunk_layout"][5] = Malloc("r", Large)
  BY <1>1, ChunkLayoutScript, Zenon
<1>9. Script["chunk_layout"][6] = Touch("r", 0)
  BY <1>1, ChunkLayoutScript, Zenon
<1>10. Script["chunk_layout"][7] = Free("p")
  BY <1>1, ChunkLayoutScript, Zenon
<1>11. Script["chunk_layout"][8] = Free("q")
  BY <1>1, ChunkLayoutScript, Zenon
<1>12. Script["chunk_layout"][9] = Free("r")
  BY <1>1, ChunkLayoutScript, Zenon
<1>13. Script["chunk_layout"][10] = Return
  BY <1>1, ChunkLayoutScript, Zenon
<1>14. Fits("chunk_layout", 1) /\ Fits("chunk_layout", 2)
  BY <1>3, <1>4, <1>5, <1>6, PointersAre, LargeIs
     DEF Fits, Leaves, KindOf, Mallocers, Careful, Unchecked, Faulters, Guarded, Jumpers, From,
         Get, Malloc, Touch
<1>15. Fits("chunk_layout", 3) /\ Fits("chunk_layout", 4)
  BY <1>3, <1>6, <1>7, <1>8, PointersAre, LargeIs
     DEF Fits, Leaves, KindOf, Mallocers, Careful, Unchecked, Faulters, Guarded, Jumpers, From,
         Get, Malloc, Touch
<1>16. Fits("chunk_layout", 5) /\ Fits("chunk_layout", 6)
  BY <1>3, <1>8, <1>9, <1>10, PointersAre, LargeIs
     DEF Fits, Leaves, KindOf, Mallocers, Careful, Unchecked, Faulters, Guarded, Jumpers, From,
         Free, Get, Malloc, Touch
<1>17. Fits("chunk_layout", 7) /\ Fits("chunk_layout", 8)
  BY <1>3, <1>10, <1>11, <1>12, PointersAre, LargeIs
     DEF Fits, Leaves, KindOf, Mallocers, Careful, Unchecked, Faulters, Guarded, Jumpers, From,
         Free
<1>18. Fits("chunk_layout", 9) /\ Fits("chunk_layout", 10)
  BY <1>3, <1>12, <1>13, PointersAre, LargeIs
     DEF Fits, Leaves, KindOf, Mallocers, Careful, Unchecked, Faulters, Guarded, Jumpers, From,
         Do, Free, Return
<1> SUFFICES ASSUME NEW k \in 1 .. 10 PROVE Fits("chunk_layout", k)
  BY <1>2
<1>19. k = 1 \/ k = 2 \/ k = 3 \/ k = 4 \/ k = 5 \/ k = 6 \/ k = 7 \/ k = 8 \/ k = 9 \/ k = 10
  BY LargeIs
<1> QED BY <1>19, <1>14, <1>15, <1>16, <1>17, <1>18

(* What 04_heap_malloc/01_malloc_basics.c holds goes with each of its steps. *)
LEMMA Fit_malloc_basics == \A k \in DOMAIN Script["malloc_basics"] : Fits("malloc_basics", k)
<1>1. Script["malloc_basics"] = malloc_basics
  BY ScriptOf
<1>2. DOMAIN Script["malloc_basics"] = 1 .. 14
  BY <1>1, BasicsScript, Zenon
<1>3. \A k \in Nat, r \in Pointers : Holdings["malloc_basics"][k][r] =
        IF r = "a" THEN From(2, 5, 1, k) + From(6, 8, 2, k) + From(9, 9, Large, k)
      ELSE IF r = "b" THEN From(4, 10, 1, k) ELSE IF r = "r" THEN From(13, 13, 1, k) ELSE 0
  BY DEF Holdings
<1>4. Script["malloc_basics"][1] = Malloc("a", 1)
  BY <1>1, BasicsScript, Zenon
<1>5. Script["malloc_basics"][2] = Read("a", 0)
  BY <1>1, BasicsScript, Zenon
<1>6. Script["malloc_basics"][3] = Calloc("b", 1)
  BY <1>1, BasicsScript, Zenon
<1>7. Script["malloc_basics"][4] = Read("b", 0)
  BY <1>1, BasicsScript, Zenon
<1>8. Script["malloc_basics"][5] = Resize("a", "a", 1, 2, "heap")
  BY <1>1, BasicsScript, Zenon
<1>9. Script["malloc_basics"][6] = Write("a", 0, "aaa")
  BY <1>1, BasicsScript, Zenon
<1>10. Script["malloc_basics"][7] = Write("a", 1, "aaa")
  BY <1>1, BasicsScript, Zenon
<1>11. Script["malloc_basics"][8] = Resize("a", "a", 2, Large, "heap")
  BY <1>1, BasicsScript, Zenon
<1>12. Script["malloc_basics"][9] = Free("a")
  BY <1>1, BasicsScript, Zenon
<1>13. Script["malloc_basics"][10] = Free("b")
  BY <1>1, BasicsScript, Zenon
<1>14. Script["malloc_basics"][11] = Free("NULL")
  BY <1>1, BasicsScript, Zenon
<1>15. Script["malloc_basics"][12] = Malloc("r", 1)
  BY <1>1, BasicsScript, Zenon
<1>16. Script["malloc_basics"][13] = Free("r")
  BY <1>1, BasicsScript, Zenon
<1>17. Script["malloc_basics"][14] = Return
  BY <1>1, BasicsScript, Zenon
<1>18. Fits("malloc_basics", 1) /\ Fits("malloc_basics", 2)
  BY <1>3, <1>4, <1>5, <1>6, PointersAre, LargeIs
     DEF Fits, Leaves, KindOf, Mallocers, Careful, Unchecked, Faulters, Guarded, Jumpers, From,
         Calloc, Get, Malloc, Read
<1>19. Fits("malloc_basics", 3) /\ Fits("malloc_basics", 4)
  BY <1>3, <1>6, <1>7, <1>8, PointersAre, LargeIs
     DEF Fits, Leaves, KindOf, Mallocers, Careful, Unchecked, Faulters, Guarded, Jumpers, From,
         Calloc, Get, Read, Resize
<1>20. Fits("malloc_basics", 5) /\ Fits("malloc_basics", 6)
  BY <1>3, <1>8, <1>9, <1>10, PointersAre, LargeIs
     DEF Fits, Leaves, KindOf, Mallocers, Careful, Unchecked, Faulters, Guarded, Jumpers, From,
         Resize, Write
<1>21. Fits("malloc_basics", 7) /\ Fits("malloc_basics", 8)
  BY <1>3, <1>10, <1>11, <1>12, PointersAre, LargeIs
     DEF Fits, Leaves, KindOf, Mallocers, Careful, Unchecked, Faulters, Guarded, Jumpers, From,
         Free, Resize, Write
<1>22. Fits("malloc_basics", 9) /\ Fits("malloc_basics", 10)
  BY <1>3, <1>12, <1>13, <1>14, PointersAre, LargeIs
     DEF Fits, Leaves, KindOf, Mallocers, Careful, Unchecked, Faulters, Guarded, Jumpers, From,
         Free
<1>23. Fits("malloc_basics", 11) /\ Fits("malloc_basics", 12)
  BY <1>3, <1>14, <1>15, <1>16, PointersAre, LargeIs
     DEF Fits, Leaves, KindOf, Mallocers, Careful, Unchecked, Faulters, Guarded, Jumpers, From,
         Free, Get, Malloc
<1>24. Fits("malloc_basics", 13) /\ Fits("malloc_basics", 14)
  BY <1>3, <1>16, <1>17, PointersAre, LargeIs
     DEF Fits, Leaves, KindOf, Mallocers, Careful, Unchecked, Faulters, Guarded, Jumpers, From,
         Do, Free, Return
<1> SUFFICES ASSUME NEW k \in 1 .. 14 PROVE Fits("malloc_basics", k)
  BY <1>2
<1>25. k = 1 \/ k = 2 \/ k = 3 \/ k = 4 \/ k = 5 \/ k = 6 \/ k = 7 \/ k = 8 \/ k = 9 \/
       k = 10 \/ k = 11 \/ k = 12 \/ k = 13 \/ k = 14
  BY LargeIs
<1> QED BY <1>25, <1>18, <1>19, <1>20, <1>21, <1>22, <1>23, <1>24

(* What 04_heap_malloc/07_calloc_realloc.c holds goes with each of its steps. *)
LEMMA Fit_calloc_realloc == \A k \in DOMAIN Script["calloc_realloc"] : Fits("calloc_realloc", k)
<1>1. Script["calloc_realloc"] = calloc_realloc
  BY ScriptOf
<1>2. DOMAIN Script["calloc_realloc"] = 1 .. 15
  BY <1>1, ReallocScript, Zenon
<1>3. \A k \in Nat, r \in Pointers : Holdings["calloc_realloc"][k][r] =
        IF r = "a" THEN From(2, 3, 1, k)
      ELSE IF r = "p" THEN From(6, 10, 1, k) + From(11, 12, Large, k)
      ELSE IF r = "q" THEN From(14, 14, 1, k) ELSE 0
  BY DEF Holdings
<1>4. Script["calloc_realloc"][1] = Calloc("a", 1)
  BY <1>1, ReallocScript, Zenon
<1>5. Script["calloc_realloc"][2] = Read("a", 0)
  BY <1>1, ReallocScript, Zenon
<1>6. Script["calloc_realloc"][3] = Free("a")
  BY <1>1, ReallocScript, Zenon
<1>7. Script["calloc_realloc"][4] = Overflow
  BY <1>1, ReallocScript, Zenon
<1>8. Script["calloc_realloc"][5] = Malloc("p", 1)
  BY <1>1, ReallocScript, Zenon
<1>9. Script["calloc_realloc"][6] = Write("p", 0, "1234567")
  BY <1>1, ReallocScript, Zenon
<1>10. Script["calloc_realloc"][7] = Str("p")
  BY <1>1, ReallocScript, Zenon
<1>11. Script["calloc_realloc"][8] = Resize("p", "p", 1, 1, "heap")
  BY <1>1, ReallocScript, Zenon
<1>12. Script["calloc_realloc"][9] = Str("p")
  BY <1>1, ReallocScript, Zenon
<1>13. Script["calloc_realloc"][10] = Resize("p", "p", 1, Large, "heap")
  BY <1>1, ReallocScript, Zenon
<1>14. Script["calloc_realloc"][11] = Str("p")
  BY <1>1, ReallocScript, Zenon
<1>15. Script["calloc_realloc"][12] = Free("p")
  BY <1>1, ReallocScript, Zenon
<1>16. Script["calloc_realloc"][13] = Malloc("q", 1)
  BY <1>1, ReallocScript, Zenon
<1>17. Script["calloc_realloc"][14] = Free("q")
  BY <1>1, ReallocScript, Zenon
<1>18. Script["calloc_realloc"][15] = Return
  BY <1>1, ReallocScript, Zenon
<1>19. Fits("calloc_realloc", 1) /\ Fits("calloc_realloc", 2)
  BY <1>3, <1>4, <1>5, <1>6, PointersAre, LargeIs
     DEF Fits, Leaves, KindOf, Mallocers, Careful, Unchecked, Faulters, Guarded, Jumpers, From,
         Calloc, Free, Get, Read
<1>20. Fits("calloc_realloc", 3) /\ Fits("calloc_realloc", 4)
  BY <1>3, <1>6, <1>7, <1>8, PointersAre, LargeIs
     DEF Fits, Leaves, KindOf, Mallocers, Careful, Unchecked, Faulters, Guarded, Jumpers, From,
         Do, Free, Get, Malloc, Overflow
<1>21. Fits("calloc_realloc", 5) /\ Fits("calloc_realloc", 6)
  BY <1>3, <1>8, <1>9, <1>10, PointersAre, LargeIs
     DEF Fits, Leaves, KindOf, Mallocers, Careful, Unchecked, Faulters, Guarded, Jumpers, From,
         Get, Malloc, Str, Write
<1>22. Fits("calloc_realloc", 7) /\ Fits("calloc_realloc", 8)
  BY <1>3, <1>10, <1>11, <1>12, PointersAre, LargeIs
     DEF Fits, Leaves, KindOf, Mallocers, Careful, Unchecked, Faulters, Guarded, Jumpers, From,
         Resize, Str
<1>23. Fits("calloc_realloc", 9) /\ Fits("calloc_realloc", 10)
  BY <1>3, <1>12, <1>13, <1>14, PointersAre, LargeIs
     DEF Fits, Leaves, KindOf, Mallocers, Careful, Unchecked, Faulters, Guarded, Jumpers, From,
         Resize, Str
<1>24. Fits("calloc_realloc", 11) /\ Fits("calloc_realloc", 12)
  BY <1>3, <1>14, <1>15, <1>16, PointersAre, LargeIs
     DEF Fits, Leaves, KindOf, Mallocers, Careful, Unchecked, Faulters, Guarded, Jumpers, From,
         Free, Get, Malloc, Str
<1>25. Fits("calloc_realloc", 13) /\ Fits("calloc_realloc", 14)
  BY <1>3, <1>16, <1>17, <1>18, PointersAre, LargeIs
     DEF Fits, Leaves, KindOf, Mallocers, Careful, Unchecked, Faulters, Guarded, Jumpers, From,
         Do, Free, Get, Malloc, Return
<1>26. Fits("calloc_realloc", 15)
  BY <1>3, <1>18, PointersAre, LargeIs
     DEF Fits, Leaves, KindOf, Mallocers, Careful, Unchecked, Faulters, Guarded, Jumpers, From,
         Do, Return
<1> SUFFICES ASSUME NEW k \in 1 .. 15 PROVE Fits("calloc_realloc", k)
  BY <1>2
<1>27. k = 1 \/ k = 2 \/ k = 3 \/ k = 4 \/ k = 5 \/ k = 6 \/ k = 7 \/ k = 8 \/ k = 9 \/
       k = 10 \/ k = 11 \/ k = 12 \/ k = 13 \/ k = 14 \/ k = 15
  BY LargeIs
<1> QED BY <1>27, <1>19, <1>20, <1>21, <1>22, <1>23, <1>24, <1>25, <1>26

(* What 05_mmap/07_mremap.c holds goes with each of its steps. *)
LEMMA Fit_mremap == \A k \in DOMAIN Script["mremap"] : Fits("mremap", k)
<1>1. Script["mremap"] = mremap
  BY ScriptOf
<1>2. DOMAIN Script["mremap"] = 1 .. 12
  BY <1>1, MremapScript, Zenon
<1>3. \A k \in Nat, r \in Pointers : Holdings["mremap"][k][r] =
        IF r = "p" THEN From(2, 5, 2, k) ELSE IF r = "q" THEN From(6, 8, Large, k)
      ELSE IF r = "r" THEN From(9, 11, 1, k) ELSE 0
  BY DEF Holdings
<1>4. Script["mremap"][1] = Mmap("p", 2)
  BY <1>1, MremapScript, Zenon
<1>5. Script["mremap"][2] = Check("p")
  BY <1>1, MremapScript, Zenon
<1>6. Script["mremap"][3] = Write("p", 0, "marker")
  BY <1>1, MremapScript, Zenon
<1>7. Script["mremap"][4] = Read("p", 0)
  BY <1>1, MremapScript, Zenon
<1>8. Script["mremap"][5] = Resize("q", "p", 2, Large, "map")
  BY <1>1, MremapScript, Zenon
<1>9. Script["mremap"][6] = Check("q")
  BY <1>1, MremapScript, Zenon
<1>10. Script["mremap"][7] = Read("q", 0)
  BY <1>1, MremapScript, Zenon
<1>11. Script["mremap"][8] = Resize("r", "q", Large, 1, "map")
  BY <1>1, MremapScript, Zenon
<1>12. Script["mremap"][9] = Check("r")
  BY <1>1, MremapScript, Zenon
<1>13. Script["mremap"][10] = Read("r", 0)
  BY <1>1, MremapScript, Zenon
<1>14. Script["mremap"][11] = Munmap("r", 1)
  BY <1>1, MremapScript, Zenon
<1>15. Script["mremap"][12] = Return
  BY <1>1, MremapScript, Zenon
<1>16. Fits("mremap", 1) /\ Fits("mremap", 2)
  BY <1>3, <1>4, <1>5, <1>6, PointersAre, LargeIs
     DEF Fits, Leaves, KindOf, Mallocers, Careful, Unchecked, Faulters, Guarded, Jumpers, From,
         Check, Get, Mmap, Write
<1>17. Fits("mremap", 3) /\ Fits("mremap", 4)
  BY <1>3, <1>6, <1>7, <1>8, PointersAre, LargeIs
     DEF Fits, Leaves, KindOf, Mallocers, Careful, Unchecked, Faulters, Guarded, Jumpers, From,
         Read, Resize, Write
<1>18. Fits("mremap", 5) /\ Fits("mremap", 6)
  BY <1>3, <1>8, <1>9, <1>10, PointersAre, LargeIs
     DEF Fits, Leaves, KindOf, Mallocers, Careful, Unchecked, Faulters, Guarded, Jumpers, From,
         Check, Read, Resize
<1>19. Fits("mremap", 7) /\ Fits("mremap", 8)
  BY <1>3, <1>10, <1>11, <1>12, PointersAre, LargeIs
     DEF Fits, Leaves, KindOf, Mallocers, Careful, Unchecked, Faulters, Guarded, Jumpers, From,
         Check, Read, Resize
<1>20. Fits("mremap", 9) /\ Fits("mremap", 10)
  BY <1>3, <1>12, <1>13, <1>14, PointersAre, LargeIs
     DEF Fits, Leaves, KindOf, Mallocers, Careful, Unchecked, Faulters, Guarded, Jumpers, From,
         Check, Munmap, Read
<1>21. Fits("mremap", 11) /\ Fits("mremap", 12)
  BY <1>3, <1>14, <1>15, PointersAre, LargeIs
     DEF Fits, Leaves, KindOf, Mallocers, Careful, Unchecked, Faulters, Guarded, Jumpers, From,
         Do, Munmap, Return
<1> SUFFICES ASSUME NEW k \in 1 .. 12 PROVE Fits("mremap", k)
  BY <1>2
<1>22. k = 1 \/ k = 2 \/ k = 3 \/ k = 4 \/ k = 5 \/ k = 6 \/ k = 7 \/ k = 8 \/ k = 9 \/
       k = 10 \/ k = 11 \/ k = 12
  BY LargeIs
<1> QED BY <1>22, <1>16, <1>17, <1>18, <1>19, <1>20, <1>21

(* What 05_mmap/01_anon_mmap.c holds goes with each of its steps. *)
LEMMA Fit_anon_mmap == \A k \in DOMAIN Script["anon_mmap"] : Fits("anon_mmap", k)
<1>1. Script["anon_mmap"] = anon_mmap
  BY ScriptOf
<1>2. DOMAIN Script["anon_mmap"] = 1 .. 8
  BY <1>1, AnonMmapScript, Zenon
<1>3. \A k \in Nat, r \in Pointers : Holdings["anon_mmap"][k][r] =
        IF r = "p" THEN From(2, 7, Large, k) ELSE 0
  BY DEF Holdings, Only
<1>4. Script["anon_mmap"][1] = Mmap("p", Large)
  BY <1>1, AnonMmapScript, Zenon
<1>5. Script["anon_mmap"][2] = Check("p")
  BY <1>1, AnonMmapScript, Zenon
<1>6. Script["anon_mmap"][3] = Read("p", 0)
  BY <1>1, AnonMmapScript, Zenon
<1>7. Script["anon_mmap"][4] = Read("p", Large - 1)
  BY <1>1, AnonMmapScript, Zenon
<1>8. Script["anon_mmap"][5].op = "write" /\ Script["anon_mmap"][5].p = "p" /\
      Script["anon_mmap"][5].k = 0
  <2>1. PICK x : Script["anon_mmap"][5] = Write("p", 0, x)
    BY <1>1, AnonMmapScript, Zenon
  <2> QED BY <2>1 DEF Write
<1>9. Script["anon_mmap"][6] = Read("p", 0)
  BY <1>1, AnonMmapScript, Zenon
<1>10. Script["anon_mmap"][7] = Munmap("p", Large)
  BY <1>1, AnonMmapScript, Zenon
<1>11. Script["anon_mmap"][8] = Return
  BY <1>1, AnonMmapScript, Zenon
<1>12. Fits("anon_mmap", 1) /\ Fits("anon_mmap", 2)
  BY <1>3, <1>4, <1>5, <1>6, PointersAre, LargeIs
     DEF Fits, Leaves, KindOf, Mallocers, Careful, Unchecked, Faulters, Guarded, Jumpers, From,
         Check, Get, Mmap, Read
<1>13. Fits("anon_mmap", 3) /\ Fits("anon_mmap", 4)
  BY <1>3, <1>6, <1>7, <1>8, PointersAre, LargeIs
     DEF Fits, Leaves, KindOf, Mallocers, Careful, Unchecked, Faulters, Guarded, Jumpers, From,
         Read, Write
<1>14. Fits("anon_mmap", 5) /\ Fits("anon_mmap", 6)
  BY <1>3, <1>8, <1>9, <1>10, PointersAre, LargeIs
     DEF Fits, Leaves, KindOf, Mallocers, Careful, Unchecked, Faulters, Guarded, Jumpers, From,
         Munmap, Read, Write
<1>15. Fits("anon_mmap", 7) /\ Fits("anon_mmap", 8)
  BY <1>3, <1>10, <1>11, PointersAre, LargeIs
     DEF Fits, Leaves, KindOf, Mallocers, Careful, Unchecked, Faulters, Guarded, Jumpers, From,
         Do, Munmap, Return
<1> SUFFICES ASSUME NEW k \in 1 .. 8 PROVE Fits("anon_mmap", k)
  BY <1>2
<1>16. k = 1 \/ k = 2 \/ k = 3 \/ k = 4 \/ k = 5 \/ k = 6 \/ k = 7 \/ k = 8
  BY LargeIs
<1> QED BY <1>16, <1>12, <1>13, <1>14, <1>15

(* What 05_mmap/02_file_mmap.c holds goes with each of its steps. *)
LEMMA Fit_file_mmap == \A k \in DOMAIN Script["file_mmap"] : Fits("file_mmap", k)
<1>1. Script["file_mmap"] = file_mmap
  BY ScriptOf
<1>2. DOMAIN Script["file_mmap"] = 1 .. 11
  BY <1>1, FileMmapScript, Zenon
<1>3. \A k \in Nat, r \in Pointers : Holdings["file_mmap"][k][r] =
        IF r = "p" THEN From(4, 9, 1, k) ELSE 0
  BY DEF Holdings, Only
<1>4. Script["file_mmap"][1].op = "open"
  <2>1. PICK x : Script["file_mmap"][1] = Open(x)
    BY <1>1, FileMmapScript, Zenon
  <2> QED BY <2>1 DEF Open
<1>5. Script["file_mmap"][2] = WriteFile("hello")
  BY <1>1, FileMmapScript, Zenon
<1>6. Script["file_mmap"][3] = MmapFile("p", "private")
  BY <1>1, FileMmapScript, Zenon
<1>7. Script["file_mmap"][4] = Check("p")
  BY <1>1, FileMmapScript, Zenon
<1>8. Script["file_mmap"][5] = Read("p", 0)
  BY <1>1, FileMmapScript, Zenon
<1>9. Script["file_mmap"][6] = Write("p", 0, "Hello")
  BY <1>1, FileMmapScript, Zenon
<1>10. Script["file_mmap"][7] = Read("p", 0)
  BY <1>1, FileMmapScript, Zenon
<1>11. Script["file_mmap"][8] = ReadFile
  BY <1>1, FileMmapScript, Zenon
<1>12. Script["file_mmap"][9] = Munmap("p", 1)
  BY <1>1, FileMmapScript, Zenon
<1>13. Script["file_mmap"][10] = Unlink
  BY <1>1, FileMmapScript, Zenon
<1>14. Script["file_mmap"][11] = Return
  BY <1>1, FileMmapScript, Zenon
<1>15. Fits("file_mmap", 1) /\ Fits("file_mmap", 2)
  BY <1>3, <1>4, <1>5, <1>6, PointersAre, LargeIs
     DEF Fits, Leaves, KindOf, Mallocers, Careful, Unchecked, Faulters, Guarded, Jumpers, From,
         MmapFile, WriteFile
<1>16. Fits("file_mmap", 3) /\ Fits("file_mmap", 4)
  BY <1>3, <1>6, <1>7, <1>8, PointersAre, LargeIs
     DEF Fits, Leaves, KindOf, Mallocers, Careful, Unchecked, Faulters, Guarded, Jumpers, From,
         Check, MmapFile, Read
<1>17. Fits("file_mmap", 5) /\ Fits("file_mmap", 6)
  BY <1>3, <1>8, <1>9, <1>10, PointersAre, LargeIs
     DEF Fits, Leaves, KindOf, Mallocers, Careful, Unchecked, Faulters, Guarded, Jumpers, From,
         Read, Write
<1>18. Fits("file_mmap", 7) /\ Fits("file_mmap", 8)
  BY <1>3, <1>10, <1>11, <1>12, PointersAre, LargeIs
     DEF Fits, Leaves, KindOf, Mallocers, Careful, Unchecked, Faulters, Guarded, Jumpers, From,
         Do, Munmap, Read, ReadFile
<1>19. Fits("file_mmap", 9) /\ Fits("file_mmap", 10)
  BY <1>3, <1>12, <1>13, <1>14, PointersAre, LargeIs
     DEF Fits, Leaves, KindOf, Mallocers, Careful, Unchecked, Faulters, Guarded, Jumpers, From,
         Do, Munmap, Return, Unlink
<1>20. Fits("file_mmap", 11)
  BY <1>3, <1>14, PointersAre, LargeIs
     DEF Fits, Leaves, KindOf, Mallocers, Careful, Unchecked, Faulters, Guarded, Jumpers, From,
         Do, Return
<1> SUFFICES ASSUME NEW k \in 1 .. 11 PROVE Fits("file_mmap", k)
  BY <1>2
<1>21. k = 1 \/ k = 2 \/ k = 3 \/ k = 4 \/ k = 5 \/ k = 6 \/ k = 7 \/ k = 8 \/ k = 9 \/
       k = 10 \/ k = 11
  BY LargeIs
<1> QED BY <1>21, <1>15, <1>16, <1>17, <1>18, <1>19, <1>20

(* What 05_mmap/05_mprotect_guard.c holds goes with each of its steps. *)
LEMMA Fit_mprotect_guard == \A k \in DOMAIN Script["mprotect_guard"] : Fits("mprotect_guard", k)
<1>1. Script["mprotect_guard"] = mprotect_guard
  BY ScriptOf
<1>2. DOMAIN Script["mprotect_guard"] = 1 .. 8
  BY <1>1, MprotectGuardScript, Zenon
<1>3. \A k \in Nat, r \in Pointers : Holdings["mprotect_guard"][k][r] =
        IF r = "p" THEN From(2, 8, 3, k) ELSE 0
  BY DEF Holdings, Only
<1>4. Script["mprotect_guard"][1] = Mmap("p", 3)
  BY <1>1, MprotectGuardScript, Zenon
<1>5. Script["mprotect_guard"][2].op = "mprotect"
  <2>1. PICK x, y : Script["mprotect_guard"][2] = Mprotect("p", x, {}, y)
    BY <1>1, MprotectGuardScript, Zenon
  <2> QED BY <2>1 DEF Mprotect
<1>6. Script["mprotect_guard"][3].op = "mprotect"
  <2>1. PICK x, y : Script["mprotect_guard"][3] = Mprotect("p", x, {}, y)
    BY <1>1, MprotectGuardScript, Zenon
  <2> QED BY <2>1 DEF Mprotect
<1>7. Script["mprotect_guard"][4].op = "sigaction"
  <2>1. PICK x, y, z : Script["mprotect_guard"][4] = Sigaction(x, y, z)
    BY <1>1, MprotectGuardScript, Zenon
  <2> QED BY <2>1 DEF Sigaction
<1>8. Script["mprotect_guard"][5] = Write("p", 1, "0x42")
  BY <1>1, MprotectGuardScript, Zenon
<1>9. Script["mprotect_guard"][6] = Write("p", 2, "X")
  BY <1>1, MprotectGuardScript, Zenon
<1>10. Script["mprotect_guard"][7] = Unreachable
  BY <1>1, MprotectGuardScript, Zenon
<1>11. Script["mprotect_guard"][8] = Return
  BY <1>1, MprotectGuardScript, Zenon
<1>12. Fits("mprotect_guard", 1) /\ Fits("mprotect_guard", 2)
  BY <1>3, <1>4, <1>5, <1>6, PointersAre, LargeIs
     DEF Fits, Leaves, KindOf, Mallocers, Careful, Unchecked, Faulters, Guarded, Jumpers, From,
         Get, Mmap
<1>13. Fits("mprotect_guard", 3) /\ Fits("mprotect_guard", 4)
  BY <1>3, <1>6, <1>7, <1>8, PointersAre, LargeIs
     DEF Fits, Leaves, KindOf, Mallocers, Careful, Unchecked, Faulters, Guarded, Jumpers, From,
         Write
<1>14. Fits("mprotect_guard", 5) /\ Fits("mprotect_guard", 6)
  BY <1>3, <1>8, <1>9, <1>10, PointersAre, LargeIs
     DEF Fits, Leaves, KindOf, Mallocers, Careful, Unchecked, Faulters, Guarded, Jumpers, From,
         Do, Unreachable, Write
<1>15. Fits("mprotect_guard", 7) /\ Fits("mprotect_guard", 8)
  BY <1>3, <1>10, <1>11, PointersAre, LargeIs
     DEF Fits, Leaves, KindOf, Mallocers, Careful, Unchecked, Faulters, Guarded, Jumpers, From,
         Do, Return, Unreachable
<1> SUFFICES ASSUME NEW k \in 1 .. 8 PROVE Fits("mprotect_guard", k)
  BY <1>2
<1>16. k = 1 \/ k = 2 \/ k = 3 \/ k = 4 \/ k = 5 \/ k = 6 \/ k = 7 \/ k = 8
  BY LargeIs
<1> QED BY <1>16, <1>12, <1>13, <1>14, <1>15

(* What 01_virtual_memory/01_pagesize.c holds goes with each of its steps. *)
LEMMA Fit_pagesize == \A k \in DOMAIN Script["pagesize"] : Fits("pagesize", k)
<1>1. Script["pagesize"] =
     <<Mmap("p", 1), Check("p"), Write("p", 0, "a..z"), Read("p", 0),
              Munmap("p", 1), Return>>
  BY ScriptOf DEF pagesize
<1>2. \A k \in Nat, r \in Pointers : Holdings["pagesize"][k][r] =
        IF r = "p" THEN From(2, 5, 1, k) ELSE 0
  BY DEF Holdings, Only
<1> QED BY <1>1, <1>2, PointersAre, LargeIs, SMTT(30)
        DEF Fits, Leaves, From, KindOf, Mallocers, Careful, Unchecked, Faulters, Guarded,
            Jumpers, Check, Do, Get, Mmap, Munmap, Read, Return, Write

(* What 02_process_address_space/01_segments_addresses.c holds goes with each of its steps. *)
LEMMA Fit_segments_addresses == \A k \in DOMAIN Script["segments_addresses"] : Fits("segments_addresses", k)
<1>1. Script["segments_addresses"] =
     <<Malloc("heap", 1), Mmap("anon", 1), Free("heap"), Munmap("anon", 1), Return>>
  BY ScriptOf DEF segments_addresses
<1>2. \A k \in Nat, r \in Pointers : Holdings["segments_addresses"][k][r] =
        IF r = "heap" THEN From(2, 3, 1, k) ELSE IF r = "anon" THEN From(3, 4, 1, k) ELSE 0
  BY DEF Holdings
<1> QED BY <1>1, <1>2, PointersAre, LargeIs, SMTT(30)
        DEF Fits, Leaves, From, KindOf, Mallocers, Careful, Unchecked, Faulters, Guarded,
            Jumpers, Do, Free, Get, Malloc, Mmap, Munmap, Return

(* What 03_stack/03_alloca_vs_vla.c holds goes with each of its steps. *)
LEMMA Fit_alloca_vs_vla == \A k \in DOMAIN Script["alloca_vs_vla"] : Fits("alloca_vs_vla", k)
<1>1. Script["alloca_vs_vla"] =
     <<Malloc("p", 1), Write("p", 0, "M"), Free("p"), Return>>
  BY ScriptOf DEF alloca_vs_vla
<1>2. \A k \in Nat, r \in Pointers : Holdings["alloca_vs_vla"][k][r] =
        IF r = "p" THEN From(2, 3, 1, k) ELSE 0
  BY DEF Holdings, Only
<1> QED BY <1>1, <1>2, PointersAre, LargeIs, SMTT(30)
        DEF Fits, Leaves, From, KindOf, Mallocers, Careful, Unchecked, Faulters, Guarded,
            Jumpers, Do, Free, Get, Malloc, Return, Write

(* What 03_stack/02_recursion_depth.c holds goes with each of its steps. *)
LEMMA Fit_recursion_depth == \A k \in DOMAIN Script["recursion_depth"] : Fits("recursion_depth", k)
<1>1. Script["recursion_depth"] =
     <<Sigaction("jump", TRUE, FALSE), Recurse, Return, Landed, Return>>
  BY ScriptOf DEF recursion_depth
<1>2. \A k \in Nat, r \in Pointers : Holdings["recursion_depth"][k][r] =
        0
  BY DEF Holdings, Nothing
<1> QED BY <1>1, <1>2, PointersAre, LargeIs, SMTT(30)
        DEF Fits, Leaves, From, KindOf, Mallocers, Careful, Unchecked, Faulters, Guarded,
            Jumpers, Do, Landed, Recurse, Return, Sigaction

(* What 03_stack/04_stack_overflow.c holds goes with each of its steps. *)
LEMMA Fit_stack_overflow == \A k \in DOMAIN Script["stack_overflow"] : Fits("stack_overflow", k)
<1>1. Script["stack_overflow"] =
     <<Sigaction("jump", TRUE, TRUE), Recurse, Return, Landed, Return>>
  BY ScriptOf DEF stack_overflow
<1>2. \A k \in Nat, r \in Pointers : Holdings["stack_overflow"][k][r] =
        0
  BY DEF Holdings, Nothing
<1> QED BY <1>1, <1>2, PointersAre, LargeIs, SMTT(30)
        DEF Fits, Leaves, From, KindOf, Mallocers, Careful, Unchecked, Faulters, Guarded,
            Jumpers, Do, Landed, Recurse, Return, Sigaction

(* What 04_heap_malloc/06_alignment.c holds goes with each of its steps. *)
LEMMA Fit_alignment == \A k \in DOMAIN Script["alignment"] : Fits("alignment", k)
<1>1. Script["alignment"] =
     <<Malloc("p", 1), Free("p"), Malloc("p", 1), Free("p"), Malloc("p", 1), Free("p"),
               Malloc("p", 1), Free("p"), Malloc("p", 1), Free("p"), Return>>
  BY ScriptOf DEF alignment
<1>2. \A k \in Nat, r \in Pointers : Holdings["alignment"][k][r] =
        IF r = "p" THEN From(2, 2, 1, k) + From(4, 4, 1, k) + From(6, 6, 1, k)
                      + From(8, 8, 1, k) + From(10, 10, 1, k) ELSE 0
  BY DEF Holdings
<1> QED BY <1>1, <1>2, PointersAre, LargeIs, SMTT(30)
        DEF Fits, Leaves, From, KindOf, Mallocers, Careful, Unchecked, Faulters, Guarded,
            Jumpers, Do, Free, Get, Malloc, Return

(* What 04_heap_malloc/10_double_free.c holds goes with each of its steps. *)
LEMMA Fit_double_free == \A k \in DOMAIN Script["double_free"] : Fits("double_free", k)
<1>1. Script["double_free"] =
     <<Malloc("p", 1), Free("p"), Free("p"), Unreachable, Return>>
  BY ScriptOf DEF double_free
<1>2. \A k \in Nat, r \in Pointers : Holdings["double_free"][k][r] =
        IF r = "p" THEN From(2, 2, 1, k) ELSE 0
  BY DEF Holdings, Only
<1> QED BY <1>1, <1>2, PointersAre, LargeIs, SMTT(30)
        DEF Fits, Leaves, From, KindOf, Mallocers, Careful, Unchecked, Faulters, Guarded,
            Jumpers, Do, Free, Get, Malloc, Return, Unreachable

(* What 05_mmap/04_file_share_write.c holds goes with each of its steps. *)
LEMMA Fit_file_share_write == \A k \in DOMAIN Script["file_share_write"] : Fits("file_share_write", k)
<1>1. Script["file_share_write"] =
     <<Open(FALSE), WriteFile("AA"), MmapFile("p", "shared"), Check("p"), Read("p", 0),
    Write("p", 0, "BA"), ReadFile, Munmap("p", 1), Unlink, Return>>
  BY ScriptOf DEF file_share_write
<1>2. DOMAIN Script["file_share_write"] = 1 .. 10
  BY <1>1
<1>3. \A k \in Nat, r \in Pointers : Holdings["file_share_write"][k][r] =
        IF r = "p" THEN From(4, 8, 1, k) ELSE 0
  BY DEF Holdings, Only
<1>4. Script["file_share_write"][1].op = "open"
  BY <1>1 DEF Open
<1>5. Script["file_share_write"][2] = WriteFile("AA")
  BY <1>1
<1>6. Script["file_share_write"][3] = MmapFile("p", "shared")
  BY <1>1
<1>7. Script["file_share_write"][4] = Check("p")
  BY <1>1
<1>8. Script["file_share_write"][5] = Read("p", 0)
  BY <1>1
<1>9. Script["file_share_write"][6] = Write("p", 0, "BA")
  BY <1>1
<1>10. Script["file_share_write"][7] = ReadFile
  BY <1>1
<1>11. Script["file_share_write"][8] = Munmap("p", 1)
  BY <1>1
<1>12. Script["file_share_write"][9] = Unlink
  BY <1>1
<1>13. Script["file_share_write"][10] = Return
  BY <1>1
<1>14. Fits("file_share_write", 1) /\ Fits("file_share_write", 2)
  BY <1>3, <1>4, <1>5, <1>6, PointersAre, LargeIs
     DEF Fits, Leaves, KindOf, Mallocers, Careful, Unchecked, Faulters, Guarded, Jumpers, From,
         MmapFile, WriteFile
<1>15. Fits("file_share_write", 3) /\ Fits("file_share_write", 4)
  BY <1>3, <1>6, <1>7, <1>8, PointersAre, LargeIs
     DEF Fits, Leaves, KindOf, Mallocers, Careful, Unchecked, Faulters, Guarded, Jumpers, From,
         Check, MmapFile, Read
<1>16. Fits("file_share_write", 5) /\ Fits("file_share_write", 6)
  BY <1>3, <1>8, <1>9, <1>10, PointersAre, LargeIs
     DEF Fits, Leaves, KindOf, Mallocers, Careful, Unchecked, Faulters, Guarded, Jumpers, From,
         Do, Read, ReadFile, Write
<1>17. Fits("file_share_write", 7) /\ Fits("file_share_write", 8)
  BY <1>3, <1>10, <1>11, <1>12, PointersAre, LargeIs
     DEF Fits, Leaves, KindOf, Mallocers, Careful, Unchecked, Faulters, Guarded, Jumpers, From,
         Do, Munmap, ReadFile, Unlink
<1>18. Fits("file_share_write", 9) /\ Fits("file_share_write", 10)
  BY <1>3, <1>12, <1>13, PointersAre, LargeIs
     DEF Fits, Leaves, KindOf, Mallocers, Careful, Unchecked, Faulters, Guarded, Jumpers, From,
         Do, Return, Unlink
<1> SUFFICES ASSUME NEW k \in 1 .. 10 PROVE Fits("file_share_write", k)
  BY <1>2
<1>19. k = 1 \/ k = 2 \/ k = 3 \/ k = 4 \/ k = 5 \/ k = 6 \/ k = 7 \/ k = 8 \/ k = 9 \/
       k = 10
  OBVIOUS
<1> QED BY <1>19, <1>14, <1>15, <1>16, <1>17, <1>18

(* What 06_brk_sbrk/01_program_break.c holds goes with each of its steps. *)
LEMMA Fit_program_break == \A k \in DOMAIN Script["program_break"] : Fits("program_break", k)
<1>1. Script["program_break"] =
     <<Malloc("p", 1), Malloc("q", 1), Malloc("r", Large), Free("p"), Free("q"), Free("r"), Return>>
  BY ScriptOf DEF program_break
<1>2. \A k \in Nat, r \in Pointers : Holdings["program_break"][k][r] =
        IF r = "p" THEN From(2, 4, 1, k) ELSE IF r = "q" THEN From(3, 5, 1, k)
      ELSE IF r = "r" THEN From(4, 6, Large, k) ELSE 0
  BY DEF Holdings
<1> QED BY <1>1, <1>2, PointersAre, LargeIs, SMTT(30)
        DEF Fits, Leaves, From, KindOf, Mallocers, Careful, Unchecked, Faulters, Guarded,
            Jumpers, Do, Free, Get, Malloc, Return

(* What 07_paging_swapping/05_overcommit.c holds goes with each of its steps. *)
LEMMA Fit_overcommit == \A k \in DOMAIN Script["overcommit"] : Fits("overcommit", k)
<1>1. Script["overcommit"] =
     <<Mmap("p", Large), Check("p"), Rss, Write("p", 0, "0x42"), Rss,
                Munmap("p", Large), Return>>
  BY ScriptOf DEF overcommit
<1>2. \A k \in Nat, r \in Pointers : Holdings["overcommit"][k][r] =
        IF r = "p" THEN From(2, 6, Large, k) ELSE 0
  BY DEF Holdings, Only
<1> QED BY <1>1, <1>2, PointersAre, LargeIs, SMTT(30)
        DEF Fits, Leaves, From, KindOf, Mallocers, Careful, Unchecked, Faulters, Guarded,
            Jumpers, Check, Do, Get, Mmap, Munmap, Return, Rss, Write

(* What 11_memory_protection/01_mprotect_jit.c holds goes with each of its steps. *)
LEMMA Fit_mprotect_jit == \A k \in DOMAIN Script["mprotect_jit"] : Fits("mprotect_jit", k)
<1>1. Script["mprotect_jit"] =
     <<Mmap("p", 1), Check("p"), Write("p", 0, "code"), Mprotect("p", 0, {"r", "x"}, TRUE),
    Exec("p"), Munmap("p", 1), Return>>
  BY ScriptOf DEF mprotect_jit
<1>2. \A k \in Nat, r \in Pointers : Holdings["mprotect_jit"][k][r] =
        IF r = "p" THEN From(2, 6, 1, k) ELSE 0
  BY DEF Holdings, Only
<1> QED BY <1>1, <1>2, PointersAre, LargeIs, SMTT(30)
        DEF Fits, Leaves, From, KindOf, Mallocers, Careful, Unchecked, Faulters, Guarded,
            Jumpers, Check, Do, Exec, Get, Mmap, Mprotect, Munmap, Return, Write

(* What 11_memory_protection/03_segfault_handler.c holds goes with each of its steps. *)
LEMMA Fit_segfault_handler == \A k \in DOMAIN Script["segfault_handler"] : Fits("segfault_handler", k)
<1>1. Script["segfault_handler"] =
     <<Sigaction("exit", TRUE, FALSE), Write("NULL", 0, "42"),
                      Unreachable, Return>>
  BY ScriptOf DEF segfault_handler
<1>2. \A k \in Nat, r \in Pointers : Holdings["segfault_handler"][k][r] =
        0
  BY DEF Holdings, Nothing
<1> QED BY <1>1, <1>2, PointersAre, LargeIs, SMTT(30)
        DEF Fits, Leaves, From, KindOf, Mallocers, Careful, Unchecked, Faulters, Guarded,
            Jumpers, Do, Return, Sigaction, Unreachable, Write

(* What 11_memory_protection/06_w_xor_x.c holds goes with each of its steps. *)
LEMMA Fit_w_xor_x == \A k \in DOMAIN Script["w_xor_x"] : Fits("w_xor_x", k)
<1>1. Script["w_xor_x"] =
     <<Sigaction("exit", FALSE, FALSE), Mmap("p", 1), Write("p", 0, "ret"), Exec("p"),
             Unreachable, Return>>
  BY ScriptOf DEF w_xor_x
<1>2. \A k \in Nat, r \in Pointers : Holdings["w_xor_x"][k][r] =
        IF r = "p" THEN From(3, 6, 1, k) ELSE 0
  BY DEF Holdings, Only
<1> QED BY <1>1, <1>2, PointersAre, LargeIs, SMTT(30)
        DEF Fits, Leaves, From, KindOf, Mallocers, Careful, Unchecked, Faulters, Guarded,
            Jumpers, Do, Exec, Get, Mmap, Return, Sigaction, Unreachable, Write

(* What 13_advanced/02_hugetlb_mmap.c holds goes with each of its steps. *)
LEMMA Fit_hugetlb_mmap == \A k \in DOMAIN Script["hugetlb_mmap"] : Fits("hugetlb_mmap", k)
<1>1. Script["hugetlb_mmap"] =
     <<Mmap("p", 1), Check("p"), Write("p", 0, "0x42"), Munmap("p", 1), Return>>
  BY ScriptOf DEF hugetlb_mmap
<1>2. \A k \in Nat, r \in Pointers : Holdings["hugetlb_mmap"][k][r] =
        IF r = "p" THEN From(2, 4, 1, k) ELSE 0
  BY DEF Holdings, Only
<1> QED BY <1>1, <1>2, PointersAre, LargeIs, SMTT(30)
        DEF Fits, Leaves, From, KindOf, Mallocers, Careful, Unchecked, Faulters, Guarded,
            Jumpers, Check, Do, Get, Mmap, Munmap, Return, Write

(* What 00_fundamentals/01_memory_hierarchy.c holds goes with each of its steps. *)
LEMMA Fit_memory_hierarchy == \A k \in DOMAIN Script["memory_hierarchy"] : Fits("memory_hierarchy", k)
<1>1. Script["memory_hierarchy"] =
     <<Do("measure"), Return>>
  BY ScriptOf DEF memory_hierarchy
<1>2. \A k \in Nat, r \in Pointers : Holdings["memory_hierarchy"][k][r] =
        0
  BY DEF Holdings, Nothing
<1> QED BY <1>1, <1>2, PointersAre, LargeIs, SMTT(30)
        DEF Fits, Leaves, From, KindOf, Mallocers, Careful, Unchecked, Faulters, Guarded,
            Jumpers, Do, Return

(* The steps of all programs but the two that print first go with what they hold. *)
LEMMA ScriptsFit ==
  ASSUME NEW q \in Programs \ Printers, NEW k \in DOMAIN Script[q] PROVE Fits(q, k)
BY ScriptOf, Fit_pagesize, Fit_lazy_allocation, Fit_count_page_faults, Fit_pagemap,
   Fit_segments_addresses, Fit_alloca_vs_vla, Fit_recursion_depth, Fit_stack_overflow,
   Fit_malloc_basics, Fit_chunk_layout, Fit_brk_vs_mmap, Fit_mallopt_tuning, Fit_mallinfo,
   Fit_alignment, Fit_calloc_realloc, Fit_double_free, Fit_malloc_trim, Fit_mallinfo_dump,
   Fit_anon_mmap, Fit_file_mmap, Fit_file_share_write, Fit_mprotect_guard,
   Fit_madvise_dontneed, Fit_mremap, Fit_map_populate, Fit_program_break, Fit_mlock,
   Fit_madvise_pageout, Fit_overcommit, Fit_getrusage_demo, Fit_mprotect_jit,
   Fit_segfault_handler, Fit_w_xor_x, Fit_thp_madvise, Fit_hugetlb_mmap, Fit_ksm_demo,
   Fit_memory_hierarchy DEF Printers
-----------------------------------------------------------------------------
(* The shuffled indices: each slot once. *)
IsShuffle(a) == /\ a \in [Slots -> Slots]
                /\ \A s, t \in Slots : a[s] = a[t] => s = t
                /\ \A t \in Slots : \E s \in Slots : a[s] = t

(* The place after i, and the steps it takes to come to i from r. *)
NextPlace(i) == IF i + 1 = size THEN 0 ELSE i + 1
Steps(r, i) == IF i > r THEN i - r ELSE (i - r) + size

(* The chase began at the place r, has been at the places that loop steps  *)
(* reach, and is now at the place pos.                                     *)
Been(r) == {idx[i] : i \in {i \in Slots : Steps(r, i) <= loop}}
ChaseAt(r, pos) ==
  /\ cur = idx[pos]
  /\ loop = 0 => pos = r
  /\ loop \in 1 .. size => Steps(r, pos) = loop
  /\ chased = Been(r)
  /\ Cardinality(chased) = IF loop < size THEN loop ELSE size

ChaseInv ==
  /\ stage \in {"main", "segv", "fill", "shuffle", "link", "chase"}
  /\ todo \subseteq Sizes
  /\ stage \in {"fill", "shuffle", "link", "chase"} =>
       size \in Nat \ {0} /\ buf \in [Slots -> Slots \cup {Garbage}]
  /\ stage \in {"shuffle", "link", "chase"} => IsShuffle(idx)
  /\ stage \in {"shuffle", "link"} => loop \in Slots
  /\ stage = "link" => \A i \in Slots : i < loop => buf[idx[i]] = idx[NextPlace(i)]
  /\ stage = "chase" => /\ loop \in Nat
                        /\ \A i \in Slots : buf[idx[i]] = idx[NextPlace(i)]
                        /\ \E r \in Slots, pos \in Slots : ChaseAt(r, pos)
-----------------------------------------------------------------------------
(* A set of natural numbers that is not empty has a least member. *)
LEMMA LeastMember ==
  ASSUME NEW S \in SUBSET Nat, S # {}
  PROVE  \E m \in S : \A x \in S : m <= x
<1> DEFINE R == {p \in Nat \X Nat : p[1] < p[2]}
<1>1. IsWellFoundedOn(R, Nat)
  BY NatLessThanWellFounded, Zenon DEF OpToRel
<1>2. \A x, y \in Nat : ~ (<<x, y>> \in R) => y <= x
  OBVIOUS
<1> HIDE DEF R
<1>3. PICK m \in S : \A y \in S : ~ (<<y, m>> \in R)
  BY <1>1, WFMin, Zenon
<1>4. \A x \in S : m <= x
  BY <1>2, <1>3
<1> QED BY <1>4

(* The sizes that main() measures. *)
LEMMA SizesAreNumbers == Sizes \subseteq Nat \ {0} /\ MaxIters \in Nat /\ Iters \in Nat
BY MemoryAssumption DEF ChaseAssumption, Iters

(* (i + 1) % n of measure() is the next place. *)
LEMMA AfterIsNext ==
  ASSUME size \in Nat \ {0}, loop \in Slots
  PROVE  After = NextPlace(loop) /\ NextPlace(loop) \in Slots
<1>1. CASE loop + 1 = size
  <2>1. size % size = 0
    OBVIOUS
  <2> QED BY <1>1, <2>1 DEF After, NextPlace, Slots
<1>2. CASE loop + 1 # size
  <2>1. loop + 1 \in 0 .. size - 1
    BY <1>2 DEF Slots
  <2>2. (loop + 1) % size = loop + 1
    BY <2>1
  <2> QED BY <1>2, <2>1, <2>2 DEF After, NextPlace, Slots
<1> QED BY <1>1, <1>2

(* Exchanging two of the indices leaves each slot there once. *)
LEMMA SwapShuffles ==
  ASSUME NEW a, IsShuffle(a), NEW x \in Slots, NEW y \in Slots
  PROVE  IsShuffle(Swap(a, x, y))
<1> DEFINE b == Swap(a, x, y)
<1>1. /\ b \in [Slots -> Slots]
      /\ b[x] = a[y] /\ b[y] = a[x]
      /\ \A s \in Slots \ {x, y} : b[s] = a[s]
  BY DEF IsShuffle, Swap
<1> HIDE DEF b
<1>2. \A s, t \in Slots : b[s] = b[t] => s = t
  BY <1>1 DEF IsShuffle
<1>3. \A t \in Slots : \E s \in Slots : b[s] = t
  <2> TAKE t \in Slots
  <2>1. PICK s \in Slots : a[s] = t
    BY DEF IsShuffle
  <2>2. b[IF s = x THEN y ELSE IF s = y THEN x ELSE s] = t
    BY <1>1, <2>1
  <2> QED BY <2>2
<1>4. IsShuffle(b)
  BY <1>1, <1>2, <1>3 DEF IsShuffle
<1> QED BY <1>4 DEF b

(* measure() for the next size. *)
LEMMA MeasureStep == ASSUME ChaseInv, Measure PROVE ChaseInv'
<1>1. PICK s \in todo : \A t \in todo : s <= t
  <2>1. todo \in SUBSET Nat /\ todo # {}
    BY SizesAreNumbers DEF ChaseInv, Measure
  <2> QED BY <2>1, LeastMember
<1>2. size' \in todo
  BY <1>1 DEF Measure
<1>3. size' \in Nat \ {0} /\ todo' \subseteq Sizes
  BY <1>2, SizesAreNumbers DEF ChaseInv, Measure
<1>4. /\ stage' \in {"main", "segv", "fill"}
      /\ stage' = "fill" => buf' = [t \in 0 .. size' - 1 |-> Garbage]
  BY DEF Measure
<1>5. stage' = "fill" => buf' \in [Slots' -> Slots' \cup {Garbage}]
  BY <1>4 DEF Slots
<1> QED BY <1>3, <1>4, <1>5 DEF ChaseInv

(* for (i = 0; i < n; i++) idx[i] = i *)
LEMMA FillStep == ASSUME ChaseInv, Fill PROVE ChaseInv'
<1>1. /\ stage = "fill" /\ stage' = "shuffle" /\ size' = size /\ todo' = todo /\ buf' = buf
      /\ idx' = [s \in Slots |-> s] /\ loop' = size - 1
  BY DEF Fill
<1>2. Slots' = Slots /\ loop' \in Slots
  BY <1>1 DEF ChaseInv, Slots
<1>3. IsShuffle(idx)'
  BY <1>1, <1>2 DEF IsShuffle
<1> QED BY <1>1, <1>2, <1>3 DEF ChaseInv

(* A round of shuffle(), and its end. *)
LEMMA ShuffleStep == ASSUME ChaseInv, Shuffle PROVE ChaseInv'
<1>1. /\ stage = "shuffle" /\ size' = size /\ todo' = todo /\ buf' = buf
      /\ IsShuffle(idx) /\ loop \in Slots /\ size \in Nat \ {0}
  BY DEF Shuffle, ChaseInv
<1>2. Slots' = Slots
  BY <1>1 DEF Slots
<1>3. CASE loop > 0
  <2>1. PICK j \in 0 .. loop : idx' = Swap(idx, loop, j)
    BY <1>3 DEF Shuffle
  <2>2. stage' = "shuffle" /\ loop' = loop - 1
    BY <1>1, <1>3 DEF Shuffle
  <2>3. j \in Slots /\ loop' \in Slots
    BY <1>1, <1>3, <2>1, <2>2 DEF Slots
  <2>4. IsShuffle(idx')
    BY <1>1, <2>1, <2>3, SwapShuffles
  <2>5. IsShuffle(idx)'
    BY <1>2, <2>4 DEF IsShuffle
  <2> QED BY <1>1, <1>2, <2>2, <2>3, <2>5 DEF ChaseInv
<1>4. CASE ~ (loop > 0)
  <2>1. stage' = "link" /\ idx' = idx /\ loop' = loop /\ loop = 0
    BY <1>1, <1>4 DEF Shuffle, Slots
  <2>2. \A i \in Slots : ~ (i < loop)
    BY <1>1, <2>1 DEF Slots
  <2>3. IsShuffle(idx)'
    BY <1>1, <1>2, <2>1 DEF IsShuffle
  <2> QED BY <1>1, <1>2, <2>1, <2>2, <2>3 DEF ChaseInv
<1> QED BY <1>3, <1>4

(* One link, and the start of the chase after the last. *)
LEMMA LinkStep == ASSUME ChaseInv, Link PROVE ChaseInv'
<1>1. /\ stage = "link" /\ size' = size /\ todo' = todo /\ idx' = idx
      /\ IsShuffle(idx) /\ loop \in Slots /\ size \in Nat \ {0}
      /\ buf \in [Slots -> Slots \cup {Garbage}]
      /\ \A i \in Slots : i < loop => buf[idx[i]] = idx[NextPlace(i)]
  BY DEF Link, ChaseInv
<1>2. /\ Slots' = Slots /\ \A i : NextPlace(i)' = NextPlace(i)
      /\ IsShuffle(idx)'
  BY <1>1 DEF Slots, NextPlace, IsShuffle
<1>3. buf' = [buf EXCEPT ![idx[loop]] = idx[NextPlace(loop)]] /\ NextPlace(loop) \in Slots
  BY <1>1, AfterIsNext DEF Link
<1>4. buf' \in [Slots -> Slots \cup {Garbage}]
  BY <1>1, <1>3 DEF IsShuffle
<1>5. \A i \in Slots : i <= loop => buf'[idx[i]] = idx[NextPlace(i)]
  <2> SUFFICES ASSUME NEW i \in Slots, i <= loop PROVE buf'[idx[i]] = idx[NextPlace(i)]
    OBVIOUS
  <2>1. CASE i = loop
    BY <1>1, <1>3, <2>1 DEF IsShuffle
  <2>2. CASE i # loop
    <3>1. i < loop
      BY <1>1, <2>2 DEF Slots
    <3>2. idx[i] # idx[loop] /\ idx[i] \in Slots
      BY <1>1, <2>2 DEF IsShuffle
    <3> QED BY <1>1, <1>3, <3>1, <3>2
  <2> QED BY <2>1, <2>2
<1>6. CASE loop + 1 < size
  <2>1. loop' = loop + 1 /\ stage' = stage
    BY <1>6 DEF Link
  <2>2. loop' \in Slots /\ \A i \in Slots : i < loop' => i <= loop
    BY <1>1, <1>6, <2>1 DEF Slots
  <2>3. \A i \in Slots' : i < loop' => buf'[idx'[i]] = idx'[NextPlace(i)']
    BY <1>1, <1>2, <1>5, <2>2
  <2> QED BY <1>1, <1>2, <1>4, <2>1, <2>2, <2>3 DEF ChaseInv
<1>7. CASE ~ (loop + 1 < size)
  <2>1. loop' = 0 /\ stage' = "chase" /\ cur' = 0 /\ chased' = {}
    BY <1>7 DEF Link
  <2>2. \A i \in Slots : i <= loop
    BY <1>1, <1>7 DEF Slots
  <2>3. \A i \in Slots' : buf'[idx'[i]] = idx'[NextPlace(i)']
    BY <1>1, <1>2, <1>5, <2>2
  <2>4. 0 \in Slots
    BY <1>1 DEF Slots
  <2>5. PICK r \in Slots : idx[r] = 0
    BY <1>1, <2>4 DEF IsShuffle
  <2>6. \A i \in Slots : ~ (Steps(r, i)' <= 0)
    BY <1>1 DEF Slots, Steps
  <2>7. Been(r)' = {}
    BY <1>2, <2>1, <2>6 DEF Been
  <2>8. ChaseAt(r, r)'
    <3>1. loop' < size' /\ ~ (loop' \in 1 .. size')
      BY <1>1, <2>1
    <3> QED BY <1>1, <2>1, <2>5, <2>7, <3>1, FS_EmptySet DEF ChaseAt
  <2> QED BY <1>1, <1>2, <1>4, <2>1, <2>3, <2>8 DEF ChaseInv
<1> QED BY <1>6, <1>7

(* One step along the chain. *)
LEMMA ChaseStep == ASSUME ChaseInv, Chase PROVE ChaseInv'
<1>1. /\ stage = "chase" /\ stage' = stage /\ size' = size /\ todo' = todo /\ idx' = idx /\ buf' = buf
      /\ IsShuffle(idx) /\ loop \in Nat /\ size \in Nat \ {0} /\ loop' = loop + 1
      /\ buf \in [Slots -> Slots \cup {Garbage}]
      /\ \A i \in Slots : buf[idx[i]] = idx[NextPlace(i)]
  BY DEF Chase, ChaseInv
<1>2. /\ Slots' = Slots /\ \A i : NextPlace(i)' = NextPlace(i)
      /\ IsShuffle(idx)'
      /\ \A r, i : Steps(r, i)' = Steps(r, i)
  BY <1>1 DEF Slots, NextPlace, IsShuffle, Steps
<1>3. PICK r \in Slots : \E pos \in Slots : ChaseAt(r, pos)
  BY <1>1 DEF ChaseInv
<1>4. PICK pos \in Slots : ChaseAt(r, pos)
  BY <1>3
<1>5. PICK to \in Slots : to = NextPlace(pos)
  BY <1>1 DEF NextPlace, Slots
<1>6. cur' = idx[to] /\ chased' = chased \cup {idx[to]}
  BY <1>1, <1>4, <1>5 DEF Chase, ChaseAt
<1>7. loop < size => Steps(r, to) = loop + 1
  BY <1>1, <1>4, <1>5 DEF ChaseAt, Steps, NextPlace, Slots
<1>8. \A i \in Slots : Steps(r, i) \in 1 .. size /\ (i # to => Steps(r, i) # Steps(r, to))
  BY <1>1, <1>5 DEF Steps, Slots
<1>9. chased = {idx[i] : i \in {i \in Slots : Steps(r, i) <= loop}}
  BY <1>4 DEF ChaseAt, Been
<1>10. Been(r)' = {idx[i] : i \in {i \in Slots : Steps(r, i) <= loop + 1}}
  BY <1>1, <1>2 DEF Been
<1>11. chased \subseteq Slots /\ IsFiniteSet(Slots) /\ Cardinality(Slots) = size /\
       IsFiniteSet(chased)
  <2>1. chased \subseteq Slots
    BY <1>1, <1>9 DEF IsShuffle
  <2>2. IsFiniteSet(Slots) /\ Cardinality(Slots) = size
    BY <1>1, FS_Interval DEF Slots
  <2> QED BY <2>1, <2>2, FS_Subset
<1>12. CASE loop < size
  <2>1. idx[to] \notin chased
    BY <1>1, <1>5, <1>7, <1>9, <1>12 DEF IsShuffle
  <2>2. Cardinality(chased') = loop + 1
    BY <1>4, <1>6, <1>11, <1>12, <2>1, FS_AddElement DEF ChaseAt
  <2>3. \A i \in Slots : Steps(r, i) <= loop + 1 <=> (Steps(r, i) <= loop \/ i = to)
    BY <1>1, <1>5, <1>7, <1>8, <1>12
  <2>4. chased' = Been(r)'
    BY <1>5, <1>6, <1>9, <1>10, <2>3
  <2>5. Cardinality(chased)' = IF loop' < size' THEN loop' ELSE size'
    BY <1>1, <1>12, <2>2
  <2>6. Steps(r, to)' = loop' /\ loop' # 0
    BY <1>1, <1>2, <1>7, <1>12
  <2>7. ChaseAt(r, to)'
    BY <1>1, <1>6, <2>4, <2>5, <2>6 DEF ChaseAt
  <2> QED BY <1>1, <1>2, <1>5, <2>7 DEF ChaseInv
<1>13. CASE ~ (loop < size)
  <2>1. \A i \in Slots : Steps(r, i) <= loop /\ Steps(r, i) <= loop + 1
    BY <1>1, <1>8, <1>13
  <2>2. idx[to] \in chased
    BY <1>5, <1>9, <2>1
  <2>3. chased' = chased
    BY <1>6, <2>2
  <2>4. chased' = Been(r)'
    BY <1>9, <1>10, <2>1, <2>3
  <2>5. Cardinality(chased)' = IF loop' < size' THEN loop' ELSE size'
    BY <1>1, <1>4, <1>13, <2>3 DEF ChaseAt
  <2>6. loop' # 0 /\ ~ (loop' \in 1 .. size')
    BY <1>1, <1>13
  <2>7. ChaseAt(r, to)'
    BY <1>1, <1>6, <2>4, <2>5, <2>6 DEF ChaseAt
  <2> QED BY <1>1, <1>2, <1>5, <2>7 DEF ChaseInv
<1> QED BY <1>12, <1>13

(* Every step of measure(), and every step of another program, keeps it. *)
LEMMA ChaserStep == ChaseInv /\ [MCNext]_allVars => ChaseInv'
<1> SUFFICES ASSUME ChaseInv, [MCNext]_allVars PROVE ChaseInv'
  OBVIOUS
<1>1. Chaser \/ UNCHANGED chaseVars
  BY Zenon DEF MCNext, MCProcess, MCReclaim, Measuring, allVars
<1>2. CASE UNCHANGED chaseVars
  <2>1. /\ stage' = stage /\ todo' = todo /\ size' = size /\ idx' = idx /\ buf' = buf
        /\ loop' = loop /\ cur' = cur /\ chased' = chased
    BY <1>2 DEF chaseVars
  <2>2. Slots' = Slots /\ \A i : NextPlace(i)' = NextPlace(i)
    BY <2>1 DEF Slots, NextPlace
  <2>3. IsShuffle(idx)' <=> IsShuffle(idx)
    BY <2>1, <2>2 DEF IsShuffle
  <2>4. \A r, pos : Steps(r, pos)' = Steps(r, pos)
    BY <2>1 DEF Steps
  <2>5. \A r : Been(r)' = Been(r)
    BY <2>1, <2>2, <2>4 DEF Been
  <2>6. \A r, pos : ChaseAt(r, pos)' <=> ChaseAt(r, pos)
    BY <2>1, <2>4, <2>5 DEF ChaseAt
  <2> QED BY <2>1, <2>2, <2>3, <2>6 DEF ChaseInv
<1>3. CASE Done
  BY <1>3 DEF Done, ChaseInv
<1> QED BY <1>1, <1>2, <1>3, MeasureStep, FillStep, ShuffleStep, LinkStep, ChaseStep DEF Chaser

(* main() has measured nothing at the start. *)
LEMMA ChaserInit == ASSUME MCInit PROVE ChaseInv
BY DEF MCInit, ChaseInit, ChaseInv

(* The invariant says what the property asks. *)
LEMMA ChaseVisits == ASSUME ChaseInv PROVE VisitsEverySlot
<1>1. ASSUME stage = "chase"
      PROVE  /\ cur \in Slots /\ \A s \in Slots : buf[s] \in Slots
             /\ Cardinality(chased) = IF loop < size THEN loop ELSE size
  <2>1. /\ IsShuffle(idx) /\ size \in Nat \ {0}
        /\ \A i \in Slots : buf[idx[i]] = idx[NextPlace(i)]
        /\ \E r \in Slots, pos \in Slots : ChaseAt(r, pos)
    BY <1>1 DEF ChaseInv
  <2>2. ASSUME NEW s \in Slots PROVE buf[s] \in Slots
    <3>1. PICK i \in Slots : idx[i] = s
      BY <2>1 DEF IsShuffle
    <3>2. NextPlace(i) \in Slots
      BY <2>1 DEF NextPlace, Slots
    <3> QED BY <2>1, <3>1, <3>2 DEF IsShuffle
  <2> QED BY <2>1, <2>2 DEF ChaseAt, IsShuffle
<1>2. ASSUME stage = "link" PROVE {idx[s] : s \in Slots} = Slots
  BY <1>2 DEF ChaseInv, IsShuffle
<1> QED BY <1>1, <1>2 DEF VisitsEverySlot

(* 01_memory_hierarchy.c, for any sizes, any number of steps and whatever  *)
(* rand() returns: measure() links the slots into one cycle, so the chase  *)
(* stays in the buffer and is at a new slot in each step until it has been *)
(* at all of them.                                                         *)
THEOREM ChaseCorrect == MCSpec => []VisitsEverySlot
<1>1. MCInit => ChaseInv
  BY ChaserInit
<1>2. ChaseInv => VisitsEverySlot
  BY ChaseVisits
<1> QED BY <1>1, <1>2, ChaserStep, PTL DEF MCSpec
-----------------------------------------------------------------------------
(* A page of the model: nothing, or a record in which no page is writable  *)
(* and executable at once.                                                 *)
Places == {"none", "zero", "cache", "frame", "swap"}
WX(prot) == {"w", "x"} \subseteq prot
Sheet(b, k, v, prot, t, l) ==
  [base |-> b, kind |-> k, val |-> v, prot |-> prot, at |-> t, locked |-> l]
IsPage(r) == \/ r = Unmapped
             \/ \E b \in Addresses, t \in Places : \E k, v, prot, l :
                  r = Sheet(b, k, v, prot, t, l) /\ ~ WX(prot)

(* A mapped page is in one of the places, of a region of the process, and  *)
(* not both written and run.                                               *)
LEMMA PageFacts ==
  ASSUME NEW r, IsPage(r), r # Unmapped
  PROVE  r.at \in Places /\ r.base \in Addresses /\ ~ WX(r.prot)
BY DEF IsPage, Sheet

(* A change of one field makes a page of a page, of the same kind, and     *)
(* leaves nothing where there is nothing.                                  *)
LEMMA PageEdits ==
  ASSUME NEW r, IsPage(r), NEW x, NEW y,
         \/ y = r
         \/ y = [r EXCEPT !.at = x] /\ x \in Places
         \/ y = [r EXCEPT !.val = x]
         \/ y = [r EXCEPT !.locked = x]
         \/ y = [r EXCEPT !.base = x] /\ x \in Addresses
         \/ y = [r EXCEPT !.prot = x] /\ ~ WX(x)
  PROVE  IsPage(y) /\ y.kind = r.kind /\ (y = Unmapped <=> r = Unmapped)
<1>1. CASE r = Unmapped
  <2>1. y = r
    BY <1>1 DEF Unmapped
  <2> QED BY <1>1, <2>1
<1>2. CASE r # Unmapped
  <2>0. PICK b \in Addresses, t \in Places : \E k, v, prot, l :
          r = Sheet(b, k, v, prot, t, l) /\ ~ WX(prot)
    BY <1>2 DEF IsPage
  <2>1. PICK k, v, prot, l : r = Sheet(b, k, v, prot, t, l) /\ ~ WX(prot)
    BY <2>0
  <2>2. \/ y = Sheet(b, k, v, prot, t, l)
        \/ y = Sheet(b, k, v, prot, x, l) /\ x \in Places
        \/ y = Sheet(b, k, x, prot, t, l)
        \/ y = Sheet(b, k, v, prot, t, x)
        \/ y = Sheet(x, k, v, prot, t, l) /\ x \in Addresses
        \/ y = Sheet(b, k, v, x, t, l) /\ ~ WX(x)
    BY <2>1 DEF Sheet
  <2>3. IsPage(y)
    <3>1. ASSUME NEW b1 \in Addresses, NEW t1 \in Places, NEW k1, NEW v1, NEW p1, NEW l1,
                 y = Sheet(b1, k1, v1, p1, t1, l1), ~ WX(p1)
          PROVE  IsPage(y)
      BY <3>1, Zenon DEF IsPage
    <3> QED BY <2>1, <2>2, <3>1
  <2>4. y.kind = r.kind /\ y # Unmapped
    BY <2>1, <2>2 DEF Sheet, Unmapped
  <2> QED BY <1>2, <2>3, <2>4
<1> QED BY <1>1, <1>2

(* A new page is one of the kind asked for. *)
LEMMA NewPage ==
  ASSUME NEW b \in Addresses, NEW k, NEW v
  PROVE  IsPage(Page(b, k, v)) /\ Page(b, k, v).kind = k
<1>1. "none" \in Places /\ ~ WX(RW)
  BY DEF Places, WX, RW
<1>2. Page(b, k, v) = Sheet(b, k, v, RW, "none", FALSE)
  BY Zenon DEF Page, Sheet
<1>3. IsPage(Page(b, k, v))
  BY <1>1, <1>2, Zenon DEF IsPage
<1> QED BY <1>3 DEF Page

(* Where the program is, and what it counts. *)
WhereInv ==
  /\ program \in Programs
  /\ pc \in DOMAIN Script[program]
  /\ end \in {"running", "returned", "error", "handled", "killed"}
  /\ handler.how = "jump" => program \in Jumpers
  /\ fd \in BOOLEAN /\ failed \in BOOLEAN
  /\ counter \in 0 .. StackFrames /\ faults \in Nat

(* An action is for one kind of step. *)
LEMMA OpOf ==
  /\ GetMemory => Step.op = "get"
  /\ MmapFileStep => Step.op = "mmap_file"
  /\ OverflowStep => Step.op = "overflow"
  /\ TrimStep => Step.op = "trim"
  /\ MmapFixedStep => Step.op = "mmap_fixed"
  /\ CheckStep => Step.op = "check"
  /\ MunmapStep => Step.op = "munmap"
  /\ FreeStep => Step.op = "free"
  /\ ResizeStep => Step.op = "resize"
  /\ MprotectStep => Step.op = "mprotect"
  /\ DontneedStep => Step.op = "dontneed"
  /\ PageoutStep => Step.op = "pageout"
  /\ MlockStep => Step.op = "mlock"
  /\ MunlockStep => Step.op = "munlock"
  /\ SbrkStep => Step.op = "sbrk"
  /\ SbrkBackStep => Step.op = "sbrk_back"
  /\ PrintBreak => Step.op = "brk"
  /\ PrintfBuffer => Step.op = "printf"
  /\ Load => Step.op \in {"read", "touch", "str", "exec"}
  /\ Store => Step.op = "write"
  /\ PrintNull => Step.op = "str"
  /\ BadAccess => Step.op \in {"read", "touch", "str", "write", "exec"}
  /\ RecurseStep => Step.op = "recurse"
  /\ LandedStep => Step.op = "landed"
  /\ SigactionStep => Step.op = "sigaction"
  /\ OpenStep => Step.op = "open"
  /\ WriteFileStep => Step.op = "write_file"
  /\ FopenFails => Step.op \in {"read_file", "rss", "maps"}
  /\ ReadFileStep => Step.op = "read_file"
  /\ UnlinkStep => Step.op = "unlink"
  /\ RssStep => Step.op = "rss"
  /\ MapsStep => Step.op = "maps"
  /\ RusageStep => Step.op = "rusage"
  /\ PagemapStep => Step.op = "pagemap"
  /\ UnreachableStep => Step.op = "unreachable"
  /\ ReturnStep => Step.op = "return"
<1>1. DOMAIN Mode = {"read", "touch", "str", "write", "exec"}
  BY DEF Mode
<1> USE DEF At
<1>2. /\ GetMemory => Step.op = "get"
      /\ MmapFileStep => Step.op = "mmap_file"
      /\ OverflowStep => Step.op = "overflow"
      /\ TrimStep => Step.op = "trim"
      /\ MmapFixedStep => Step.op = "mmap_fixed"
      /\ CheckStep => Step.op = "check"
      /\ MunmapStep => Step.op = "munmap"
      /\ FreeStep => Step.op = "free"
  BY Zenon DEF GetMemory, MmapFileStep, OverflowStep, TrimStep, MmapFixedStep, CheckStep,
     MunmapStep, FreeStep
<1>3. /\ ResizeStep => Step.op = "resize"
      /\ MprotectStep => Step.op = "mprotect"
      /\ DontneedStep => Step.op = "dontneed"
      /\ PageoutStep => Step.op = "pageout"
      /\ MlockStep => Step.op = "mlock"
      /\ MunlockStep => Step.op = "munlock"
  BY Zenon DEF ResizeStep, MprotectStep, DontneedStep, PageoutStep, MlockStep, MunlockStep
<1>4. /\ SbrkStep => Step.op = "sbrk"
      /\ SbrkBackStep => Step.op = "sbrk_back"
      /\ PrintBreak => Step.op = "brk"
      /\ PrintfBuffer => Step.op = "printf"
      /\ PrintNull => Step.op = "str"
  BY Zenon DEF SbrkStep, SbrkBackStep, PrintBreak, PrintfBuffer, PrintNull
<1>5. /\ Load => Step.op \in {"read", "touch", "str", "exec"}
      /\ Store => Step.op = "write"
      /\ BadAccess => Step.op \in {"read", "touch", "str", "write", "exec"}
  BY <1>1 DEF Load, Store, BadAccess, Accesses
<1>6. /\ RecurseStep => Step.op = "recurse"
      /\ LandedStep => Step.op = "landed"
      /\ SigactionStep => Step.op = "sigaction"
      /\ OpenStep => Step.op = "open"
      /\ WriteFileStep => Step.op = "write_file"
      /\ FopenFails => Step.op \in {"read_file", "rss", "maps"}
      /\ ReadFileStep => Step.op = "read_file"
      /\ UnlinkStep => Step.op = "unlink"
  BY Zenon DEF RecurseStep, LandedStep, SigactionStep, OpenStep, WriteFileStep, FopenFails,
     ReadFileStep, UnlinkStep
<1>7. /\ RssStep => Step.op = "rss"
      /\ MapsStep => Step.op = "maps"
      /\ RusageStep => Step.op = "rusage"
      /\ PagemapStep => Step.op = "pagemap"
      /\ UnreachableStep => Step.op = "unreachable"
      /\ ReturnStep => Step.op = "return"
  BY Zenon DEF RssStep, MapsStep, RusageStep, PagemapStep, UnreachableStep, ReturnStep
<1> QED BY <1>2, <1>3, <1>4, <1>5, <1>6, <1>7, Zenon

(* A step that leaves the program where it is. *)
Stays == UNCHANGED <<program, pc, end, handler>>

(* Every step goes on, leaves, faults, stays, or installs the handler. *)
LEMMA Moves ==
  ASSUME [MCNext]_allVars
  PROVE  \/ Advance /\ Step.op # "return"
         \/ Leave("error") \/ Leave("killed") \/ Leave("returned")
         \/ Segv(FALSE) \/ Segv(TRUE)
         \/ Stays
         \/ SigactionStep
<1>1. CASE GetMemory \/ MmapFileStep \/ MmapFixedStep \/ CheckStep \/ MunmapStep \/ FreeStep
  BY <1>1, OpOf DEF GetMemory, MmapFileStep, MmapFixedStep, CheckStep, MunmapStep, FreeStep
<1>2. CASE ResizeStep \/ MprotectStep \/ DontneedStep \/ PageoutStep \/ MlockStep \/ MunlockStep
  BY <1>2, OpOf DEF ResizeStep, MprotectStep, DontneedStep, PageoutStep, MlockStep, MunlockStep
<1>3. CASE SbrkStep \/ SbrkBackStep \/ PrintBreak \/ PrintfBuffer \/ Load \/ Store \/ PrintNull
  BY <1>3, OpOf DEF SbrkStep, SbrkBackStep, PrintBreak, PrintfBuffer, Load, Store, PrintNull
<1>4. CASE BadAccess \/ RecurseStep \/ LandedStep \/ OpenStep \/ WriteFileStep \/ FopenFails
  BY <1>4, OpOf
     DEF BadAccess, RecurseStep, LandedStep, OpenStep, WriteFileStep, FopenFails, Stays
<1>5. CASE ReadFileStep \/ UnlinkStep \/ RssStep \/ MapsStep \/ RusageStep
  BY <1>5, OpOf DEF ReadFileStep, UnlinkStep, RssStep, MapsStep, RusageStep
<1>6. CASE PagemapStep \/ UnreachableStep \/ ReturnStep \/ TrimStep \/ OverflowStep
  BY <1>6, OpOf DEF PagemapStep, UnreachableStep, ReturnStep, TrimStep, OverflowStep
<1>7. CASE At("measure") /\ Measuring
  BY <1>7 DEF Measuring, At, Stays, vars
<1>8. CASE MCReclaim
  BY <1>8 DEF MCReclaim, Reclaim, Stays
<1>9. CASE UNCHANGED allVars
  BY <1>9 DEF allVars, vars, Stays
<1> QED
  BY <1>1, <1>2, <1>3, <1>4, <1>5, <1>6, <1>7, <1>8, <1>9 DEF MCNext, MCProcess, Process, PlainStep

(* So the program stays in its script. *)
LEMMA WhereStep == WhereInv /\ [MCNext]_allVars => WhereInv'
<1> SUFFICES ASSUME WhereInv, [MCNext]_allVars PROVE WhereInv'
  OBVIOUS
<1>0. StackFrames \in Nat
  BY MemoryAssumption DEF AddressAssumption
<1>1. /\ (program \in Programs /\ pc \in DOMAIN Script[program])'
      /\ end' \in {"running", "returned", "error", "handled", "killed"}
      /\ handler'.how = "jump" => program' \in Jumpers
  <2>1. /\ Step.op # "return" => pc + 1 \in DOMAIN Script[program]
        /\ Step.op = "sigaction" /\ Step.how = "jump" => program \in Jumpers
    BY StepFacts DEF WhereInv, Step
  <2>2. program \in Jumpers => Landing \in DOMAIN Script[program]
    BY LandingIs
  <2>3. Default.how # "jump"
    BY DEF Default
  <2>4. CASE Advance /\ Step.op # "return"
    BY <2>1, <2>4 DEF WhereInv, Advance
  <2>5. CASE Leave("error") \/ Leave("killed") \/ Leave("returned")
    BY <2>5 DEF WhereInv, Leave
  <2>6. CASE Segv(FALSE) \/ Segv(TRUE)
    BY <2>2, <2>3, <2>6 DEF WhereInv, Segv
  <2>7. CASE Stays
    BY <2>7 DEF WhereInv, Stays
  <2>8. CASE SigactionStep
    BY <2>1, <2>8, OpOf DEF WhereInv, SigactionStep
  <2> QED BY <2>4, <2>5, <2>6, <2>7, <2>8, Moves
<1>2. (fd \in BOOLEAN /\ failed \in BOOLEAN /\ counter \in 0 .. StackFrames /\ faults \in Nat)'
  <2> USE <1>0 DEF WhereInv, files, log, memory, Fails, Grants, Shown, Faulted
  <2>1. CASE GetMemory \/ MmapFileStep \/ MmapFixedStep \/ CheckStep \/ MunmapStep \/ FreeStep
    BY <2>1 DEF GetMemory, MmapFileStep, MmapFixedStep, CheckStep, MunmapStep, FreeStep
  <2>2. CASE MprotectStep \/ DontneedStep \/ PageoutStep \/ MlockStep \/ MunlockStep
    BY <2>2 DEF MprotectStep, DontneedStep, PageoutStep, MlockStep, MunlockStep
  <2>13. CASE ResizeStep
    <3>1. (UNCHANGED <<files, log>>) /\ (UNCHANGED <<brk, failed>> \/ failed' = TRUE)
      BY <2>13, Zenon DEF ResizeStep
    <3> QED BY <3>1
  <2>3. CASE SbrkStep \/ SbrkBackStep \/ PrintBreak \/ PrintfBuffer \/ PrintNull
    BY <2>3 DEF SbrkStep, SbrkBackStep, PrintBreak, PrintfBuffer, PrintNull
  <2>10. CASE Load \/ Store
    <3>1. (UNCHANGED <<fd, failed, counter>>) /\ (faults' = faults + 1 \/ faults' = faults)
      BY <2>10 DEF Load, Store
    <3> QED BY <3>1
  <2>4. CASE LandedStep \/ OpenStep \/ WriteFileStep
    BY <2>4 DEF LandedStep, OpenStep, WriteFileStep
  <2>11. CASE BadAccess \/ FopenFails
    BY <2>11, Zenon DEF BadAccess, FopenFails
  <2>12. CASE RecurseStep
    <3>1. /\ UNCHANGED <<fd, failed, faults>>
          /\ counter' = counter \/ (counter < StackFrames /\ counter' = counter + 1)
      BY <2>12, Zenon DEF RecurseStep
    <3> QED BY <3>1
  <2>5. CASE ReadFileStep \/ UnlinkStep \/ MapsStep \/ RusageStep
    BY <2>5 DEF ReadFileStep, UnlinkStep, MapsStep, RusageStep
  <2>14. CASE RssStep
    <3>1. (UNCHANGED <<memory, files, failed>>) /\ UNCHANGED <<counter, faults>>
      BY <2>14, Zenon DEF RssStep
    <3> QED BY <3>1
  <2>6. CASE PagemapStep \/ UnreachableStep \/ ReturnStep \/ SigactionStep \/ TrimStep \/ OverflowStep
    BY <2>6 DEF PagemapStep, UnreachableStep, ReturnStep, SigactionStep, TrimStep, OverflowStep
  <2>7. CASE At("measure") /\ Measuring
    BY <2>7 DEF Measuring, vars
  <2>8. CASE MCReclaim
    BY <2>8 DEF MCReclaim, Reclaim
  <2>9. CASE UNCHANGED allVars
    BY <2>9 DEF allVars, vars
  <2> QED
    BY <2>1, <2>2, <2>3, <2>4, <2>5, <2>6, <2>7, <2>8, <2>9, <2>10, <2>11, <2>12, <2>13,
       <2>14
       DEF MCNext, MCProcess, Process, PlainStep
<1> QED BY <1>1, <1>2 DEF WhereInv

(* Pages and pointers of the program. *)
PagesInv == /\ page = [b \in Addresses |-> page[b]]
            /\ \A b \in Addresses : IsPage(page[b])
            /\ ptr \in [Pointers -> Addresses \cup {Nowhere}]

(* A step that makes no library page. *)
Harmless == /\ page' = [b \in Addresses |-> page'[b]]
            /\ \A b \in Addresses : /\ IsPage(page'[b])
                                    /\ page'[b].kind = "library" => page[b].kind = "library"
            /\ ptr' \in [Pointers -> Addresses \cup {Nowhere}]

(* A step that changes single fields of pages, or drops some, is harmless. *)
LEMMA EditsAreHarmless ==
  ASSUME PagesInv, UNCHANGED ptr,
         page' = [b \in Addresses |-> page'[b]],
         \A b \in Addresses :
           \/ page'[b] = Unmapped
           \/ IsPage(page'[b]) /\ page'[b].kind = page[b].kind
  PROVE  Harmless
<1>1. IsPage(Unmapped) /\ Unmapped.kind # "library"
  BY DEF IsPage, Unmapped
<1> QED BY <1>1 DEF PagesInv, Harmless

(* So is one that changes no page, *)
LEMMA NoPageChanged ==
  ASSUME PagesInv, UNCHANGED page, ptr' \in [Pointers -> Addresses \cup {Nowhere}]
  PROVE  Harmless
BY DEF PagesInv, Harmless

(* A call that fails changes no page. *)
LEMMA FailsIsHarmless == ASSUME PagesInv, NEW p, Fails(p) PROVE Harmless
BY NoPageChanged DEF Fails, PagesInv

(* and one that makes n new pages at a, all alike. *)
LEMMA GrantIsHarmless ==
  ASSUME PagesInv, NEW p, NEW a \in Addresses, NEW n, NEW r, IsPage(r), r.kind # "library",
         page' = [b \in Addresses |-> IF b \in Span(a, n) THEN r ELSE page[b]],
         ptr' = [ptr EXCEPT ![p] = a]
  PROVE  Harmless
BY DEF PagesInv, Harmless

(* mmap(), malloc() and calloc() make no library page and none to be       *)
(* written and run.                                                        *)
LEMMA GetHarmless == ASSUME WhereInv, PagesInv, GetMemory PROVE Harmless
<1>1. CASE Fails(Step.p)
  BY <1>1, FailsIsHarmless
<1>3. CASE ~ Fails(Step.p)
  <2>1. PICK a \in Room(Step.n) :
          /\ page' = [b \in Addresses |->
                        IF b \in Span(a, Step.n)
                        THEN [Page(a, Step.kind, Step.val) EXCEPT
                                !.at = IF Step.touched THEN "frame" ELSE "none"]
                        ELSE page[b]]
          /\ ptr' = [ptr EXCEPT ![Step.p] = a]
    BY <1>3, Zenon DEF GetMemory, Grants, Put
  <2>2. PICK t, r : /\ t = IF Step.touched THEN "frame" ELSE "none"
                    /\ r = [Page(a, Step.kind, Step.val) EXCEPT !.at = t]
    BY Zenon
  <2>3. page' = [b \in Addresses |-> IF b \in Span(a, Step.n) THEN r ELSE page[b]]
    BY <2>1, <2>2
  <2>4. Step.kind # "library"
    <3>1. Step.op = "get" /\ Tame(Step)
      BY OpOf, StepFacts DEF WhereInv, Step
    <3> QED BY <3>1 DEF Tame
  <2>5. a \in Addresses
    BY AddressesAre DEF Room
  <2>6. t \in Places
    BY <2>2 DEF Places
  <2>7. IsPage(r) /\ r.kind = Step.kind
    <3>1. PICK o : o = Page(a, Step.kind, Step.val)
      BY Zenon
    <3>2. IsPage(o) /\ o.kind = Step.kind
      BY <2>5, <3>1, NewPage
    <3>3. r = [o EXCEPT !.at = t]
      BY <2>2, <3>1, Zenon
    <3> QED BY <2>6, <3>2, <3>3, PageEdits
  <2>8. ptr' = [ptr EXCEPT ![Step.p] = a] /\ r.kind # "library" /\ IsPage(r)
    BY <2>1, <2>4, <2>7
  <2> QED BY <2>3, <2>5, <2>8, GrantIsHarmless
<1> QED BY <1>1, <1>3

(* Nor does a file that is mapped, or a page mapped at an address. *)
LEMMA MapHarmless ==
  ASSUME WhereInv, PagesInv, MmapFileStep \/ MmapFixedStep PROVE Harmless
<1>1. CASE Fails(Step.p)
  BY <1>1, FailsIsHarmless
<1>2. CASE MmapFileStep /\ ~ Fails(Step.p)
  <2>1. PICK a \in Room(1) :
          /\ page' = [b \in Addresses |-> IF b \in Span(a, 1) THEN Page(a, Step.kind, "file")
                                          ELSE page[b]]
          /\ ptr' = [ptr EXCEPT ![Step.p] = a]
    BY <1>2, Zenon DEF MmapFileStep, Grants, Put
  <2>2. Step.kind # "library"
    <3>1. Step.op = "mmap_file" /\ Tame(Step)
      BY <1>2, OpOf, StepFacts DEF WhereInv, Step
    <3> QED BY <3>1 DEF Tame
  <2>3. a \in Addresses
    BY AddressesAre DEF Room
  <2>4. PICK r : r = Page(a, Step.kind, "file")
    BY Zenon
  <2>5. IsPage(r) /\ r.kind # "library"
    BY <2>2, <2>3, <2>4, NewPage
  <2>6. page' = [b \in Addresses |-> IF b \in Span(a, 1) THEN r ELSE page[b]]
    BY <2>1, <2>4, Zenon
  <2>7. ptr' = [ptr EXCEPT ![Step.p] = a]
    BY <2>1
  <2> QED BY <2>3, <2>5, <2>6, <2>7, GrantIsHarmless
<1>3. CASE MmapFixedStep /\ ~ Fails(Step.p)
  <2>1. PICK a : /\ a = ptr[Step.at] /\ a # Nowhere
                 /\ page' = [b \in Addresses |-> IF b \in Span(a, 1) THEN Page(a, "map", "zero")
                                                 ELSE page[b]]
                 /\ ptr' = [ptr EXCEPT ![Step.p] = a]
    BY <1>3, Zenon DEF MmapFixedStep, Grants, Put
  <2>2. Step.at = "p"
    <3>1. Step.op = "mmap_fixed" /\ program = "fixed_noreplace" /\ pc \in DOMAIN Script[program]
      BY <1>3, OpOf, StepFacts DEF WhereInv, Step
    <3>2. pc \in 1 .. 8 /\ Step = fixed_noreplace[pc]
      BY <3>1, ScriptOf, FixedScript DEF Step
    <3>3. pc \in {4, 6}
      BY <3>1, <3>2, FixedScript DEF Mmap, Get, Munmap, Printf, Check, Return, Do
    <3> QED BY <3>2, <3>3, FixedScript DEF MmapFixed
  <2>3. a \in Addresses
    BY <2>1, <2>2 DEF PagesInv, Pointers
  <2>4. PICK r : r = Page(a, "map", "zero")
    BY Zenon
  <2>5. IsPage(r) /\ r.kind # "library"
    BY <2>3, <2>4, NewPage
  <2>6. page' = [b \in Addresses |-> IF b \in Span(a, 1) THEN r ELSE page[b]]
    BY <2>1, <2>4, Zenon
  <2>7. ptr' = [ptr EXCEPT ![Step.p] = a]
    BY <2>1
  <2> QED BY <2>3, <2>5, <2>6, <2>7, GrantIsHarmless
<1> QED BY <1>1, <1>2, <1>3

(* A step that changes one page in one field is harmless. *)
LEMMA OneEdit ==
  ASSUME PagesInv, UNCHANGED ptr, NEW x, NEW y, page' = [page EXCEPT ![x] = y],
         x \in Addresses => IsPage(y) /\ y.kind = page[x].kind
  PROVE  Harmless
BY EditsAreHarmless DEF PagesInv

(* A step that gives memory back is harmless, *)
LEMMA DropHarmless ==
  ASSUME PagesInv, UNCHANGED ptr, NEW S, page' = Drop(S) PROVE Harmless
<1>1. \A b \in Addresses : page'[b] = Unmapped \/ page'[b] = page[b]
  BY DEF Drop
<1>2. page' = [b \in Addresses |-> page'[b]]
  BY DEF Drop
<1> QED BY <1>1, <1>2, EditsAreHarmless DEF PagesInv

(* as munmap(), free() and the break moved back are. *)
LEMMA UnmapHarmless == ASSUME PagesInv, MunmapStep \/ FreeStep \/ SbrkBackStep PROVE Harmless
<1>0. UNCHANGED ptr
  BY DEF MunmapStep, FreeStep, SbrkBackStep
<1>1. UNCHANGED page \/ \E S : page' = Drop(S)
  BY DEF MunmapStep, FreeStep, SbrkBackStep
<1> QED BY <1>0, <1>1, DropHarmless, NoPageChanged DEF PagesInv

(* mprotect() gives no page both rights: the steps never ask for both. *)
LEMMA MprotectHarmless == ASSUME WhereInv, PagesInv, MprotectStep PROVE Harmless
<1>0. UNCHANGED ptr
  BY DEF MprotectStep
<1>1. CASE UNCHANGED page
  BY <1>0, <1>1, NoPageChanged DEF PagesInv
<1>2. CASE page' = [page EXCEPT ![ptr[Step.p] + Step.k].prot = Step.prot]
  <2>1. ~ WX(Step.prot)
    <3>1. Step.op = "mprotect" /\ Tame(Step)
      BY OpOf, StepFacts DEF WhereInv, Step
    <3> QED BY <3>1 DEF Tame, WX
  <2>2. PICK x, y : x = ptr[Step.p] + Step.k /\ y = [page[x] EXCEPT !.prot = Step.prot]
    BY Zenon
  <2>3. page' = [page EXCEPT ![x] = y]
    BY <1>2, <2>2
  <2>4. x \in Addresses => IsPage(y) /\ y.kind = page[x].kind
    BY <2>1, <2>2, PageEdits DEF PagesInv
  <2> QED BY <1>0, <2>3, <2>4, OneEdit
<1> QED BY <1>1, <1>2 DEF MprotectStep

(* madvise(), mlock() and munlock() change where a page is, not what it is. *)
LEMMA AdviceHarmless ==
  ASSUME PagesInv, DontneedStep \/ PageoutStep \/ MlockStep \/ MunlockStep PROVE Harmless
<1>0. UNCHANGED ptr /\ "none" \in Places /\ "swap" \in Places /\ "frame" \in Places
  BY DEF DontneedStep, PageoutStep, MlockStep, MunlockStep, Places
<1>1. CASE UNCHANGED page
  BY <1>0, <1>1, NoPageChanged DEF PagesInv
<1>2. CASE \E S : page' = Drop(S)
  BY <1>0, <1>2, DropHarmless
<1>3. CASE DontneedStep /\ ~ UNCHANGED page
  <2>1. page' = [b \in Addresses |-> IF b \in Span(ptr[Step.p], Step.n)
                                    THEN [page[b] EXCEPT !.at = "none", !.val = "zero"]
                                    ELSE page[b]]
    BY <1>3, Zenon DEF DontneedStep, Put
  <2>2. ASSUME NEW b \in Addresses PROVE IsPage(page'[b]) /\ page'[b].kind = page[b].kind
    <3>1. PICK r, s, y : /\ r = page[b] /\ s = [r EXCEPT !.at = "none"]
                         /\ y = [s EXCEPT !.val = "zero"]
      BY Zenon
    <3>2. page'[b] = y \/ page'[b] = r
      BY <2>1, <3>1
    <3>3. IsPage(r)
      BY <3>1 DEF PagesInv
    <3>4. IsPage(s) /\ s.kind = r.kind
      BY <1>0, <3>1, <3>3, PageEdits
    <3>5. y = [s EXCEPT !.val = "zero"]
      BY <3>1
    <3>6. IsPage(y) /\ y.kind = s.kind
      BY <3>4, <3>5, PageEdits
    <3> QED BY <3>1, <3>2, <3>3, <3>4, <3>6
  <2>3. page' = [b \in Addresses |-> page'[b]]
    BY <2>1
  <2> QED BY <1>0, <2>2, <2>3, EditsAreHarmless
<1>4. CASE page' = Put(ptr[Step.p], Step.n, SwappedOut)
  <2>1. page' = [b \in Addresses |-> IF b \in Span(ptr[Step.p], Step.n) THEN SwappedOut(b) ELSE page[b]]
    BY <1>4, Zenon DEF Put
  <2>2. ASSUME NEW b \in Addresses PROVE IsPage(page'[b]) /\ page'[b].kind = page[b].kind
    <3>1. PICK r, s : r = page[b] /\ s = [r EXCEPT !.at = "swap"]
      BY Zenon
    <3>2. page'[b] = s \/ page'[b] = r
      BY <2>1, <3>1 DEF SwappedOut
    <3>3. IsPage(r)
      BY <3>1 DEF PagesInv
    <3>4. IsPage(s) /\ s.kind = r.kind
      BY <1>0, <3>1, <3>3, PageEdits
    <3> QED BY <3>1, <3>2, <3>3, <3>4
  <2>3. page' = [b \in Addresses |-> page'[b]]
    BY <2>1
  <2> QED BY <1>0, <2>2, <2>3, EditsAreHarmless
<1>5. CASE MlockStep /\ ~ \E S : page' = Drop(S)
  <2>1. page' = [b \in Addresses |-> IF b \in Span(ptr[Step.p], Step.n)
                                    THEN [page[b] EXCEPT !.at = "frame", !.locked = TRUE]
                                    ELSE page[b]]
    BY <1>5, Zenon DEF MlockStep, Put
  <2>2. ASSUME NEW b \in Addresses PROVE IsPage(page'[b]) /\ page'[b].kind = page[b].kind
    <3>1. PICK r, s, y : /\ r = page[b] /\ s = [r EXCEPT !.at = "frame"]
                         /\ y = [s EXCEPT !.locked = TRUE]
      BY Zenon
    <3>2. page'[b] = y \/ page'[b] = r
      BY <2>1, <3>1
    <3>3. IsPage(r)
      BY <3>1 DEF PagesInv
    <3>4. IsPage(s) /\ s.kind = r.kind
      BY <1>0, <3>1, <3>3, PageEdits
    <3>5. y = [s EXCEPT !.locked = TRUE]
      BY <3>1
    <3>6. IsPage(y) /\ y.kind = s.kind
      BY <3>4, <3>5, PageEdits
    <3> QED BY <3>1, <3>2, <3>3, <3>4, <3>6
  <2>3. page' = [b \in Addresses |-> page'[b]]
    BY <2>1
  <2> QED BY <1>0, <2>2, <2>3, EditsAreHarmless
<1>6. CASE MunlockStep
  <2>1. page' = [b \in Addresses |-> IF b \in Span(ptr[Step.p], Step.n)
                                    THEN [page[b] EXCEPT !.locked = FALSE]
                                    ELSE page[b]]
    BY <1>6, Zenon DEF MunlockStep, Put
  <2>2. ASSUME NEW b \in Addresses PROVE IsPage(page'[b]) /\ page'[b].kind = page[b].kind
    <3>1. PICK r, s : r = page[b] /\ s = [r EXCEPT !.locked = FALSE]
      BY Zenon
    <3>2. page'[b] = s \/ page'[b] = r
      BY <2>1, <3>1
    <3>3. IsPage(r)
      BY <3>1 DEF PagesInv
    <3>4. IsPage(s) /\ s.kind = r.kind
      BY <1>0, <3>1, <3>3, PageEdits
    <3> QED BY <3>1, <3>2, <3>3, <3>4
  <2>3. page' = [b \in Addresses |-> page'[b]]
    BY <2>1
  <2> QED BY <1>0, <2>2, <2>3, EditsAreHarmless
<1>7. PageoutStep => UNCHANGED page \/ page' = Put(ptr[Step.p], Step.n, SwappedOut)
  BY Zenon DEF PageoutStep
<1> QED BY <1>1, <1>2, <1>3, <1>4, <1>5, <1>6, <1>7

(* Neither do reads, writes and the kernel's reclaim. *)
LEMMA AccessHarmless == ASSUME PagesInv, Load \/ Store \/ MCReclaim PROVE Harmless
<1>0. UNCHANGED ptr
  BY DEF Load, Store, MCReclaim, Reclaim
<1>1. CASE Load
  <2>1. PICK x, y : /\ x = Address
                    /\ y = [page[x] EXCEPT !.at =
                              CASE @ = "none" -> IF page[x].kind \in {"private", "shared"}
                                                 THEN "cache" ELSE "zero"
                                [] @ = "swap" -> "frame"
                                [] OTHER -> @]
    BY Zenon
  <2>2. page' = [page EXCEPT ![x] = y]
    BY <1>1, <2>1 DEF Load
  <2>3. ASSUME x \in Addresses PROVE IsPage(y) /\ y.kind = page[x].kind
    <3>1. page[x] # Unmapped /\ IsPage(page[x])
      BY <1>1, <2>1, <2>3 DEF Load, Accessible, PagesInv
    <3>2. page[x].at \in Places
      BY <3>1, PageFacts
    <3>3. PICK t \in Places : y = [page[x] EXCEPT !.at = t]
      BY <2>1, <3>2 DEF Places
    <3> QED BY <3>1, <3>3, PageEdits
  <2> QED BY <1>0, <2>2, <2>3, OneEdit
<1>2. CASE Store
  <2>1. PICK x : x = Address
    BY Zenon
  <2>2. CASE page[x].kind = "shared"
    <3>1. PICK y : y = [page[x] EXCEPT !.at = "cache"]
      BY Zenon
    <3>2. page' = [page EXCEPT ![x] = y]
      BY <1>2, <2>1, <2>2, <3>1 DEF Store
    <3>3. x \in Addresses => IsPage(y) /\ y.kind = page[x].kind
      BY <3>1, PageEdits DEF PagesInv, Places
    <3> QED BY <1>0, <3>2, <3>3, OneEdit
  <2>3. CASE page[x].kind # "shared"
    <3>1. PICK s, y : s = [page[x] EXCEPT !.at = "frame"] /\ y = [s EXCEPT !.val = Step.v]
      BY Zenon
    <3>2. page' = [page EXCEPT ![x] = y]
      BY <1>2, <2>1, <2>3, <3>1 DEF Store, PagesInv
    <3>3. ASSUME x \in Addresses PROVE IsPage(y) /\ y.kind = page[x].kind
      <4>0. s = [page[x] EXCEPT !.at = "frame"]
        BY <3>1
      <4>1. IsPage(s) /\ s.kind = page[x].kind
        BY <3>3, <4>0, PageEdits DEF PagesInv, Places
      <4>2. y = [s EXCEPT !.val = Step.v]
        BY <3>1
      <4>3. IsPage(y) /\ y.kind = s.kind
        BY <4>1, <4>2, PageEdits
      <4> QED BY <4>1, <4>3
    <3> QED BY <1>0, <3>2, <3>3, OneEdit
  <2> QED BY <2>2, <2>3
<1>3. CASE MCReclaim
  <2>1. PICK a \in Addresses : Reclaim(a)
    BY <1>3 DEF MCReclaim
  <2>2. PICK t, y : /\ t = IF page[a].at = "frame" THEN "swap" ELSE "none"
                    /\ y = [page[a] EXCEPT !.at = t]
    BY Zenon
  <2>3. page' = [page EXCEPT ![a] = y]
    BY <2>1, <2>2 DEF Reclaim
  <2>4. t \in Places
    BY <2>2 DEF Places
  <2>5. IsPage(y) /\ y.kind = page[a].kind
    BY <2>2, <2>4, PageEdits DEF PagesInv
  <2> QED BY <1>0, <2>3, <2>5, OneEdit
<1> QED BY <1>1, <1>2, <1>3

(* The n pages from p on are addresses of the process. *)
Reach(p, n) == ptr[p] # Nowhere => ptr[p] + n - 1 \in Addresses

(* What the programs that resize know of the region they resize. *)
SizeInv == /\ program = "malloc_basics" /\ pc \in 6 .. 8 => Reach("a", 2)
           /\ program = "mremap" /\ pc \in 2 .. 5 => Reach("p", 2)
           /\ program = "mremap" /\ pc \in 6 .. 8 => Reach("q", Large)

(* A region that a script resizes lies in the address space with all its   *)
(* pages.                                                                  *)
LEMMA ResizeIs ==
  ASSUME WhereInv, PagesInv, SizeInv, Step.op = "resize"
  PROVE  /\ Step.n \in Nat \ {0} /\ Step.m \in Nat \ {0} /\ Step.kind # "library"
         /\ Step.p \in Pointers
         /\ Reach(Step.p, Step.n)
<1>0. program \in Resizers /\ pc \in DOMAIN Script[program]
  BY StepFacts DEF WhereInv, Step
<1>1. Reach("a", 1) /\ Reach("p", 1)
  BY AddressesAre DEF PagesInv, Reach, Pointers
<1>2. {"a", "p", "q"} \subseteq Pointers
  BY DEF Pointers
<1>3. CASE program = "malloc_basics"
  <2>1. pc \in 1 .. 14 /\ Step = malloc_basics[pc]
    BY <1>0, <1>3, ScriptOf, BasicsScript DEF Step
  <2>2. pc \in {5, 8}
    BY <2>1, BasicsScript DEF Malloc, Calloc, Get, Read, Write, Free, Return, Do
  <2> QED BY <1>1, <1>2, <1>3, <2>1, <2>2, BasicsScript, AddressesAre DEF Resize, SizeInv
<1>4. CASE program = "calloc_realloc"
  <2>1. pc \in 1 .. 15 /\ Step = calloc_realloc[pc]
    BY <1>0, <1>4, ScriptOf, ReallocScript DEF Step
  <2>2. pc \in {8, 10}
    BY <2>1, ReallocScript DEF Malloc, Calloc, Overflow, Get, Read, Write, Str, Free, Return, Do
  <2> QED BY <1>1, <1>2, <2>1, <2>2, ReallocScript, AddressesAre DEF Resize
<1>5. CASE program = "mremap"
  <2>1. pc \in 1 .. 12 /\ Step = mremap[pc]
    BY <1>0, <1>5, ScriptOf, MremapScript DEF Step
  <2>2. pc \in {5, 8}
    BY <2>1, MremapScript DEF Mmap, Get, Check, Read, Write, Munmap, Return, Do
  <2> QED BY <1>1, <1>2, <1>5, <2>1, <2>2, MremapScript, AddressesAre DEF Resize, SizeInv
<1> QED BY <1>0, <1>3, <1>4, <1>5 DEF Resizers

(* So a resize moves pages that there are, and makes no library page. *)
LEMMA ResizeHarmless ==
  ASSUME WhereInv, PagesInv, SizeInv, ResizeStep,
         \A b \in Addresses : page[b].kind # "library"
  PROVE  Harmless
<1>1. CASE Fails(Step.q)
  BY <1>1, FailsIsHarmless
<1>2. CASE ~ Fails(Step.q)
  <2> DEFINE n == Step.n
             m == Step.m
             a == ptr[Step.p]
             others == [b \in Addresses |-> IF a # Nowhere /\ b \in Span(a, n)
                                            THEN Unmapped ELSE page[b]]
             fresh == IF Step.kind = "map" THEN "zero" ELSE "junk"
             same == {k \in 0 .. m - 1 : k < n}
  <2>1. PICK c \in MapArea :
          /\ page' = [b \in Addresses |->
                        IF b \notin Span(c, m) THEN others[b]
                        ELSE IF a # Nowhere /\ b - c \in same
                             THEN [page[a + b - c] EXCEPT !.base = c]
                             ELSE Page(c, Step.kind, fresh)]
          /\ ptr' = [ptr EXCEPT ![Step.q] = c]
    BY <1>2, Zenon DEF ResizeStep
  <2>2. /\ n \in Nat \ {0} /\ m \in Nat \ {0} /\ Step.kind # "library"
        /\ a \in Addresses \cup {Nowhere}
        /\ a # Nowhere => a + n - 1 \in Addresses
    <3>1. Step.op = "resize"
      BY OpOf
    <3> QED BY <3>1, ResizeIs DEF Reach, PagesInv
  <2>3. c \in Addresses
    BY AddressesAre
  <2>4. IsPage(Unmapped) /\ Unmapped.kind # "library"
    BY DEF IsPage, Unmapped
  <2>5. ASSUME NEW b \in Addresses
        PROVE  IsPage(page'[b]) /\ page'[b].kind # "library"
    <3>1. CASE b \notin Span(c, m)
      <4>1. page'[b] = Unmapped \/ page'[b] = page[b]
        BY <2>1, <3>1
      <4> QED BY <2>4, <4>1 DEF PagesInv
    <3>2. CASE b \in Span(c, m) /\ a # Nowhere /\ b - c \in same
      <4>1. a + b - c \in Addresses
        BY <2>2, <2>3, <3>2, AddressesAre
      <4>2. PICK r, y : r = page[a + b - c] /\ y = [r EXCEPT !.base = c]
        BY Zenon
      <4>3. page'[b] = y
        BY <2>1, <3>2, <4>2
      <4>4. IsPage(r) /\ r.kind # "library"
        BY <4>1, <4>2 DEF PagesInv
      <4>5. y = [r EXCEPT !.base = c]
        BY <4>2
      <4>6. IsPage(y) /\ y.kind = r.kind
        BY <2>3, <4>4, <4>5, PageEdits
      <4> QED BY <4>3, <4>4, <4>6
    <3>3. CASE b \in Span(c, m) /\ ~ (a # Nowhere /\ b - c \in same)
      <4>1. PICK v : v = fresh
        BY Zenon
      <4>2. page'[b] = Page(c, Step.kind, v)
        BY <2>1, <3>3, <4>1
      <4> HIDE DEF fresh
      <4> QED BY <2>2, <2>3, <4>2, NewPage
    <3> QED BY <3>1, <3>2, <3>3
  <2>6. page' = [b \in Addresses |-> page'[b]]
    BY <2>1
  <2>7. ptr' \in [Pointers -> Addresses \cup {Nowhere}]
    BY <2>1, <2>3 DEF PagesInv
  <2> QED BY <2>5, <2>6, <2>7 DEF Harmless
<1> QED BY <1>1, <1>2

(* sbrk() makes pages of the break's kind, in the address space. *)
LEMMA SbrkHarmless ==
  ASSUME PagesInv, brk \in 0 .. BrkPages, SbrkStep PROVE Harmless
<1>1. CASE Fails(Step.p)
  BY <1>1, FailsIsHarmless
<1>2. CASE ~ Fails(Step.p)
  <2>1. PICK r : r = Page(brk, "brk", "zero")
    BY Zenon
  <2>2. /\ page' = [b \in Addresses |-> IF b \in Span(brk, Step.n) THEN r ELSE page[b]]
        /\ ptr' = [ptr EXCEPT ![Step.p] = brk]
    BY <1>2, <2>1, Zenon DEF SbrkStep, Put
  <2>3. brk \in Addresses
    BY AddressesAre
  <2>4. IsPage(r) /\ r.kind # "library"
    BY <2>1, <2>3, NewPage
  <2> QED BY <2>2, <2>3, <2>4, GrantIsHarmless
<1> QED BY <1>1, <1>2

(* A step that changes no page, no pointer and not the break. *)
Quiet == UNCHANGED <<page, ptr, brk>>

(* All steps but those on memory are quiet. *)
LEMMA OthersAreQuiet ==
  ASSUME [MCNext]_allVars
  PROVE  \/ GetMemory \/ MmapFileStep \/ MmapFixedStep \/ MunmapStep \/ FreeStep
         \/ ResizeStep \/ MprotectStep \/ DontneedStep \/ PageoutStep \/ MlockStep \/ MunlockStep
         \/ SbrkStep \/ SbrkBackStep \/ PrintfBuffer \/ Load \/ Store \/ MCReclaim
         \/ Quiet
<1> USE DEF Quiet, memory
<1>1. CheckStep \/ PrintBreak \/ PrintNull \/ BadAccess \/ RecurseStep \/ LandedStep => Quiet
  BY Zenon DEF CheckStep, PrintBreak, PrintNull, BadAccess, RecurseStep, LandedStep
<1>2. SigactionStep \/ OpenStep \/ WriteFileStep \/ FopenFails \/ ReadFileStep => Quiet
  BY Zenon DEF SigactionStep, OpenStep, WriteFileStep, FopenFails, ReadFileStep
<1>3. UnlinkStep \/ RssStep \/ MapsStep \/ RusageStep \/ PagemapStep => Quiet
  BY Zenon DEF UnlinkStep, RssStep, MapsStep, RusageStep, PagemapStep
<1>4. UnreachableStep \/ ReturnStep \/ Measuring \/ UNCHANGED allVars => Quiet
  BY DEF UnreachableStep, ReturnStep, Measuring, allVars, vars
<1>5. TrimStep \/ OverflowStep => Quiet
  BY Zenon DEF TrimStep, OverflowStep
<1> HIDE DEF Quiet
<1> QED BY <1>1, <1>2, <1>3, <1>4, <1>5 DEF MCNext, MCProcess, Process, PlainStep

(* Neither the program nor its memory goes on. *)
Idle == MCReclaim \/ UNCHANGED allVars

(* The action that can happen at a step of each kind. *)
LEMMA StepOf ==
  ASSUME [MCNext]_allVars
  PROVE  /\ Step.op = "get" => GetMemory \/ Idle
         /\ Step.op = "resize" => ResizeStep \/ Idle
         /\ Step.op = "printf" => PrintfBuffer \/ Idle
         /\ Step.op = "mmap_fixed" => MmapFixedStep \/ Idle
         /\ Step.op = "munmap" => MunmapStep \/ Idle
         /\ Step.op = "check" => CheckStep \/ Idle
         /\ Step.op = "sbrk" => SbrkStep \/ Idle
         /\ Step.op = "sbrk_back" => SbrkBackStep \/ Idle
         /\ Step.op = "brk" => PrintBreak \/ Idle
         /\ Step.op = "read" => Load \/ BadAccess \/ Idle
         /\ Step.op = "write" => Store \/ BadAccess \/ Idle
         /\ Step.op = "free" => FreeStep \/ Idle
         /\ Step.op = "return" => ReturnStep \/ Idle
<1>1. CASE Process
  BY <1>1, OpOf DEF Process, PlainStep
<1>2. CASE At("measure")
  BY <1>2 DEF At
<1>3. CASE Idle
  BY <1>3
<1> QED BY <1>1, <1>2, <1>3 DEF MCNext, MCProcess, Idle

(* The program does not change, and but for a jump it goes on by one step  *)
(* or not at all; pointers change only when it goes on.                    *)
LEMMA GoesOn ==
  ASSUME WhereInv, [MCNext]_allVars
  PROVE  /\ program' = program
         /\ program \notin Jumpers => pc' \in {pc, pc + 1}
         /\ Advance => pc' = pc + 1
         /\ Idle => pc' = pc /\ ptr' = ptr /\ brk' = brk
<1>1. Idle => pc' = pc /\ ptr' = ptr /\ brk' = brk
  BY DEF Idle, MCReclaim, Reclaim, allVars, vars, memory
<1>2. Advance => pc' = pc + 1
  BY DEF Advance
<1>3. program' = program
  BY Moves DEF Advance, Leave, Segv, Stays, SigactionStep
<1>4. program \notin Jumpers => handler.how # "jump"
  BY DEF WhereInv
<1>5. program \notin Jumpers => pc' \in {pc, pc + 1}
  BY <1>4, Moves DEF Advance, Leave, Segv, Stays, SigactionStep
<1> QED BY <1>1, <1>2, <1>3, <1>5

(* The kernel's reclaim changes neither kind nor content of a page. *)
LEMMA IdleKeeps ==
  ASSUME PagesInv, Idle
  PROVE  \A b \in Addresses : /\ page'[b].kind = page[b].kind
                              /\ page[b] # Unmapped => page'[b].val = page[b].val
<1>1. CASE MCReclaim
  <2>1. PICK a \in Addresses : Reclaim(a)
    BY <1>1 DEF MCReclaim
  <2>2. PICK t, r, y : /\ t = IF page[a].at = "frame" THEN "swap" ELSE "none"
                       /\ r = page[a]
                       /\ y = [r EXCEPT !.at = t]
    BY Zenon
  <2>3. page' = [page EXCEPT ![a] = y]
    BY <2>1, <2>2 DEF Reclaim
  <2>4. IsPage(r) /\ y = [r EXCEPT !.at = t] /\ t \in Places
    BY <2>2 DEF PagesInv, Places
  <2>5. y.kind = r.kind
    BY <2>4, PageEdits
  <2>6. r # Unmapped => y.val = r.val
    BY <2>4 DEF IsPage, Sheet
  <2> QED BY <2>2, <2>3, <2>5, <2>6 DEF PagesInv
<1>2. CASE UNCHANGED allVars
  BY <1>2 DEF allVars, vars, memory
<1> QED BY <1>1, <1>2 DEF Idle

(* What glibc keeps and madvise() refuses changes in four kinds of step. *)
LEMMA KeptSteps ==
  ASSUME [MCNext]_allVars
  PROVE  \/ UNCHANGED <<kept, refused>>
         \/ /\ FreeStep /\ Advance /\ Block(ptr[Step.p]) # {} /\ refused' = refused
            /\ kept' = kept + Cardinality(Block(ptr[Step.p]))
         \/ TrimStep /\ kept' = 0 /\ refused' = refused
         \/ /\ ResizeStep /\ Step.kind = "heap" /\ kept' = kept + Step.n
            /\ Advance /\ refused' = refused
         \/ DontneedStep /\ kept' = kept /\ refused' = TRUE /\ page' = page
<1>1. CASE FreeStep
  BY <1>1, Zenon DEF FreeStep
<1>2. CASE TrimStep
  BY <1>2 DEF TrimStep
<1>3. CASE ResizeStep
  BY <1>3, Zenon DEF ResizeStep
<1>4. CASE DontneedStep
  BY <1>4, Zenon DEF DontneedStep
<1>5. CASE Idle \/ (At("measure") /\ Measuring)
  BY <1>5 DEF Idle, MCReclaim, Reclaim, Measuring, allVars, vars
<1> QED BY <1>1, <1>2, <1>3, <1>4, <1>5 DEF MCNext, MCProcess, Process, Idle

(* mremap() and realloc() leave a region of the size asked for, or none. *)
LEMMA ResizeReaches ==
  ASSUME WhereInv, PagesInv, SizeInv, ResizeStep,
         NEW q \in Pointers, NEW m, q = Step.q, m = Step.m
  PROVE  Reach(q, m)'
<1>1. CASE Fails(q)
  BY <1>1 DEF Fails, PagesInv, Reach
<1>2. CASE ~ Fails(q)
  <2>1. PICK c \in MapArea : /\ \A b \in Span(c, m) : b \in MapArea
                             /\ ptr' = [ptr EXCEPT ![q] = c]
    BY <1>2, Zenon DEF ResizeStep
  <2>2. m \in Nat \ {0}
    BY OpOf, ResizeIs
  <2>3. c + m - 1 \in Span(c, m)
    BY <2>2, AddressesAre DEF Span
  <2>4. c + m - 1 \in Addresses
    BY <2>1, <2>3, AddressesAre
  <2>5. ptr'[q] = c
    BY <2>1 DEF PagesInv
  <2> QED BY <2>4, <2>5 DEF Reach
<1> QED BY <1>1, <1>2

(* mmap() leaves room for all its pages, or none. *)
LEMMA GetReaches ==
  ASSUME WhereInv, PagesInv, GetMemory, NEW q \in Pointers, NEW m \in Nat \ {0},
         q = Step.p, m = Step.n
  PROVE  Reach(q, m)'
<1>1. CASE Fails(q)
  BY <1>1 DEF Fails, PagesInv, Reach
<1>2. CASE ~ Fails(q)
  <2>1. PICK c \in Room(m) : ptr' = [ptr EXCEPT ![q] = c]
    BY <1>2, Zenon DEF GetMemory, Grants
  <2>2. c \in MapArea /\ \A b \in Span(c, m) : b \in MapArea
    BY DEF Room
  <2>3. c + m - 1 \in Span(c, m)
    BY <2>2, AddressesAre DEF Span
  <2>4. c + m - 1 \in Addresses
    BY <2>2, <2>3, AddressesAre
  <2>5. ptr'[q] = c
    BY <2>1 DEF PagesInv
  <2> QED BY <2>4, <2>5 DEF Reach
<1> QED BY <1>1, <1>2

(* Steps between two resizes leave the pointers alone. *)
LEMMA PointersStay ==
  ASSUME [MCNext]_allVars, Step.op \in {"read", "write", "check"} \/ Idle
  PROVE  ptr' = ptr
<1>1. Load \/ Store \/ BadAccess \/ CheckStep \/ Idle
  BY StepOf
<1>2. Load \/ Store => ptr' = ptr
  BY DEF Load, Store
<1>3. BadAccess \/ CheckStep => ptr' = ptr
  BY Zenon DEF BadAccess, CheckStep, memory
<1>4. Idle => ptr' = ptr
  BY DEF Idle, MCReclaim, Reclaim, allVars, vars, memory
<1> QED BY <1>1, <1>2, <1>3, <1>4

(* So the programs keep what they know of their regions. *)
LEMMA SizeStep ==
  ASSUME WhereInv, PagesInv, SizeInv, [MCNext]_allVars
  PROVE  SizeInv'
<1>0. /\ program' = program
      /\ program \notin Jumpers => pc' \in {pc, pc + 1}
      /\ Idle => pc' = pc
      /\ Large \in Nat \ {0} /\ "a" \in Pointers /\ "p" \in Pointers /\ "q" \in Pointers
  BY GoesOn, AddressesAre DEF Pointers
<1>1. ptr' = ptr => \A p \in Pointers, n \in Nat : Reach(p, n) => Reach(p, n)'
  BY DEF Reach
<1>2. CASE program = "malloc_basics"
  <2>1. pc \in 1 .. 14 /\ Step = malloc_basics[pc] /\ program \notin Jumpers
    BY <1>2, ScriptOf, BasicsScript DEF Step, WhereInv, Jumpers
  <2>2. ASSUME pc' \in 6 .. 8 PROVE Reach("a", 2)'
    <3>1. pc \in 5 .. 8
      BY <1>0, <2>1, <2>2
    <3>2. CASE pc = 5
      <4>1. Step.op = "resize" /\ Step.q = "a" /\ Step.m = 2
        BY <2>1, <3>2, BasicsScript DEF Resize
      <4>2. ResizeStep
        BY <1>0, <2>2, <3>2, <4>1, StepOf
      <4> QED BY <1>0, <4>1, <4>2, ResizeReaches
    <3>3. CASE pc \in 6 .. 7
      <4>1. Step.op = "write"
        BY <2>1, <3>3, BasicsScript DEF Write
      <4>2. ptr' = ptr
        BY <4>1, PointersStay
      <4> QED BY <1>0, <1>1, <1>2, <3>3, <4>2 DEF SizeInv
    <3>4. CASE pc = 8
      <4>1. Step.op = "resize"
        BY <2>1, <3>4, BasicsScript DEF Resize
      <4>2. Idle
        <5>1. ResizeStep => pc' = pc + 1
          BY DEF ResizeStep, Advance
        <5> QED BY <2>2, <3>4, <4>1, <5>1, StepOf
      <4>3. ptr' = ptr
        BY <4>2, PointersStay
      <4> QED BY <1>0, <1>1, <1>2, <3>4, <4>3 DEF SizeInv
    <3> QED BY <3>1, <3>2, <3>3, <3>4
  <2> QED BY <1>0, <1>2, <2>2 DEF SizeInv
<1>3. CASE program = "mremap"
  <2>1. pc \in 1 .. 12 /\ Step = mremap[pc] /\ program \notin Jumpers
    BY <1>3, ScriptOf, MremapScript DEF Step, WhereInv, Jumpers
  <2>2. ASSUME pc' \in 2 .. 5 PROVE Reach("p", 2)'
    <3>1. pc \in 1 .. 5
      BY <1>0, <2>1, <2>2
    <3>2. CASE pc = 1
      <4>1. Step.op = "get" /\ Step.p = "p" /\ Step.n = 2
        BY <2>1, <3>2, MremapScript DEF Mmap, Get
      <4>2. GetMemory
        BY <1>0, <2>2, <3>2, <4>1, StepOf
      <4> QED BY <1>0, <4>1, <4>2, GetReaches
    <3>3. CASE pc \in 2 .. 4
      <4>1. Step.op \in {"check", "read", "write"}
        BY <2>1, <3>3, MremapScript DEF Check, Read, Write
      <4>2. ptr' = ptr
        BY <4>1, PointersStay
      <4> QED BY <1>0, <1>1, <1>3, <3>3, <4>2 DEF SizeInv
    <3>4. CASE pc = 5
      <4>1. Step.op = "resize"
        BY <2>1, <3>4, MremapScript DEF Resize
      <4>2. Idle
        <5>1. ResizeStep => pc' = pc + 1
          BY DEF ResizeStep, Advance
        <5> QED BY <2>2, <3>4, <4>1, <5>1, StepOf
      <4>3. ptr' = ptr
        BY <4>2, PointersStay
      <4> QED BY <1>0, <1>1, <1>3, <3>4, <4>3 DEF SizeInv
    <3> QED BY <3>1, <3>2, <3>3, <3>4
  <2>3. ASSUME pc' \in 6 .. 8 PROVE Reach("q", Large)'
    <3>1. pc \in 5 .. 8
      BY <1>0, <2>1, <2>3
    <3>2. CASE pc = 5
      <4>1. Step.op = "resize" /\ Step.q = "q" /\ Step.m = Large
        BY <2>1, <3>2, MremapScript DEF Resize
      <4>2. ResizeStep
        BY <1>0, <2>3, <3>2, <4>1, StepOf
      <4> QED BY <1>0, <4>1, <4>2, ResizeReaches
    <3>3. CASE pc \in 6 .. 7
      <4>1. Step.op \in {"check", "read"}
        BY <2>1, <3>3, MremapScript DEF Check, Read
      <4>2. ptr' = ptr
        BY <4>1, PointersStay
      <4> QED BY <1>0, <1>1, <1>3, <3>3, <4>2 DEF SizeInv
    <3>4. CASE pc = 8
      <4>1. Step.op = "resize"
        BY <2>1, <3>4, MremapScript DEF Resize
      <4>2. Idle
        <5>1. ResizeStep => pc' = pc + 1
          BY DEF ResizeStep, Advance
        <5> QED BY <2>3, <3>4, <4>1, <5>1, StepOf
      <4>3. ptr' = ptr
        BY <4>2, PointersStay
      <4> QED BY <1>0, <1>1, <1>3, <3>4, <4>3 DEF SizeInv
    <3> QED BY <3>1, <3>2, <3>3, <3>4
  <2> QED BY <1>0, <1>3, <2>2, <2>3 DEF SizeInv
<1>4. CASE program \notin {"malloc_basics", "mremap"}
  BY <1>0, <1>4 DEF SizeInv
<1> QED BY <1>2, <1>3, <1>4

(* No page is the C library's. *)
NoLibrary == \A b \in Addresses : page[b].kind # "library"

(* A step that leaves the library's pages as they are. *)
Spares == \A b \in Addresses :
            page[b].kind = "library" => page'[b].kind = "library" /\ page'[b].val = page[b].val

(* 09_map_fixed_noreplace.c: the first output comes after the address was  *)
(* found, and what is then mapped there is the program's own.              *)
FixedInv ==
  program = "fixed_noreplace" =>
    /\ pc <= 3 => NoLibrary /\ brk = 0
    /\ brk \in 0 .. 1
    /\ pc \in 5 .. 7 /\ ptr["q"] # Nowhere => page[ptr["q"]].kind = "map"

(* 02_brk_directly.c: the buffer lies below the break or is mapped, and    *)
(* sbrk() gives the two pages above it.                                    *)
Raised == /\ brk \in 2 .. 3 /\ ptr["got"] = brk - 2
          /\ page[brk - 2].kind = "brk" /\ page[brk - 1].kind = "brk"
BreakInv ==
  program = "brk_directly" =>
    /\ pc <= 2 => NoLibrary /\ brk = 0
    /\ pc = 3 => /\ brk \in 0 .. 1
                 /\ \A b \in Addresses : page[b].kind = "library" => b < brk \/ b \in MapArea
    /\ pc = 4 => Raised \/ (ptr["got"] = Nowhere /\ brk \in 0 .. 1)
    /\ pc \in 5 .. 8 => Raised
    /\ brk \in 0 .. 3

(* A page that is reclaimed is still the library's. *)
LEMMA IdleSpares == ASSUME PagesInv, Idle PROVE Spares
<1>1. Unmapped.kind # "library"
  BY DEF Unmapped
<1> QED BY <1>1, IdleKeeps DEF Spares

(* The buffer of printf(): one new page, at the break or where there is    *)
(* room.                                                                   *)
LEMMA BufferIs ==
  ASSUME PagesInv, PrintfBuffer, brk \in 0 .. BrkPages
  PROVE  \E a \in Addresses :
           /\ page' = [b \in Addresses |-> IF b = a THEN page'[a] ELSE page[b]]
           /\ IsPage(page'[a])
           /\ (a = brk /\ brk' = brk + 1) \/ (a \in MapArea /\ brk' = brk)
           /\ ptr' = ptr /\ Advance
<1>1. ASSUME NEW a, a \in Addresses, NEW f,
             f = [b \in Addresses |-> IF b \in Span(a, 1) THEN Page(b, "library", "buffer") ELSE page[b]]
      PROVE  IsPage(f[a]) /\ f = [b \in Addresses |-> IF b = a THEN f[a] ELSE page[b]]
  <2>1. f[a] = Page(a, "library", "buffer")
    BY <1>1, AddressesAre DEF Span
  <2>2. IsPage(f[a])
    BY <1>1, <2>1, NewPage
  <2>3. \A b \in Addresses : b # a => f[b] = page[b]
    BY <1>1, AddressesAre DEF Span
  <2> QED BY <1>1, <2>2, <2>3
<1>2. ptr' = ptr /\ Advance
  BY DEF PrintfBuffer
<1>3. CASE brk' = brk + 1 /\ page' = [b \in Addresses |-> IF b \in Span(brk, 1)
                                        THEN Page(b, "library", "buffer") ELSE page[b]]
  <2>1. brk \in Addresses
    BY AddressesAre
  <2> QED BY <1>1, <1>2, <1>3, <2>1
<1>4. ASSUME NEW a \in Room(1), brk' = brk,
             page' = [b \in Addresses |-> IF b \in Span(a, 1)
                                        THEN Page(b, "library", "buffer") ELSE page[b]]
      PROVE  \E x \in Addresses :
           /\ page' = [b \in Addresses |-> IF b = x THEN page'[x] ELSE page[b]]
           /\ IsPage(page'[x])
           /\ (x = brk /\ brk' = brk + 1) \/ (x \in MapArea /\ brk' = brk)
           /\ ptr' = ptr /\ Advance
  <2>1. a \in MapArea /\ a \in Addresses
    BY AddressesAre DEF Room
  <2> QED BY <1>1, <1>2, <1>4, <2>1
<1>5. \/ brk' = brk + 1 /\ page' = [b \in Addresses |-> IF b \in Span(brk, 1)
                                        THEN Page(b, "library", "buffer") ELSE page[b]]
      \/ \E a \in Room(1) : /\ brk' = brk
                            /\ page' = [b \in Addresses |-> IF b \in Span(a, 1)
                                        THEN Page(b, "library", "buffer") ELSE page[b]]
  BY Zenon DEF PrintfBuffer, Put
<1> QED BY <1>3, <1>4, <1>5

(* Steps after which there is no library page if there was none. *)
LEMMA HarmlessSpares == ASSUME NoLibrary, Harmless PROVE NoLibrary' /\ Spares
BY DEF NoLibrary, Harmless, Spares

(* 09_map_fixed_noreplace.c: the buffer is mapped before the address is    *)
(* used again, so that what MAP_FIXED_NOREPLACE maps and munmap() drops is *)
(* the program's own page.                                                 *)
LEMMA FixedStep ==
  ASSUME WhereInv, PagesInv, FixedInv, program = "fixed_noreplace", [MCNext]_allVars
  PROVE  FixedInv' /\ Spares
<1>0. /\ pc \in 1 .. 8 /\ Step = fixed_noreplace[pc] /\ program' = "fixed_noreplace"
      /\ pc' \in {pc, pc + 1} /\ pc' \in Nat
      /\ ptr \in [Pointers -> Addresses \cup {Nowhere}]
      /\ "p" \in Pointers /\ "q" \in Pointers /\ "r" \in Pointers
  <2>1. pc \in 1 .. 8 /\ Step = fixed_noreplace[pc] /\ program \notin Jumpers
    BY ScriptOf, FixedScript DEF Step, WhereInv, Jumpers
  <2> QED BY <2>1, GoesOn DEF PagesInv, Pointers
<1>1. CASE Idle
  <2>1. pc' = pc /\ ptr' = ptr /\ brk' = brk
    BY <1>1, GoesOn
  <2>2. \A b \in Addresses : page'[b].kind = page[b].kind
    BY <1>1, IdleKeeps
  <2>3. FixedInv'
    BY <1>0, <2>1, <2>2 DEF FixedInv, NoLibrary
  <2> QED BY <1>1, <2>3, IdleSpares
<1>2. CASE pc \in 1 .. 2 /\ ~ Idle
  <2>1. GetMemory \/ MunmapStep
    <3>1. Step.op \in {"get", "munmap"}
      BY <1>0, <1>2, FixedScript DEF Mmap, Get, Munmap
    <3> QED BY <1>2, <3>1, StepOf
  <2>2. Harmless
    BY <2>1, GetHarmless, UnmapHarmless
  <2>3. brk' = brk
    BY <2>1 DEF GetMemory, MunmapStep, Fails, Grants
  <2>4. NoLibrary' /\ Spares
    BY <1>2, <2>2, HarmlessSpares DEF FixedInv
  <2> QED BY <1>0, <1>2, <2>3, <2>4 DEF FixedInv
<1>3. CASE pc = 3 /\ ~ Idle
  <2>1. PrintfBuffer
    <3>1. Step.op = "printf"
      BY <1>0, <1>3, FixedScript DEF Printf, Do
    <3> QED BY <1>3, <3>1, StepOf
  <2>2. brk' \in 0 .. 1 /\ pc' = 4
    <3>1. brk = 0 /\ brk \in 0 .. BrkPages
      BY <1>3, AddressesAre DEF FixedInv
    <3> QED BY <1>3, <2>1, <3>1, BufferIs, GoesOn
  <2>3. Spares
    BY <1>3 DEF FixedInv, NoLibrary, Spares
  <2> QED BY <1>0, <2>2, <2>3 DEF FixedInv
<1>4. CASE pc \in {4, 6} /\ ~ Idle
  <2>1. /\ MmapFixedStep /\ Step.at = "p" /\ Step.flag = "NOREPLACE"
        /\ Step.p = IF pc = 4 THEN "q" ELSE "r"
    <3>1. /\ Step.op = "mmap_fixed" /\ Step.at = "p" /\ Step.flag = "NOREPLACE"
          /\ Step.p = IF pc = 4 THEN "q" ELSE "r"
      BY <1>0, <1>4, FixedScript DEF MmapFixed
    <3> QED BY <1>4, <3>1, StepOf
  <2>2. brk' = brk /\ pc' = pc + 1
    BY <2>1 DEF MmapFixedStep, Fails, Grants, Advance
  <2>3. CASE Fails(Step.p)
    <3>1. page' = page /\ ptr' = [ptr EXCEPT ![Step.p] = Nowhere]
      BY <2>3 DEF Fails
    <3>2. Spares
      BY <3>1 DEF Spares
    <3>3. pc = 4 => ptr'["q"] = Nowhere
      BY <1>0, <2>1, <3>1
    <3>4. pc = 6 => ptr'["q"] = ptr["q"]
      BY <1>0, <2>1, <3>1
    <3> QED BY <1>0, <1>4, <2>2, <3>1, <3>2, <3>3, <3>4 DEF FixedInv
  <2>4. CASE ~ Fails(Step.p)
    <3>1. PICK a : /\ a = ptr["p"] /\ a # Nowhere /\ page[a] = Unmapped
                   /\ page' = [b \in Addresses |-> IF b \in Span(a, 1) THEN Page(a, "map", "zero")
                                                   ELSE page[b]]
                   /\ ptr' = [ptr EXCEPT ![Step.p] = a]
      BY <2>1, <2>4, Zenon DEF MmapFixedStep, Grants, Put
    <3>2. a \in Addresses
      BY <1>0, <3>1
    <3>3. page'[a].kind = "map" /\ \A b \in Addresses : b # a => page'[b] = page[b]
      <4>1. page'[a] = Page(a, "map", "zero")
        BY <3>1, <3>2, AddressesAre DEF Span
      <4>2. \A b \in Addresses : b # a => page'[b] = page[b]
        BY <3>1, <3>2, AddressesAre DEF Span
      <4> QED BY <3>2, <4>1, <4>2, NewPage
    <3>4. page[a].kind = "unmapped"
      BY <3>1 DEF Unmapped
    <3>5. Spares
      BY <3>3, <3>4 DEF Spares
    <3>6. pc = 4 => ptr'["q"] = a
      BY <1>0, <2>1, <3>1
    <3>7. pc = 6 => ptr'["q"] = ptr["q"]
      BY <1>0, <2>1, <3>1
    <3> QED BY <1>0, <1>4, <2>2, <3>3, <3>4, <3>5, <3>6, <3>7 DEF FixedInv
  <2> QED BY <2>3, <2>4
<1>5. CASE pc \in {5, 8} /\ ~ Idle
  <2>1. CheckStep \/ ReturnStep
    <3>1. Step.op \in {"check", "return"}
      BY <1>0, <1>5, FixedScript DEF Check, Return, Do
    <3> QED BY <1>5, <3>1, StepOf
  <2>2. page' = page /\ ptr' = ptr /\ brk' = brk
    BY <2>1, Zenon DEF CheckStep, ReturnStep, memory
  <2>3. Spares
    BY <2>2 DEF Spares
  <2>4. pc = 8 => pc' \notin 5 .. 7
    BY <1>0
  <2> QED BY <1>0, <1>5, <2>2, <2>3, <2>4 DEF FixedInv
<1>6. CASE pc = 7 /\ ~ Idle
  <2>1. MunmapStep /\ Step.p = "q" /\ Step.n = 1
    <3>1. Step.op = "munmap" /\ Step.p = "q" /\ Step.n = 1
      BY <1>0, <1>6, FixedScript DEF Munmap
    <3> QED BY <1>6, <3>1, StepOf
  <2>2. /\ brk' = brk /\ pc' = 8
        /\ page' = IF ptr["q"] = Nowhere THEN page ELSE Drop(Span(ptr["q"], 1))
    BY <1>6, <2>1 DEF MunmapStep, Advance
  <2>3. ptr["q"] # Nowhere => \A b \in Addresses : b = ptr["q"] \/ page'[b] = page[b]
    BY <1>0, <2>2, AddressesAre DEF Drop, Span
  <2>4. ptr["q"] # Nowhere => page[ptr["q"]].kind = "map"
    BY <1>6 DEF FixedInv
  <2>5. Spares
    BY <2>2, <2>3, <2>4 DEF Spares
  <2> QED BY <1>0, <1>6, <2>2, <2>5 DEF FixedInv
<1> QED BY <1>0, <1>1, <1>2, <1>3, <1>4, <1>5, <1>6

(* 02_brk_directly.c: the pages it raises the break by are not the         *)
(* buffer's, so what it writes there and gives back is its own.            *)
LEMMA BreakStep ==
  ASSUME WhereInv, PagesInv, BreakInv, program = "brk_directly", [MCNext]_allVars
  PROVE  BreakInv' /\ Spares
<1>0. /\ pc \in 1 .. 10 /\ Step = brk_directly[pc] /\ program' = "brk_directly"
      /\ pc' \in {pc, pc + 1} /\ pc' \in Nat
      /\ ptr \in [Pointers -> Addresses \cup {Nowhere}]
      /\ "got" \in Pointers /\ brk \in Nat
  <2>1. pc \in 1 .. 10 /\ Step = brk_directly[pc] /\ program \notin Jumpers
    BY ScriptOf, BreakScript DEF Step, WhereInv, Jumpers
  <2> QED BY <2>1, GoesOn DEF PagesInv, Pointers, BreakInv
<1>1. CASE Idle
  <2>1. pc' = pc /\ ptr' = ptr /\ brk' = brk
    BY <1>1, GoesOn
  <2>2. \A b \in Addresses : page'[b].kind = page[b].kind
    BY <1>1, IdleKeeps
  <2>3. Raised => Raised'
    <3>1. Raised => brk - 2 \in Addresses /\ brk - 1 \in Addresses
      BY AddressesAre DEF Raised
    <3> QED BY <2>1, <2>2, <3>1 DEF Raised
  <2>4. BreakInv'
    BY <1>0, <2>1, <2>2, <2>3 DEF BreakInv, NoLibrary
  <2> QED BY <1>1, <2>4, IdleSpares
<1>2. CASE pc \in {1, 4, 5, 9, 10} /\ ~ Idle
  <2>1. PrintBreak \/ CheckStep \/ ReturnStep
    <3>1. Step.op \in {"brk", "check", "return"}
      BY <1>0, <1>2, BreakScript DEF Brk, Check, Return, Do
    <3> QED BY <1>2, <3>1, StepOf
  <2>2. page' = page /\ ptr' = ptr /\ brk' = brk
    BY <2>1, Zenon DEF PrintBreak, CheckStep, ReturnStep, memory
  <2>3. Spares /\ (Raised => Raised') /\ (NoLibrary => NoLibrary')
    BY <2>2 DEF Spares, Raised, NoLibrary
  <2>4. pc = 4 /\ ptr["got"] = Nowhere => pc' = 4
    <3>1. ASSUME pc = 4, ptr["got"] = Nowhere PROVE pc' = 4
      <4>1. Step.p = "got" /\ Step.op = "check"
        BY <1>0, <3>1, BreakScript DEF Check
      <4>2. CheckStep
        BY <1>2, <4>1, StepOf
      <4> QED BY <3>1, <4>1, <4>2 DEF CheckStep, Leave
    <3> QED BY <3>1
  <2>5. CASE pc = 1
    BY <1>0, <2>2, <2>3, <2>5 DEF BreakInv
  <2>6. CASE pc = 4
    BY <1>0, <2>2, <2>3, <2>4, <2>6 DEF BreakInv
  <2>7. CASE pc = 5
    BY <1>0, <2>2, <2>3, <2>7 DEF BreakInv
  <2>8. CASE pc \in 9 .. 10
    BY <1>0, <2>2, <2>3, <2>8 DEF BreakInv
  <2> QED BY <1>2, <2>5, <2>6, <2>7, <2>8
<1>3. CASE pc = 2 /\ ~ Idle
  <2>1. PrintfBuffer
    <3>1. Step.op = "printf"
      BY <1>0, <1>3, BreakScript DEF Printf, Do
    <3> QED BY <1>3, <3>1, StepOf
  <2>2. brk = 0 /\ brk \in 0 .. BrkPages /\ NoLibrary
    BY <1>3, AddressesAre DEF BreakInv
  <2>3. PICK a \in Addresses :
           /\ page' = [b \in Addresses |-> IF b = a THEN page'[a] ELSE page[b]]
           /\ (a = brk /\ brk' = brk + 1) \/ (a \in MapArea /\ brk' = brk)
           /\ ptr' = ptr /\ Advance
    BY <2>1, <2>2, BufferIs
  <2>4. pc' = 3
    BY <1>3, <2>3, GoesOn
  <2>5. \A b \in Addresses : page'[b].kind = "library" => b = a
    BY <2>2, <2>3 DEF NoLibrary
  <2>6. Spares
    BY <2>2 DEF NoLibrary, Spares
  <2>7. brk' \in 0 .. 1 /\ (a < brk' \/ a \in MapArea)
    BY <2>2, <2>3
  <2> QED BY <1>0, <2>4, <2>5, <2>6, <2>7 DEF BreakInv
<1>4. CASE pc = 3 /\ ~ Idle
  <2>1. SbrkStep /\ Step.p = "got" /\ Step.n = 2
    <3>1. Step.op = "sbrk" /\ Step.p = "got" /\ Step.n = 2
      BY <1>0, <1>4, BreakScript DEF Sbrk
    <3> QED BY <1>4, <3>1, StepOf
  <2>2. pc' = 4
    BY <1>4, <2>1, GoesOn DEF SbrkStep
  <2>3. /\ brk \in 0 .. 1
        /\ \A b \in Addresses : page[b].kind = "library" => b < brk \/ b \in MapArea
    BY <1>4 DEF BreakInv
  <2>4. CASE Fails("got")
    <3>1. page' = page /\ brk' = brk /\ ptr' = [ptr EXCEPT !["got"] = Nowhere]
      BY <2>4 DEF Fails
    <3>2. ptr'["got"] = Nowhere
      BY <1>0, <3>1
    <3>3. Spares
      BY <3>1 DEF Spares
    <3> QED BY <1>0, <2>2, <2>3, <3>1, <3>2, <3>3 DEF BreakInv
  <2>5. CASE ~ Fails("got")
    <3>1. PICK r : r = Page(brk, "brk", "zero")
      BY Zenon
    <3>2. /\ page' = [b \in Addresses |-> IF b \in Span(brk, 2) THEN r ELSE page[b]]
          /\ ptr' = [ptr EXCEPT !["got"] = brk]
          /\ brk' = brk + 2 /\ brk + 2 <= BrkPages
      BY <2>1, <2>5, <3>1, Zenon DEF SbrkStep, Put
    <3>3. r.kind = "brk"
      BY <2>3, <3>1, NewPage, AddressesAre
    <3>4. Span(brk, 2) = {brk, brk + 1} /\ {brk, brk + 1} \subseteq Addresses
      BY <2>3, AddressesAre DEF Span
    <3>5. page'[brk].kind = "brk" /\ page'[brk + 1].kind = "brk"
      BY <3>2, <3>3, <3>4
    <3>6. brk' \in 2 .. 3 /\ brk' - 2 = brk /\ brk' - 1 = brk + 1 /\ ptr'["got"] = brk
      BY <1>0, <2>3, <3>2
    <3>7. Raised'
      BY <3>5, <3>6 DEF Raised
    <3>8. \A b \in Addresses : page[b].kind = "library" => b \notin Span(brk, 2)
      BY <2>3, <3>2, <3>4, AddressesAre
    <3>9. Spares
      BY <3>2, <3>8 DEF Spares
    <3> QED BY <1>0, <2>2, <3>6, <3>7, <3>9 DEF BreakInv
  <2> QED BY <2>4, <2>5
<1>5. CASE pc \in 6 .. 7 /\ ~ Idle
  <2>1. /\ Store \/ BadAccess
        /\ Step.p = "got" /\ Step.k = pc - 6
    <3>1. Step.op = "write" /\ Step.p = "got" /\ Step.k = pc - 6
      BY <1>0, <1>5, BreakScript DEF Write
    <3> QED BY <1>5, <3>1, StepOf
  <2>2. Raised /\ brk - 2 \in Addresses /\ brk - 1 \in Addresses
    BY <1>5, AddressesAre DEF BreakInv, Raised
  <2>3. Address \in {brk - 2, brk - 1} /\ page[Address].kind = "brk" /\ Address \in Addresses
    BY <1>5, <2>1, <2>2 DEF Address, Raised
  <2>4. ptr' = ptr /\ brk' = brk
    <3>1. Store => ptr' = ptr /\ brk' = brk
      BY DEF Store
    <3>2. BadAccess => ptr' = ptr /\ brk' = brk
      BY Zenon DEF BadAccess, memory
    <3> QED BY <2>1, <3>1, <3>2
  <2>5. /\ \A b \in Addresses : b # Address => page'[b] = page[b]
        /\ page'[Address].kind = page[Address].kind
    <3>1. CASE Store
      <4>1. PICK x, r, s, y : /\ x = Address /\ r = page[x] /\ s = [r EXCEPT !.at = "frame"]
                              /\ y = [s EXCEPT !.val = Step.v]
        BY Zenon
      <4>2. page' = [page EXCEPT ![x] = y]
        BY <2>3, <3>1, <4>1 DEF Store, PagesInv
      <4>3. IsPage(r) /\ s = [r EXCEPT !.at = "frame"] /\ "frame" \in Places
        BY <2>3, <4>1 DEF PagesInv, Places
      <4>4. IsPage(s) /\ s.kind = r.kind
        BY <4>3, PageEdits
      <4>5. y = [s EXCEPT !.val = Step.v]
        BY <4>1
      <4>6. y.kind = s.kind
        BY <4>4, <4>5, PageEdits
      <4>7. x = Address /\ r = page[x] /\ x \in Addresses
        BY <2>3, <4>1
      <4> QED BY <4>2, <4>4, <4>6, <4>7 DEF PagesInv
    <3>2. CASE BadAccess
      <4>1. page' = page
        BY <3>2, Zenon DEF BadAccess, memory
      <4> QED BY <4>1
    <3> QED BY <2>1, <3>1, <3>2
  <2>6. Spares
    BY <2>3, <2>5 DEF Spares
  <2>7. Raised'
    BY <2>2, <2>3, <2>4, <2>5 DEF Raised
  <2> QED BY <1>0, <1>5, <2>6, <2>7 DEF BreakInv, Raised
<1>6. CASE pc = 8 /\ ~ Idle
  <2>1. SbrkBackStep /\ Step.n = 2
    <3>1. Step.op = "sbrk_back" /\ Step.n = 2
      BY <1>0, <1>6, BreakScript DEF SbrkBack
    <3> QED BY <1>6, <3>1, StepOf
  <2>2. pc' = 9
    BY <1>6, <2>1, GoesOn DEF SbrkBackStep
  <2>3. Raised
    BY <1>6 DEF BreakInv
  <2>4. brk' \in 0 .. 3 /\ Spares
    <3>1. CASE UNCHANGED <<page, brk>>
      BY <2>3, <3>1 DEF Spares, Raised
    <3>2. CASE page' = Drop(Span(brk - 2, 2)) /\ brk' = brk - 2
      <4>1. Span(brk - 2, 2) = {brk - 2, brk - 1}
        BY <2>3 DEF Span, Raised
      <4>2. \A b \in Addresses : b \in {brk - 2, brk - 1} \/ page'[b] = page[b]
        BY <3>2, <4>1 DEF Drop
      <4>3. Spares
        BY <2>3, <4>2 DEF Spares, Raised
      <4> QED BY <2>3, <3>2, <4>3 DEF Raised
    <3> QED BY <2>1, <3>1, <3>2 DEF SbrkBackStep
  <2> QED BY <1>0, <2>2, <2>4 DEF BreakInv
<1> QED BY <1>0, <1>1, <1>2, <1>3, <1>4, <1>5, <1>6

KeptType == kept \in Nat /\ refused \in BOOLEAN

(* The inductive invariant: all of this, and no library page and no break  *)
(* in the programs whose output does not meet their memory calls.          *)
MemoryInv == /\ KeptType /\ WhereInv /\ PagesInv /\ SizeInv /\ FixedInv /\ BreakInv
             /\ program \notin Printers => NoLibrary /\ brk = 0

(* Every program has a first step. *)
LEMMA FirstStep == ASSUME NEW q \in Programs PROVE 1 \in DOMAIN Script[q]
<1>1. CASE q \notin Printers /\ q \notin Jumpers /\ q \notin Resizers
  <2>1. Ends(Script[q])
    BY <1>1, PlainScripts
  <2>2. PICK n \in Nat : Script[q] = [j \in 1 .. n |-> Script[q][j]] /\ Len(Script[q]) = n
    BY <2>1 DEF Ends, Body
  <2>3. n # 0
    BY <2>1, <2>2 DEF Ends
  <2>4. DOMAIN Script[q] = 1 .. n
    BY <2>2
  <2> QED BY <2>3, <2>4
<1>2. CASE q \in Jumpers
  BY <1>2, JumpScripts
<1>3. CASE q \in Resizers \/ q \in Printers
  BY <1>3, ScriptOf, BasicsScript, ReallocScript, MremapScript, FixedScript, BreakScript
     DEF Resizers, Printers
<1> QED BY <1>1, <1>2, <1>3

(* Freed pages are counted. *)
LEMMA KeptStep ==
  ASSUME KeptType, WhereInv, PagesInv, SizeInv, [MCNext]_allVars PROVE KeptType'
<1>1. Cardinality(Block(ptr[Step.p])) \in Nat
  <2>1. IsFiniteSet(Addresses) /\ Block(ptr[Step.p]) \subseteq Addresses
    BY MemoryAssumption, FS_Interval DEF AddressAssumption, LargeAssumption, Addresses, Block
  <2> QED BY <2>1, FS_Subset, FS_CardinalityType
<1>2. ResizeStep => Step.n \in Nat
  BY OpOf, ResizeIs
<1>3. kept' \in Nat
  <2>1. PICK n : n = Cardinality(Block(ptr[Step.p]))
    BY Zenon
  <2>2. kept' \in {kept, kept + n, 0} \/ (ResizeStep /\ kept' = kept + Step.n)
    BY <2>1, KeptSteps
  <2> QED BY <1>1, <1>2, <2>1, <2>2 DEF KeptType
<1>4. refused' \in BOOLEAN
  <2>1. refused' = refused \/ refused' = TRUE
    BY KeptSteps, Zenon
  <2> QED BY <2>1, Zenon DEF KeptType
<1> QED BY <1>3, <1>4, Zenon DEF KeptType

(* It holds when a program starts, *)
LEMMA MemoryInit == MCInit => MemoryInv
<1> SUFFICES ASSUME MCInit PROVE MemoryInv
  OBVIOUS
<1>1. WhereInv
  <2>1. pc = 1 /\ program \in Programs /\ end = "running" /\ counter = 0 /\ faults = 0
    BY DEF MCInit, Init
  <2>2. handler = Default /\ fd = FALSE /\ failed = FALSE
    BY Zenon DEF MCInit, Init
  <2>3. fd \in BOOLEAN /\ failed \in BOOLEAN
    BY <2>2, Zenon
  <2>4. handler.how # "jump"
    <3>1. Default.how = "default"
      BY DEF Default
    <3> QED BY <2>2, <3>1
  <2>5. pc \in DOMAIN Script[program]
    BY <2>1, FirstStep
  <2>6. 0 \in 0 .. StackFrames /\ 0 \in Nat
    BY MemoryAssumption DEF AddressAssumption
  <2> QED BY <2>1, <2>3, <2>4, <2>5, <2>6 DEF WhereInv
<1>2. NoLibrary /\ brk = 0 /\ pc = 1
  BY DEF MCInit, Init, NoLibrary, Unmapped
<1>3. PagesInv
  BY DEF MCInit, Init, PagesInv, IsPage
<1>4. SizeInv /\ FixedInv /\ BreakInv
  BY <1>2 DEF SizeInv, FixedInv, BreakInv
<1>5. KeptType
  <2>1. kept = 0 /\ refused = FALSE
    BY Zenon DEF MCInit, Init
  <2> QED BY <2>1, Zenon, SMT DEF KeptType
<1> QED BY <1>1, <1>2, <1>3, <1>4, <1>5 DEF MemoryInv

(* and every step keeps it and leaves the library's pages alone.           *)
LEMMA MemoryStep == MemoryInv /\ [MCNext]_allVars => MemoryInv' /\ Spares
<1> SUFFICES ASSUME MemoryInv, [MCNext]_allVars PROVE MemoryInv' /\ Spares
  OBVIOUS
<1>0. KeptType /\ WhereInv /\ PagesInv /\ SizeInv /\ FixedInv /\ BreakInv
  BY DEF MemoryInv
<1>1. KeptType' /\ WhereInv' /\ SizeInv' /\ program' = program
  BY <1>0, KeptStep, WhereStep, SizeStep, GoesOn
<1>2. brk \in 0 .. BrkPages
  <2>1. program \in Printers => brk \in 0 .. 3
    BY <1>0 DEF Printers, FixedInv, BreakInv
  <2> QED BY <2>1, AddressesAre DEF MemoryInv
<1>3. Step.op \in {"printf", "sbrk", "sbrk_back"} => program \in Printers
  BY <1>0, StepFacts DEF WhereInv, Step, Printers
<1>4. Harmless \/ PrintfBuffer
  <2>1. ResizeStep => Harmless
    <3>1. ASSUME ResizeStep PROVE program \notin Printers
      <4>1. program \in Resizers
        BY <1>0, <3>1, OpOf, StepFacts DEF WhereInv, Step
      <4> QED BY <4>1 DEF Resizers, Printers
    <3> QED BY <1>0, <3>1, ResizeHarmless DEF MemoryInv, NoLibrary
  <2>2. Quiet => Harmless
    BY <1>0, NoPageChanged DEF Quiet, PagesInv
  <2> QED BY <1>0, <1>2, <2>1, <2>2, OthersAreQuiet, GetHarmless, MapHarmless, UnmapHarmless,
             MprotectHarmless, AdviceHarmless, SbrkHarmless, AccessHarmless
<1>5. PagesInv'
  <2>1. CASE Harmless
    BY <2>1 DEF Harmless, PagesInv
  <2>2. CASE PrintfBuffer
    <3>1. PICK a \in Addresses :
           /\ page' = [b \in Addresses |-> IF b = a THEN page'[a] ELSE page[b]]
           /\ IsPage(page'[a]) /\ ptr' = ptr
      BY <1>0, <1>2, <2>2, BufferIs
    <3>2. \A b \in Addresses : IsPage(page'[b])
      BY <1>0, <3>1 DEF PagesInv
    <3>3. page' = [b \in Addresses |-> page'[b]]
      BY <3>1
    <3> QED BY <1>0, <3>1, <3>2, <3>3 DEF PagesInv
  <2> QED BY <1>4, <2>1, <2>2
<1>6. CASE program \notin Printers
  <2>1. NoLibrary /\ brk = 0
    BY <1>6 DEF MemoryInv
  <2>2. Step.op \notin {"printf", "sbrk", "sbrk_back"}
    BY <1>3, <1>6
  <2>3. NoLibrary' /\ Spares
    BY <1>4, <2>1, <2>2, OpOf, HarmlessSpares
  <2>4. brk' = brk
    <3>1. GetMemory \/ MmapFileStep \/ MmapFixedStep \/ MunmapStep \/ FreeStep => brk' = brk
      BY DEF GetMemory, MmapFileStep, MmapFixedStep, MunmapStep, FreeStep, Fails, Grants
    <3>2. ResizeStep \/ MprotectStep \/ DontneedStep \/ PageoutStep \/ MlockStep \/ MunlockStep
            => brk' = brk
      BY DEF ResizeStep, MprotectStep, DontneedStep, PageoutStep, MlockStep, MunlockStep, Fails
    <3>3. Load \/ Store \/ MCReclaim \/ Quiet => brk' = brk
      BY DEF Load, Store, MCReclaim, Reclaim, Quiet
    <3> QED BY <2>2, <3>1, <3>2, <3>3, OpOf, OthersAreQuiet
  <2>5. FixedInv' /\ BreakInv'
    BY <1>1, <1>6 DEF Printers, FixedInv, BreakInv
  <2> QED BY <1>1, <1>5, <2>1, <2>3, <2>4, <2>5 DEF MemoryInv
<1>7. CASE program = "fixed_noreplace"
  <2>1. FixedInv' /\ Spares
    BY <1>0, <1>7, FixedStep
  <2> QED BY <1>1, <1>5, <1>7, <2>1 DEF MemoryInv, BreakInv, Printers
<1>8. CASE program = "brk_directly"
  <2>1. BreakInv' /\ Spares
    BY <1>0, <1>8, BreakStep
  <2> QED BY <1>1, <1>5, <1>8, <2>1 DEF MemoryInv, FixedInv, Printers
<1> QED BY <1>6, <1>7, <1>8 DEF Printers

(* Every program stays in its script until it returns or ends, its pointers *)
(* in its address space and its break in the area for it.                  *)
THEOREM MemoryTypeCorrect == MCSpec => []TypeOK
<1>1. MemoryInv => TypeOK
  <2> SUFFICES ASSUME MemoryInv PROVE TypeOK
    OBVIOUS
  <2>1. brk \in 0 .. BrkPages
    <3>1. program \in Printers => brk \in 0 .. 3
      BY DEF MemoryInv, Printers, FixedInv, BreakInv
    <3> QED BY <3>1, AddressesAre DEF MemoryInv
  <2>2. DOMAIN page = Addresses
    <3>1. page = [b \in Addresses |-> page[b]]
      BY DEF MemoryInv, PagesInv
    <3> QED BY <3>1
  <2>3. \A a \in Addresses : page[a] # Unmapped =>
          page[a].at \in {"none", "zero", "cache", "frame", "swap"} /\ page[a].base \in Addresses
    BY PageFacts DEF MemoryInv, PagesInv, Places
  <2>4. KeptType
    BY DEF MemoryInv
  <2> QED BY <2>1, <2>2, <2>3, <2>4 DEF MemoryInv, WhereInv, PagesInv, KeptType, TypeOK
<1> QED BY <1>1, MemoryInit, MemoryStep, PTL DEF MCSpec

(* No page can be written and run. *)
NeverWX == \A a \in Addresses : page[a] # Unmapped => ~({"w", "x"} \subseteq page[a].prot)

(* mprotect_jit.c and w_xor_x.c keep to W^X as all the others do: no       *)
(* program ever has a page that can be both written and run, whatever      *)
(* calls fail and whatever the kernel reclaims.                            *)
THEOREM ProtectionCorrect == MCSpec => []NeverWX
<1>1. MemoryInv => NeverWX
  BY PageFacts DEF MemoryInv, PagesInv, NeverWX, WX
<1> QED BY <1>1, MemoryInit, MemoryStep, PTL DEF MCSpec

(* The page with printf()'s buffer stays mapped with its content until the *)
(* program ends: neither the MAP_FIXED_NOREPLACE of                        *)
(* 09_map_fixed_noreplace.c nor the break that 02_brk_directly.c moves by  *)
(* hand takes it from the C library.                                       *)
THEOREM ClobberCorrect == MCSpec => NothingClobbered
<1>1. Spares => [\A a \in Addresses : page[a].kind = "library" =>
                   page'[a].kind = "library" /\ page'[a].val = page[a].val]_vars
  BY DEF Spares
<1> QED BY <1>1, MemoryInit, MemoryStep, PTL DEF MCSpec, NothingClobbered
-----------------------------------------------------------------------------
(* A page stays where it is, the same kind of page with the same           *)
(* protection.                                                             *)
Alike(r, y) == \/ y = r
               \/ /\ r # Unmapped /\ y # Unmapped
                  /\ y.base = r.base /\ y.kind = r.kind /\ y.prot = r.prot

(* A mapped page as its fields. *)
LEMMA SheetOf ==
  ASSUME NEW r, IsPage(r), r # Unmapped
  PROVE  \E b, k, v, prot, t, l : r = Sheet(b, k, v, prot, t, l)
BY DEF IsPage

(* What a change of one field leaves alone. *)
LEMMA FieldEdits ==
  ASSUME NEW r, IsPage(r), r # Unmapped, NEW x, NEW y
  PROVE  /\ y = [r EXCEPT !.at = x] =>
              /\ y # Unmapped /\ y.base = r.base /\ y.kind = r.kind /\ y.prot = r.prot
              /\ y.at = x /\ y.val = r.val /\ y.locked = r.locked
         /\ y = [r EXCEPT !.val = x] =>
              /\ y # Unmapped /\ y.base = r.base /\ y.kind = r.kind /\ y.prot = r.prot
              /\ y.at = r.at /\ y.val = x /\ y.locked = r.locked
         /\ y = [r EXCEPT !.locked = x] =>
              /\ y # Unmapped /\ y.base = r.base /\ y.kind = r.kind /\ y.prot = r.prot
              /\ y.at = r.at /\ y.val = r.val /\ y.locked = x
         /\ y = [r EXCEPT !.prot = x] =>
              /\ y # Unmapped /\ y.base = r.base /\ y.kind = r.kind /\ y.prot = x
              /\ y.at = r.at /\ y.val = r.val /\ y.locked = r.locked
         /\ y = [r EXCEPT !.base = x] =>
              /\ y # Unmapped /\ y.base = x /\ y.kind = r.kind /\ y.prot = r.prot
              /\ y.at = r.at /\ y.val = r.val /\ y.locked = r.locked
<1>1. PICK b, k, v, prot, t, l : r = Sheet(b, k, v, prot, t, l)
  BY SheetOf
<1>2. /\ [r EXCEPT !.at = x] = Sheet(b, k, v, prot, x, l)
      /\ [r EXCEPT !.val = x] = Sheet(b, k, x, prot, t, l)
      /\ [r EXCEPT !.locked = x] = Sheet(b, k, v, prot, t, x)
      /\ [r EXCEPT !.prot = x] = Sheet(b, k, v, x, t, l)
      /\ [r EXCEPT !.base = x] = Sheet(x, k, v, prot, t, l)
  BY <1>1 DEF Sheet
<1>4. /\ r.base = b /\ r.kind = k /\ r.prot = prot /\ r.at = t /\ r.val = v /\ r.locked = l
  BY <1>1 DEF Sheet
<1>5. ASSUME NEW b2, NEW k2, NEW v2, NEW p2, NEW t2, NEW l2, y = Sheet(b2, k2, v2, p2, t2, l2)
      PROVE  /\ y # Unmapped /\ y.base = b2 /\ y.kind = k2 /\ y.prot = p2
             /\ y.at = t2 /\ y.val = v2 /\ y.locked = l2
  BY <1>5 DEF Sheet, Unmapped
<1>6. ASSUME y = [r EXCEPT !.at = x]
      PROVE  /\ y # Unmapped /\ y.base = r.base /\ y.kind = r.kind /\ y.prot = r.prot
             /\ y.at = x /\ y.val = r.val /\ y.locked = r.locked
  <2>1. y = Sheet(b, k, v, prot, x, l)
    BY <1>2, <1>6, Zenon
  <2> QED BY <1>4, <1>5, <2>1, Zenon
<1>7. ASSUME y = [r EXCEPT !.val = x]
      PROVE  /\ y # Unmapped /\ y.base = r.base /\ y.kind = r.kind /\ y.prot = r.prot
             /\ y.at = r.at /\ y.val = x /\ y.locked = r.locked
  <2>1. y = Sheet(b, k, x, prot, t, l)
    BY <1>2, <1>7, Zenon
  <2> QED BY <1>4, <1>5, <2>1, Zenon
<1>8. ASSUME y = [r EXCEPT !.locked = x]
      PROVE  /\ y # Unmapped /\ y.base = r.base /\ y.kind = r.kind /\ y.prot = r.prot
             /\ y.at = r.at /\ y.val = r.val /\ y.locked = x
  <2>1. y = Sheet(b, k, v, prot, t, x)
    BY <1>2, <1>8, Zenon
  <2> QED BY <1>4, <1>5, <2>1, Zenon
<1>9. ASSUME y = [r EXCEPT !.prot = x]
      PROVE  /\ y # Unmapped /\ y.base = r.base /\ y.kind = r.kind /\ y.prot = x
             /\ y.at = r.at /\ y.val = r.val /\ y.locked = r.locked
  <2>1. y = Sheet(b, k, v, x, t, l)
    BY <1>2, <1>9, Zenon
  <2> QED BY <1>4, <1>5, <2>1, Zenon
<1>10. ASSUME y = [r EXCEPT !.base = x]
      PROVE  /\ y # Unmapped /\ y.base = x /\ y.kind = r.kind /\ y.prot = r.prot
             /\ y.at = r.at /\ y.val = r.val /\ y.locked = r.locked
  <2>1. y = Sheet(x, k, v, prot, t, l)
    BY <1>2, <1>10, Zenon
  <2> QED BY <1>4, <1>5, <2>1, Zenon
<1> QED BY <1>6, <1>7, <1>8, <1>9, <1>10, Zenon

(* Nothing comes of a change to what is not there. *)
LEMMA NothingEdits ==
  ASSUME NEW x
  PROVE  /\ [Unmapped EXCEPT !.at = x] = Unmapped /\ [Unmapped EXCEPT !.val = x] = Unmapped
         /\ [Unmapped EXCEPT !.locked = x] = Unmapped /\ [Unmapped EXCEPT !.prot = x] = Unmapped
BY DEF Unmapped

(* Reads and writes change the page they are to. *)
LEMMA LoadPage ==
  ASSUME PagesInv, Load
  PROVE  /\ Address \in Addresses => page[Address] # Unmapped
         /\ \A b \in Addresses : b # Address => page'[b] = page[b]
         /\ \A b \in Addresses : b = Address =>
              /\ page'[b] # Unmapped /\ page'[b].base = page[b].base
              /\ page'[b].kind = page[b].kind /\ page'[b].prot = page[b].prot
              /\ page'[b].val = page[b].val /\ page'[b].locked = page[b].locked
              /\ page'[b].at = IF page[b].at = "none"
                               THEN IF page[b].kind \in {"private", "shared"} THEN "cache" ELSE "zero"
                               ELSE IF page[b].at = "swap" THEN "frame" ELSE page[b].at
<1>1. PICK x, t, y :
        /\ x = Address
        /\ t = IF page[x].at = "none"
               THEN IF page[x].kind \in {"private", "shared"} THEN "cache" ELSE "zero"
               ELSE IF page[x].at = "swap" THEN "frame" ELSE page[x].at
        /\ y = [page[x] EXCEPT !.at = t]
  BY Zenon
<1>2. page[x] # Unmapped
  BY <1>1 DEF Load, Accessible
<1>3. page' = [page EXCEPT ![x] = y]
  BY <1>1 DEF Load
<1>4. ASSUME x \in Addresses PROVE page'[x] = y /\ IsPage(page[x])
  BY <1>3, <1>4 DEF PagesInv
<1>5. \A b \in Addresses : b # x => page'[b] = page[b]
  BY <1>3 DEF PagesInv
<1>6. ASSUME x \in Addresses
      PROVE  /\ page'[x] # Unmapped /\ page'[x].base = page[x].base
             /\ page'[x].kind = page[x].kind /\ page'[x].prot = page[x].prot
             /\ page'[x].val = page[x].val /\ page'[x].locked = page[x].locked
             /\ page'[x].at = t
  BY <1>1, <1>2, <1>4, <1>6, FieldEdits
<1> QED BY <1>1, <1>2, <1>5, <1>6

(* What a store does to the page it is to, and to the others. *)
LEMMA StorePage ==
  ASSUME PagesInv, Store
  PROVE  /\ Address \in Addresses => page[Address] # Unmapped
         /\ \A b \in Addresses : b # Address => page'[b] = page[b]
         /\ \A b \in Addresses : b = Address =>
              /\ page'[b] # Unmapped /\ page'[b].base = page[b].base
              /\ page'[b].kind = page[b].kind /\ page'[b].prot = page[b].prot
              /\ page'[b].locked = page[b].locked
              /\ page[b].kind = "shared" => page'[b].at = "cache" /\ page'[b].val = page[b].val
              /\ page[b].kind # "shared" => page'[b].at = "frame" /\ page'[b].val = Step.v
<1>1. PICK x, s, y, z :
        /\ x = Address
        /\ s = [page[x] EXCEPT !.at = "frame"]
        /\ y = [s EXCEPT !.val = Step.v]
        /\ z = [page[x] EXCEPT !.at = "cache"]
  BY Zenon
<1>2. page[x] # Unmapped
  BY <1>1 DEF Store, Accessible
<1>3. /\ page[x].kind # "shared" => page' = [page EXCEPT ![x] = y]
      /\ page[x].kind = "shared" => page' = [page EXCEPT ![x] = z]
  BY <1>1 DEF Store, PagesInv
<1>4. \A b \in Addresses : b # x => page'[b] = page[b]
  BY <1>3 DEF PagesInv
<1>5. ASSUME x \in Addresses
      PROVE  /\ page'[x] # Unmapped /\ page'[x].base = page[x].base
             /\ page'[x].kind = page[x].kind /\ page'[x].prot = page[x].prot
             /\ page'[x].locked = page[x].locked
             /\ page[x].kind = "shared" => page'[x].at = "cache" /\ page'[x].val = page[x].val
             /\ page[x].kind # "shared" => page'[x].at = "frame" /\ page'[x].val = Step.v
  <2>1. /\ IsPage(page[x])
        /\ page[x].kind # "shared" => page'[x] = y
        /\ page[x].kind = "shared" => page'[x] = z
    BY <1>3, <1>5 DEF PagesInv
  <2>2. s = [page[x] EXCEPT !.at = "frame"] /\ y = [s EXCEPT !.val = Step.v]
        /\ z = [page[x] EXCEPT !.at = "cache"]
    BY <1>1
  <2>3. IsPage(s)
    BY <2>1, <2>2, PageEdits DEF Places
  <2>4. /\ s # Unmapped /\ s.base = page[x].base /\ s.kind = page[x].kind /\ s.prot = page[x].prot
        /\ s.at = "frame" /\ s.locked = page[x].locked
    BY <1>2, <2>1, <2>2, FieldEdits
  <2>5. /\ y # Unmapped /\ y.base = s.base /\ y.kind = s.kind /\ y.prot = s.prot
        /\ y.at = s.at /\ y.val = Step.v /\ y.locked = s.locked
    <3>1. PICK v : v = Step.v
      BY Zenon
    <3>2. y = [s EXCEPT !.val = v]
      BY <2>2, <3>1, Zenon
    <3>3. /\ y # Unmapped /\ y.base = s.base /\ y.kind = s.kind /\ y.prot = s.prot
          /\ y.at = s.at /\ y.val = v /\ y.locked = s.locked
      BY <2>3, <2>4, <3>2, FieldEdits
    <3> QED BY <3>1, <3>3, Zenon
  <2>6. /\ z # Unmapped /\ z.base = page[x].base /\ z.kind = page[x].kind /\ z.prot = page[x].prot
        /\ z.at = "cache" /\ z.locked = page[x].locked /\ z.val = page[x].val
    BY <1>2, <2>1, <2>2, FieldEdits
  <2> QED BY <2>1, <2>4, <2>5, <2>6
<1> QED BY <1>1, <1>2, <1>4, <1>5

(* The kernel takes a page away, or nothing happens. *)
LEMMA ReclaimPage ==
  ASSUME PagesInv, MCReclaim
  PROVE  \A b \in Addresses :
           \/ page'[b] = page[b]
           \/ /\ page[b] # Unmapped /\ page[b].at \in {"frame", "cache"} /\ ~ page[b].locked
              /\ page'[b] # Unmapped /\ page'[b].base = page[b].base
              /\ page'[b].kind = page[b].kind /\ page'[b].prot = page[b].prot
              /\ page'[b].val = page[b].val /\ page'[b].locked = page[b].locked
              /\ page'[b].at = IF page[b].at = "frame" THEN "swap" ELSE "none"
<1>1. PICK a \in Addresses : Reclaim(a)
  BY DEF MCReclaim
<1>2. PICK t, y : /\ t = IF page[a].at = "frame" THEN "swap" ELSE "none"
                  /\ y = [page[a] EXCEPT !.at = t]
  BY Zenon
<1>3. page' = [page EXCEPT ![a] = y]
  BY <1>1, <1>2 DEF Reclaim
<1>4. page[a] # Unmapped /\ page[a].at \in {"frame", "cache"} /\ ~ page[a].locked
  BY <1>1, Zenon DEF Reclaim, Resident
<1>5. IsPage(page[a]) /\ page'[a] = y /\ \A b \in Addresses : b # a => page'[b] = page[b]
  BY <1>3 DEF PagesInv
<1>6. /\ y # Unmapped /\ y.base = page[a].base /\ y.kind = page[a].kind /\ y.prot = page[a].prot
      /\ y.at = t /\ y.val = page[a].val /\ y.locked = page[a].locked
  BY <1>2, <1>4, <1>5, FieldEdits
<1> QED BY <1>2, <1>4, <1>5, <1>6, Zenon
-----------------------------------------------------------------------------
(* madvise(MADV_DONTNEED): the pages are empty and zero again, if it does  *)
(* not refuse.                                                             *)
LEMMA DontneedPages ==
  ASSUME PagesInv, DontneedStep, ~ (refused' = TRUE /\ page' = page)
  PROVE  refused' = refused /\ \A b \in Addresses :
           /\ b \notin Span(ptr[Step.p], Step.n) \/ page[b] = Unmapped => page'[b] = page[b]
           /\ b \in Span(ptr[Step.p], Step.n) /\ page[b] # Unmapped =>
                /\ page'[b] # Unmapped /\ page'[b].base = page[b].base
                /\ page'[b].kind = page[b].kind /\ page'[b].prot = page[b].prot
                /\ page'[b].val = "zero" /\ page'[b].locked = page[b].locked
                /\ page'[b].at = "none"
<1>1. page' = [b \in Addresses |-> IF b \in Span(ptr[Step.p], Step.n)
                                  THEN [page[b] EXCEPT !.at = "none", !.val = "zero"]
                                  ELSE page[b]]
      /\ refused' = refused
  BY Zenon DEF DontneedStep, Put
<1>2. SUFFICES ASSUME NEW b \in Addresses
      PROVE /\ b \notin Span(ptr[Step.p], Step.n) \/ page[b] = Unmapped => page'[b] = page[b]
            /\ b \in Span(ptr[Step.p], Step.n) /\ page[b] # Unmapped =>
                /\ page'[b] # Unmapped /\ page'[b].base = page[b].base
                /\ page'[b].kind = page[b].kind /\ page'[b].prot = page[b].prot
                /\ page'[b].val = "zero" /\ page'[b].locked = page[b].locked
                /\ page'[b].at = "none"
  BY <1>1, Zenon
<1>3. PICK r, s, y : /\ r = page[b] /\ s = [r EXCEPT !.at = "none"]
                     /\ y = [s EXCEPT !.val = "zero"]
  BY Zenon
<1>4. /\ b \in Span(ptr[Step.p], Step.n) => page'[b] = y
      /\ b \notin Span(ptr[Step.p], Step.n) => page'[b] = r
  BY <1>1, <1>3
<1>5. IsPage(r) /\ "none" \in Places
  BY <1>3 DEF PagesInv, Places
<1>6. ASSUME r = Unmapped PROVE y = r
  <2>1. s = r
    BY <1>3, <1>6, NothingEdits
  <2>2. y = s
    BY <1>3, <1>6, <2>1, NothingEdits
  <2> QED BY <2>1, <2>2
<1>7. ASSUME r # Unmapped
      PROVE  /\ y # Unmapped /\ y.base = r.base /\ y.kind = r.kind /\ y.prot = r.prot
             /\ y.at = "none" /\ y.val = "zero" /\ y.locked = r.locked
  <2>1. IsPage(s) /\ s = [r EXCEPT !.at = "none"] /\ y = [s EXCEPT !.val = "zero"]
    BY <1>3, <1>5, PageEdits
  <2>2. /\ s # Unmapped /\ s.base = r.base /\ s.kind = r.kind /\ s.prot = r.prot
        /\ s.at = "none" /\ s.val = r.val /\ s.locked = r.locked
    BY <1>5, <1>7, <2>1, FieldEdits
  <2>3. /\ y # Unmapped /\ y.base = s.base /\ y.kind = s.kind /\ y.prot = s.prot
        /\ y.at = s.at /\ y.val = "zero" /\ y.locked = s.locked
    <3>1. PICK v : v = "zero"
      BY Zenon
    <3>2. y = [s EXCEPT !.val = v] /\ IsPage(s) /\ s # Unmapped
      BY <2>1, <2>2, <3>1, Zenon
    <3>3. /\ y # Unmapped /\ y.base = s.base /\ y.kind = s.kind /\ y.prot = s.prot
          /\ y.at = s.at /\ y.val = v /\ y.locked = s.locked
      BY <3>2, FieldEdits
    <3> QED BY <3>1, <3>3, Zenon
  <2> QED BY <2>2, <2>3
<1> QED BY <1>3, <1>4, <1>6, <1>7

(* madvise(MADV_PAGEOUT): resident pages go to swap, or none does. *)
LEMMA PageoutPages ==
  ASSUME PagesInv, PageoutStep
  PROVE  \A b \in Addresses :
           \/ page'[b] = page[b]
           \/ /\ page[b] # Unmapped /\ page[b].at = "frame"
              /\ page'[b] # Unmapped /\ page'[b].base = page[b].base
              /\ page'[b].kind = page[b].kind /\ page'[b].prot = page[b].prot
              /\ page'[b].val = page[b].val /\ page'[b].locked = page[b].locked
              /\ page'[b].at = "swap"
<1>1. SUFFICES ASSUME NEW b \in Addresses, page'[b] # page[b]
      PROVE   /\ page[b] # Unmapped /\ page[b].at = "frame"
              /\ page'[b] # Unmapped /\ page'[b].base = page[b].base
              /\ page'[b].kind = page[b].kind /\ page'[b].prot = page[b].prot
              /\ page'[b].val = page[b].val /\ page'[b].locked = page[b].locked
              /\ page'[b].at = "swap"
  BY Zenon
<1>2. page' = [c \in Addresses |-> IF c \in Span(ptr[Step.p], Step.n) THEN SwappedOut(c) ELSE page[c]]
  BY <1>1, Zenon DEF PageoutStep, Put
<1>3. PICK r, s : r = page[b] /\ s = [r EXCEPT !.at = "swap"]
  BY Zenon
<1>4. page'[b] = s /\ r.at = "frame"
  BY <1>1, <1>2, <1>3 DEF SwappedOut
<1>5. IsPage(r) /\ s = [r EXCEPT !.at = "swap"]
  BY <1>3 DEF PagesInv
<1>6. r # Unmapped
  BY <1>1, <1>3, <1>4, NothingEdits
<1>7. /\ s # Unmapped /\ s.base = r.base /\ s.kind = r.kind /\ s.prot = r.prot
      /\ s.at = "swap" /\ s.val = r.val /\ s.locked = r.locked
  BY <1>5, <1>6, FieldEdits
<1> QED BY <1>3, <1>4, <1>6, <1>7

(* mlock(), when it works: the pages are resident and stay so. *)
LEMMA MlockPages ==
  ASSUME PagesInv, MlockStep, end' = "running"
  PROVE  /\ Advance /\ UNCHANGED failed
         /\ \A b \in Addresses :
              /\ b \notin Span(ptr[Step.p], Step.n) \/ page[b] = Unmapped => page'[b] = page[b]
              /\ b \in Span(ptr[Step.p], Step.n) /\ page[b] # Unmapped =>
                   /\ page'[b] # Unmapped /\ page'[b].base = page[b].base
                   /\ page'[b].kind = page[b].kind /\ page'[b].prot = page[b].prot
                   /\ page'[b].val = page[b].val /\ page'[b].locked
                   /\ page'[b].at = "frame"
<1>0. ~ Leave("error")
  BY DEF Leave
<1>1. /\ page' = [b \in Addresses |-> IF b \in Span(ptr[Step.p], Step.n)
                                  THEN [page[b] EXCEPT !.at = "frame", !.locked = TRUE]
                                  ELSE page[b]]
      /\ Advance /\ UNCHANGED failed
  BY <1>0, Zenon DEF MlockStep, Put
<1>2. SUFFICES ASSUME NEW b \in Addresses
      PROVE /\ b \notin Span(ptr[Step.p], Step.n) \/ page[b] = Unmapped => page'[b] = page[b]
            /\ b \in Span(ptr[Step.p], Step.n) /\ page[b] # Unmapped =>
                /\ page'[b] # Unmapped /\ page'[b].base = page[b].base
                /\ page'[b].kind = page[b].kind /\ page'[b].prot = page[b].prot
                /\ page'[b].val = page[b].val /\ page'[b].locked
                /\ page'[b].at = "frame"
  BY <1>1, Zenon
<1>3. PICK r, s, l, y : /\ r = page[b] /\ s = [r EXCEPT !.at = "frame"] /\ l = TRUE
                        /\ y = [s EXCEPT !.locked = l]
  BY Zenon
<1>4. /\ b \in Span(ptr[Step.p], Step.n) => page'[b] = y
      /\ b \notin Span(ptr[Step.p], Step.n) => page'[b] = r
  BY <1>1, <1>3
<1>5. IsPage(r) /\ "frame" \in Places
  BY <1>3 DEF PagesInv, Places
<1>6. ASSUME r = Unmapped PROVE y = r
  <2>1. s = r
    BY <1>3, <1>6, NothingEdits
  <2>2. y = s
    BY <1>3, <1>6, <2>1, NothingEdits
  <2> QED BY <2>1, <2>2
<1>7. ASSUME r # Unmapped
      PROVE  /\ y # Unmapped /\ y.base = r.base /\ y.kind = r.kind /\ y.prot = r.prot
             /\ y.at = "frame" /\ y.val = r.val /\ y.locked = l
  <2>1. IsPage(s) /\ s = [r EXCEPT !.at = "frame"] /\ y = [s EXCEPT !.locked = l]
    BY <1>3, <1>5, PageEdits
  <2>2. /\ s # Unmapped /\ s.base = r.base /\ s.kind = r.kind /\ s.prot = r.prot
        /\ s.at = "frame" /\ s.val = r.val /\ s.locked = r.locked
    BY <1>5, <1>7, <2>1, FieldEdits
  <2>3. /\ y # Unmapped /\ y.base = s.base /\ y.kind = s.kind /\ y.prot = s.prot
        /\ y.at = s.at /\ y.val = s.val /\ y.locked = l
    <3>1. y = [s EXCEPT !.locked = l] /\ IsPage(s) /\ s # Unmapped
      BY <2>1, <2>2, Zenon
    <3> QED BY <3>1, FieldEdits
  <2> QED BY <2>2, <2>3
<1>8. l
  BY <1>3, Zenon
<1>9. ASSUME b \in Span(ptr[Step.p], Step.n), page[b] # Unmapped
      PROVE page'[b].locked
  <2>1. page'[b].locked = l
    BY <1>3, <1>4, <1>7, <1>9, Zenon
  <2> QED BY <1>8, <2>1, Zenon
<1>10. /\ b \notin Span(ptr[Step.p], Step.n) \/ page[b] = Unmapped => page'[b] = page[b]
       /\ b \in Span(ptr[Step.p], Step.n) /\ page[b] # Unmapped =>
                /\ page'[b] # Unmapped /\ page'[b].base = page[b].base
                /\ page'[b].kind = page[b].kind /\ page'[b].prot = page[b].prot
                /\ page'[b].val = page[b].val
                /\ page'[b].at = "frame"
  BY <1>3, <1>4, <1>6, <1>7
<1> QED BY <1>9, <1>10, Zenon

(* munlock() *)
LEMMA MunlockPages ==
  ASSUME PagesInv, MunlockStep
  PROVE  \A b \in Addresses :
           \/ page'[b] = page[b]
           \/ /\ page[b] # Unmapped
              /\ page'[b] # Unmapped /\ page'[b].base = page[b].base
              /\ page'[b].kind = page[b].kind /\ page'[b].prot = page[b].prot
              /\ page'[b].val = page[b].val /\ page'[b].at = page[b].at
<1>1. page' = [b \in Addresses |-> IF b \in Span(ptr[Step.p], Step.n)
                                  THEN [page[b] EXCEPT !.locked = FALSE]
                                  ELSE page[b]]
  BY Zenon DEF MunlockStep, Put
<1>2. SUFFICES ASSUME NEW b \in Addresses, page'[b] # page[b]
      PROVE   /\ page[b] # Unmapped
              /\ page'[b] # Unmapped /\ page'[b].base = page[b].base
              /\ page'[b].kind = page[b].kind /\ page'[b].prot = page[b].prot
              /\ page'[b].val = page[b].val /\ page'[b].at = page[b].at
  BY Zenon
<1>3. PICK r, l, s : r = page[b] /\ l = FALSE /\ s = [r EXCEPT !.locked = l]
  BY Zenon
<1>4. page'[b] = s
  BY <1>1, <1>2, <1>3
<1>5. IsPage(r) /\ s = [r EXCEPT !.locked = l]
  BY <1>3 DEF PagesInv
<1>6. r # Unmapped
  BY <1>2, <1>3, <1>4, NothingEdits
<1>7. /\ s # Unmapped /\ s.base = r.base /\ s.kind = r.kind /\ s.prot = r.prot
      /\ s.at = r.at /\ s.val = r.val
  BY <1>5, <1>6, FieldEdits
<1> QED BY <1>3, <1>4, <1>6, <1>7, Zenon

(* mprotect() changes the protection of one page, or nothing. *)
LEMMA MprotectPage ==
  ASSUME PagesInv, MprotectStep
  PROVE  /\ page' = page \/ (ptr[Step.p] # Nowhere /\ Advance /\ UNCHANGED failed)
         /\ \A b \in Addresses :
              /\ b # ptr[Step.p] + Step.k => page'[b] = page[b]
              /\ page[b] = Unmapped => page'[b] = page[b]
              /\ page[b] # Unmapped =>
                   /\ page'[b] # Unmapped /\ page'[b].base = page[b].base
                   /\ page'[b].kind = page[b].kind /\ page'[b].val = page[b].val
                   /\ page'[b].at = page[b].at /\ page'[b].locked = page[b].locked
              /\ page' # page /\ b = ptr[Step.p] + Step.k /\ page[b] # Unmapped =>
                   page'[b].prot = Step.prot
<1>1. CASE page' = page
  BY <1>1
<1>2. CASE page' # page
  <2>1. /\ page' = [page EXCEPT ![ptr[Step.p] + Step.k].prot = Step.prot]
        /\ ptr[Step.p] # Nowhere /\ Advance /\ UNCHANGED failed
    BY <1>2, Zenon DEF MprotectStep
  <2>2. PICK x, pr, y : x = ptr[Step.p] + Step.k /\ pr = Step.prot /\
        y = [page[x] EXCEPT !.prot = pr]
    BY Zenon
  <2>3. page' = [page EXCEPT ![x] = y]
    BY <2>1, <2>2
  <2>4. \A b \in Addresses : b # x => page'[b] = page[b]
    BY <2>3 DEF PagesInv
  <2>5. ASSUME x \in Addresses PROVE page'[x] = y /\ IsPage(page[x])
    BY <2>3, <2>5 DEF PagesInv
  <2>6. ASSUME x \in Addresses
        PROVE  /\ page[x] = Unmapped => page'[x] = page[x]
               /\ page[x] # Unmapped =>
                    /\ page'[x] # Unmapped /\ page'[x].base = page[x].base
                    /\ page'[x].kind = page[x].kind /\ page'[x].val = page[x].val
                    /\ page'[x].at = page[x].at /\ page'[x].locked = page[x].locked
                    /\ page'[x].prot = pr
    <3>1. y = [page[x] EXCEPT !.prot = pr]
      BY <2>2
    <3>2. page[x] = Unmapped => y = page[x]
      BY <3>1, NothingEdits
    <3>3. page[x] # Unmapped =>
            /\ y # Unmapped /\ y.base = page[x].base /\ y.kind = page[x].kind /\ y.prot = pr
            /\ y.at = page[x].at /\ y.val = page[x].val /\ y.locked = page[x].locked
      BY <2>5, <2>6, <3>1, FieldEdits
    <3> QED BY <2>5, <2>6, <3>2, <3>3
  <2> QED BY <2>1, <2>2, <2>4, <2>6
<1> QED BY <1>1, <1>2

(* Every page stays what it is. *)
Edited == \A b \in Addresses : Alike(page[b], page'[b])

(* So do these steps leave every page where it is. *)
LEMMA EditSteps ==
  ASSUME PagesInv
  PROVE  /\ Load \/ Store \/ DontneedStep \/ PageoutStep \/ MunlockStep \/ MCReclaim => Edited
         /\ MlockStep /\ end' = "running" => Edited
         /\ page' = page => Edited
<1>1. Load => Edited
  BY LoadPage DEF Edited, Alike
<1>2. Store => Edited
  BY StorePage DEF Edited, Alike
<1>3. DontneedStep => Edited
  BY DontneedPages DEF Edited, Alike
<1>4. PageoutStep => Edited
  BY PageoutPages DEF Edited, Alike
<1>5. MunlockStep => Edited
  BY MunlockPages DEF Edited, Alike
<1>6. MCReclaim => Edited
  BY ReclaimPage DEF Edited, Alike
<1>7. MlockStep /\ end' = "running" => Edited
  BY MlockPages DEF Edited, Alike
<1>8. page' = page => Edited
  BY DEF Edited, Alike
<1> QED BY <1>1, <1>2, <1>3, <1>4, <1>5, <1>6, <1>7, <1>8, Zenon
-----------------------------------------------------------------------------
(* The pages of a region begin at its address. *)
LEMMA SpanFacts ==
  ASSUME NEW a \in Addresses, NEW n \in Nat
  PROVE  n > 0 => a \in Span(a, n)
BY AddressesAre DEF Span

(* Every page stays where it is, of the same kind. *)
InPlace == \A b \in Addresses :
             /\ page'[b] = Unmapped <=> page[b] = Unmapped
             /\ page[b] # Unmapped => page'[b].base = page[b].base /\ page'[b].kind = page[b].kind

(* Pages that change in their contents only stay where they are. *)
LEMMA EditedInPlace == Edited => InPlace
BY DEF Edited, InPlace, Alike

(* What a program holds is the same when no pointer, no page and no size   *)
(* changes, *)
LEMMA OwnsKept ==
  ASSUME PagesInv, Owns, program' = program, ptr' = ptr, failed => failed', InPlace,
         \A r \in Pointers : Have(r)' = Have(r)
  PROVE  Owns'
<1>1. ptr'["NULL"] = Nowhere
  BY DEF Owns
<1>2. \A r \in Pointers : Holds(r)' = Holds(r)
  BY DEF Holds
<1>3. ASSUME NEW r \in Pointers, Whole(r) PROVE Whole(r)'
  BY <1>3 DEF Whole, InPlace
<1>4. Covered => Covered'
  BY <1>2 DEF Covered, InPlace
<1>5. \A r \in Pointers : Have(r)' > 0 => (ptr'[r] = Nowhere /\ failed') \/ (Holds(r)' /\ Whole(r)')
  BY <1>2, <1>3 DEF Owns
<1>6. \A r, s \in Pointers : r # s /\ Holds(r)' /\ Holds(s)' => ptr'[r] # ptr'[s]
  BY <1>2 DEF Owns
<1>7. (failed' /\ program' \in Resizers) \/ Covered'
  BY <1>4 DEF Owns
<1> QED BY <1>1, <1>5, <1>6, <1>7 DEF Owns

(* when p is given a new region, *)
LEMMA OwnsNew ==
  ASSUME PagesInv, Owns, program' = program, failed' = failed,
         NEW p \in Pointers, p # "NULL", NEW n \in Nat, n > 0, Have(p) = 0,
         \A r \in Pointers : Have(r) \in Nat,
         \A r \in Pointers : Have(r)' = IF r = p THEN n ELSE Have(r),
         NEW a \in Room(n), NEW y, y # Unmapped, y.base = a, y.kind = KindOf(program, p),
         \A b \in Addresses : page'[b] = IF b \in Span(a, n) THEN y ELSE page[b],
         ptr'[p] = a, \A r \in Pointers : r # p => ptr'[r] = ptr[r]
  PROVE  Owns'
<1>0. /\ a \in Addresses /\ a # Nowhere /\ a \in Span(a, n)
      /\ \A b \in Span(a, n) : b \in Addresses /\ page[b] = Unmapped
  BY AddressesAre, SpanFacts DEF Room
<1>1. ptr'["NULL"] = Nowhere /\ ptr'[p] = a /\ \A r \in Pointers : r # p => ptr'[r] = ptr[r]
  BY DEF Owns, PagesInv, Pointers
<1>2. /\ ~ Holds(p) /\ Holds(p)'
      /\ \A r \in Pointers : r # p => Holds(r)' = Holds(r)
  BY <1>0, <1>1 DEF Holds
<1>3. Whole(p)'
  BY <1>0, <1>1 DEF Whole
<1>4. ASSUME NEW r \in Pointers, r # p, Holds(r), Whole(r)
      PROVE  Whole(r)' /\ ptr[r] # a
  <2>1. \A b \in Span(ptr[r], Have(r)) : b \in Addresses /\ page'[b] = page[b]
    BY <1>0, <1>4 DEF Whole
  <2>2. Whole(r)'
    BY <1>1, <1>4, <2>1 DEF Whole
  <2>3. ptr[r] = a => a \in Span(a, Have(r))
    BY <1>0, <1>4 DEF Holds, Span
  <2> QED BY <1>0, <1>4, <2>2, <2>3 DEF Whole
<1>5. \A r \in Pointers : Have(r)' > 0 => (ptr'[r] = Nowhere /\ failed') \/ (Holds(r)' /\ Whole(r)')
  BY <1>1, <1>2, <1>3, <1>4 DEF Owns
<1>6. \A r \in Pointers : Holds(r) => Whole(r)
  BY DEF Owns, Holds
<1>7. \A r, s \in Pointers : r # s /\ Holds(r)' /\ Holds(s)' => ptr'[r] # ptr'[s]
  BY <1>1, <1>2, <1>4, <1>6 DEF Owns
<1>8. ASSUME Covered PROVE Covered'
  <2>1. ASSUME NEW b \in Addresses, page'[b] # Unmapped
        PROVE  \E r \in Pointers : Holds(r)' /\ b \in Span(ptr'[r], Have(r)')
    <3>1. CASE b \in Span(a, n)
      BY <1>1, <1>2, <3>1
    <3>2. CASE b \notin Span(a, n)
      <4>1. page[b] # Unmapped
        BY <2>1, <3>2
      <4>2. PICK r \in Pointers : Holds(r) /\ b \in Span(ptr[r], Have(r))
        BY <1>8, <4>1 DEF Covered
      <4> QED BY <1>1, <1>2, <4>2
    <3> QED BY <3>1, <3>2
  <2> QED BY <2>1 DEF Covered
<1>9. (failed' /\ program' \in Resizers) \/ Covered'
  BY <1>8 DEF Owns
<1> QED BY <1>1, <1>5, <1>7, <1>9 DEF Owns

(* when it is refused one, *)
LEMMA OwnsRefused ==
  ASSUME PagesInv, Owns, program' = program,
         NEW p \in Pointers, p # "NULL", NEW n \in Nat, n > 0, Have(p) = 0,
         \A r \in Pointers : Have(r)' = IF r = p THEN n ELSE Have(r),
         Fails(p)
  PROVE  Owns'
<1>0. page' = page /\ ptr' = [ptr EXCEPT ![p] = Nowhere] /\ failed'
  BY DEF Fails
<1>1. ptr'["NULL"] = Nowhere /\ ptr'[p] = Nowhere /\ \A r \in Pointers : r # p => ptr'[r] = ptr[r]
  BY <1>0 DEF Owns, PagesInv, Pointers
<1>2. /\ ~ Holds(p) /\ ~ Holds(p)'
      /\ \A r \in Pointers : Holds(r)' = Holds(r)
  BY <1>1 DEF Holds
<1>3. ASSUME NEW r \in Pointers, r # p, Whole(r) PROVE Whole(r)'
  BY <1>0, <1>1, <1>3 DEF Whole
<1>4. \A r \in Pointers : Have(r)' > 0 => (ptr'[r] = Nowhere /\ failed') \/ (Holds(r)' /\ Whole(r)')
  BY <1>0, <1>1, <1>2, <1>3 DEF Owns
<1>5. \A r, s \in Pointers : r # s /\ Holds(r)' /\ Holds(s)' => ptr'[r] # ptr'[s]
  BY <1>1, <1>2 DEF Owns
<1>6. Covered => Covered'
  BY <1>0, <1>1, <1>2 DEF Covered
<1>7. (failed' /\ program' \in Resizers) \/ Covered'
  BY <1>0, <1>6 DEF Owns
<1> QED BY <1>1, <1>4, <1>5, <1>7 DEF Owns

(* and when p's pages, and no others, are given back. *)
LEMMA OwnsDropped ==
  ASSUME PagesInv, Owns, program' = program, ptr' = ptr, failed' = failed,
         NEW p \in Pointers,
         \A r \in Pointers : Have(r)' = IF r = p THEN 0 ELSE Have(r),
         NEW S, page' = Drop(S),
         Holds(p) => Span(ptr[p], Have(p)) \subseteq S,
         \A r \in Pointers : r # p /\ Holds(r) => \A b \in Span(ptr[r], Have(r)) : b \notin S
  PROVE  Owns'
<1>0. \A b \in Addresses : page'[b] = IF b \in S THEN Unmapped ELSE page[b]
  BY DEF Drop
<1>1. /\ ~ Holds(p)'
      /\ \A r \in Pointers : r # p => Holds(r)' = Holds(r)
  BY DEF Holds
<1>2. ASSUME NEW r \in Pointers, r # p, Holds(r), Whole(r) PROVE Whole(r)'
  BY <1>0, <1>2 DEF Whole
<1>3. \A r \in Pointers : Have(r)' > 0 => (ptr'[r] = Nowhere /\ failed') \/ (Holds(r)' /\ Whole(r)')
  BY <1>1, <1>2 DEF Owns
<1>4. \A r, s \in Pointers : r # s /\ Holds(r)' /\ Holds(s)' => ptr'[r] # ptr'[s]
  BY <1>1 DEF Owns
<1>5. ASSUME Covered PROVE Covered'
  <2>1. ASSUME NEW b \in Addresses, page'[b] # Unmapped
        PROVE  \E r \in Pointers : Holds(r)' /\ b \in Span(ptr'[r], Have(r)')
    <3>1. page[b] # Unmapped /\ b \notin S
      BY <1>0, <2>1
    <3>2. PICK r \in Pointers : Holds(r) /\ b \in Span(ptr[r], Have(r))
      BY <1>5, <3>1 DEF Covered
    <3> QED BY <1>1, <3>1, <3>2
  <2> QED BY <2>1 DEF Covered
<1>6. (failed' /\ program' \in Resizers) \/ Covered'
  BY <1>5 DEF Owns
<1>7. ptr'["NULL"] = Nowhere
  BY DEF Owns
<1> QED BY <1>3, <1>4, <1>6, <1>7 DEF Owns

(* When p's region becomes one of q, moved or not, *)
LEMMA OwnsMoved ==
  ASSUME PagesInv, Owns, program' = program, failed' = failed,
         NEW p \in Pointers, p # "NULL", NEW q \in Pointers, q # "NULL",
         NEW n \in Nat, n > 0, NEW m \in Nat, m > 0, Have(p) = n, q = p \/ Have(q) = 0,
         \A r \in Pointers : Have(r) \in Nat,
         \A r \in Pointers : Have(r)' = IF r = q THEN m ELSE IF r = p THEN 0 ELSE Have(r),
         NEW c \in MapArea,
         \A b \in Span(c, m) : /\ b \in MapArea
                               /\ page[b] = Unmapped \/ (ptr[p] # Nowhere /\ b \in Span(ptr[p], n)),
         \A b \in Addresses : b \in Span(c, m) =>
           page'[b] # Unmapped /\ page'[b].base = c /\ page'[b].kind = KindOf(program, q),
         \A b \in Addresses : b \notin Span(c, m) =>
           page'[b] = IF ptr[p] # Nowhere /\ b \in Span(ptr[p], n) THEN Unmapped ELSE page[b],
         ptr'[q] = c, \A r \in Pointers : r # q => ptr'[r] = ptr[r]
  PROVE  Owns'
<1>0. c \in Addresses /\ c # Nowhere /\ c \in Span(c, m) /\
      \A b \in Span(c, m) : b \in Addresses
  BY AddressesAre, SpanFacts
<1>1. ptr'["NULL"] = Nowhere /\ ptr'[q] = c /\ \A r \in Pointers : r # q => ptr'[r] = ptr[r]
  BY DEF Owns, PagesInv, Pointers
<1>2. /\ Holds(q)' /\ (p # q => ~ Holds(p)')
      /\ \A r \in Pointers : r # p /\ r # q => Holds(r)' = Holds(r)
      /\ p # q => ~ Holds(q)
      /\ ptr[p] # Nowhere => Holds(p)
  BY <1>0, <1>1 DEF Holds
<1>3. Whole(q)'
  BY <1>0, <1>1 DEF Whole
<1>4. \A r \in Pointers : Holds(r) => Whole(r)
  BY DEF Owns, Holds
<1>5. ASSUME NEW r \in Pointers, r # p, r # q, Holds(r)
      PROVE  Whole(r)' /\ ptr[r] # c
  <2>1. Whole(r) /\ (Holds(p) => Whole(p) /\ ptr[p] # ptr[r])
    BY <1>4, <1>5 DEF Owns
  <2>2. \A b \in Span(ptr[r], Have(r)) :
          /\ b \in Addresses /\ page[b] # Unmapped
          /\ ~ (ptr[p] # Nowhere /\ b \in Span(ptr[p], n))
    BY <1>2, <2>1 DEF Whole
  <2>3. \A b \in Span(ptr[r], Have(r)) : b \notin Span(c, m) /\ page'[b] = page[b]
    BY <2>2
  <2>4. Whole(r)'
    BY <1>1, <1>5, <2>1, <2>3 DEF Whole
  <2>5. ptr[r] = c => c \in Span(c, Have(r))
    BY <1>0, <1>5 DEF Holds, Span
  <2> QED BY <1>0, <2>3, <2>4, <2>5
<1>6. \A r \in Pointers : Have(r)' > 0 => (ptr'[r] = Nowhere /\ failed') \/ (Holds(r)' /\ Whole(r)')
  <2>1. ASSUME NEW r \in Pointers, r # p, r # q, Have(r)' > 0
        PROVE  (ptr'[r] = Nowhere /\ failed') \/ (Holds(r)' /\ Whole(r)')
    BY <1>1, <1>2, <1>5, <2>1 DEF Owns
  <2> QED BY <1>2, <1>3, <2>1
<1>7. \A r, s \in Pointers : r # s /\ Holds(r)' /\ Holds(s)' => ptr'[r] # ptr'[s]
  BY <1>1, <1>2, <1>5 DEF Owns
<1>8. ASSUME Covered PROVE Covered'
  <2>1. ASSUME NEW b \in Addresses, page'[b] # Unmapped
        PROVE  \E r \in Pointers : Holds(r)' /\ b \in Span(ptr'[r], Have(r)')
    <3>1. CASE b \in Span(c, m)
      BY <1>1, <1>2, <3>1
    <3>2. CASE b \notin Span(c, m)
      <4>1. page[b] # Unmapped /\ ~ (ptr[p] # Nowhere /\ b \in Span(ptr[p], n))
        BY <2>1, <3>2
      <4>2. PICK r \in Pointers : Holds(r) /\ b \in Span(ptr[r], Have(r))
        BY <1>8, <4>1 DEF Covered
      <4>3. r # p
        BY <4>1, <4>2 DEF Holds
      <4>4. r # q
        BY <1>2, <4>2, <4>3
      <4> QED BY <1>1, <1>2, <4>2, <4>3, <4>4
    <3> QED BY <3>1, <3>2
  <2> QED BY <2>1 DEF Covered
<1>9. (failed' /\ program' \in Resizers) \/ Covered'
  BY <1>8 DEF Owns
<1> QED BY <1>1, <1>6, <1>7, <1>9 DEF Owns

(* and when that is refused, which loses p's pages if q is p. *)
LEMMA OwnsLost ==
  ASSUME PagesInv, Owns, program' = program, program \in Resizers,
         NEW p \in Pointers, p # "NULL", NEW q \in Pointers, q # "NULL",
         NEW m \in Nat, m > 0, q = p \/ Have(q) = 0,
         \A r \in Pointers : Have(r)' = IF r = q THEN m ELSE IF r = p THEN 0 ELSE Have(r),
         Fails(q)
  PROVE  Owns'
<1>0. page' = page /\ ptr' = [ptr EXCEPT ![q] = Nowhere] /\ failed'
  BY DEF Fails
<1>1. ptr'["NULL"] = Nowhere /\ ptr'[q] = Nowhere /\ \A r \in Pointers : r # q => ptr'[r] = ptr[r]
  BY <1>0 DEF Owns, PagesInv, Pointers
<1>2. /\ ~ Holds(q)' /\ (p # q => ~ Holds(p)')
      /\ \A r \in Pointers : r # p /\ r # q => Holds(r)' = Holds(r)
  BY <1>1 DEF Holds
<1>3. ASSUME NEW r \in Pointers, r # p, r # q, Whole(r) PROVE Whole(r)'
  BY <1>0, <1>1, <1>3 DEF Whole
<1>4. \A r \in Pointers : Have(r)' > 0 => (ptr'[r] = Nowhere /\ failed') \/ (Holds(r)' /\ Whole(r)')
  BY <1>0, <1>1, <1>2, <1>3 DEF Owns
<1>5. \A r, s \in Pointers : r # s /\ Holds(r)' /\ Holds(s)' => ptr'[r] # ptr'[s]
  BY <1>1, <1>2 DEF Owns
<1>6. failed' /\ program' \in Resizers
  BY <1>0
<1> QED BY <1>1, <1>4, <1>5, <1>6 DEF Owns
-----------------------------------------------------------------------------
(* The fields of a mapped page. *)
LEMMA SheetFields ==
  ASSUME NEW b, NEW k, NEW v, NEW prot, NEW t, NEW l, NEW y, y = Sheet(b, k, v, prot, t, l)
  PROVE  /\ y # Unmapped /\ y.base = b /\ y.kind = k /\ y.val = v
         /\ y.prot = prot /\ y.at = t /\ y.locked = l
BY DEF Sheet, Unmapped

(* A program that has ended does nothing. *)
LEMMA EndedStays ==
  ASSUME [MCNext]_allVars, end # "running"
  PROVE  UNCHANGED <<program, pc, end, page, ptr, brk, kept, refused, file, fd, handler,
                     counter, faults, seen, failed>>
<1> USE DEF At
<1>1. ~ (GetMemory \/ MmapFileStep \/ MmapFixedStep \/ CheckStep \/ MunmapStep \/ FreeStep)
  BY Zenon DEF GetMemory, MmapFileStep, MmapFixedStep, CheckStep, MunmapStep, FreeStep
<1>2. ~ (ResizeStep \/ MprotectStep \/ DontneedStep \/ PageoutStep \/ MlockStep \/ MunlockStep)
  BY Zenon DEF ResizeStep, MprotectStep, DontneedStep, PageoutStep, MlockStep, MunlockStep
<1>3. ~ (SbrkStep \/ SbrkBackStep \/ PrintBreak \/ PrintfBuffer \/ PrintNull)
  BY Zenon DEF SbrkStep, SbrkBackStep, PrintBreak, PrintfBuffer, PrintNull
<1>4. ~ (Load \/ Store \/ BadAccess)
  BY Zenon DEF Load, Store, BadAccess, Accesses
<1>5. ~ (RecurseStep \/ LandedStep \/ SigactionStep \/ OpenStep \/ WriteFileStep \/ FopenFails)
  BY Zenon DEF RecurseStep, LandedStep, SigactionStep, OpenStep, WriteFileStep, FopenFails
<1>6. ~ (ReadFileStep \/ UnlinkStep \/ RssStep \/ MapsStep \/ RusageStep \/ PagemapStep
          \/ UnreachableStep \/ ReturnStep \/ TrimStep \/ OverflowStep)
  BY Zenon DEF ReadFileStep, UnlinkStep, RssStep, MapsStep, RusageStep, PagemapStep,
     UnreachableStep, ReturnStep, TrimStep, OverflowStep
<1>7. ~ MCReclaim
  BY Zenon DEF MCReclaim, Reclaim
<1>8. ~ At("measure")
  BY Zenon
<1>9. UNCHANGED allVars
  BY <1>1, <1>2, <1>3, <1>4, <1>5, <1>6, <1>7, <1>8, Zenon DEF MCNext, MCProcess, Process, PlainStep
<1> QED BY <1>9 DEF allVars, vars, memory, files, log

(* The current step goes with what the program holds. *)
LEMMA FitsNow == ASSUME WhereInv, program \notin Printers PROVE Fits(program, pc)
BY ScriptsFit DEF WhereInv

(* What the program holds at its next step. *)
LEMMA HaveNext ==
  ASSUME WhereInv, program \notin Printers, program' = program, pc' = pc + 1, Step.op # "return",
         NEW r \in Pointers
  PROVE  Have(r) \in Nat /\ Have(r)' = Leaves(Step, r, Have(r))
<1>1. Fits(program, pc)
  BY FitsNow
<1>2. /\ Holdings[program][pc][r] \in Nat
      /\ Holdings[program][pc + 1][r] = Leaves(Script[program][pc], r, Holdings[program][pc][r])
  BY <1>1 DEF Fits, Step
<1> QED BY <1>2 DEF Have, Step

Movers == {"get", "mmap_file", "munmap", "free", "resize"}

(* Steps other than these change no size. *)
LEMMA HaveKept ==
  ASSUME WhereInv, [MCNext]_allVars, program \notin Printers, NEW r \in Pointers,
         Step.op \notin Movers \/ pc' = pc
  PROVE  Have(r)' = Have(r)
<1>0. program' = program
  BY GoesOn
<1>1. CASE pc' = pc
  BY <1>0, <1>1 DEF Have
<1>2. CASE pc' = pc + 1 /\ Step.op \notin Movers /\ Step.op # "return"
  <2>1. Have(r)' = Leaves(Step, r, Have(r))
    BY <1>0, <1>2, HaveNext
  <2> QED BY <1>2, <2>1 DEF Leaves, Movers
<1>3. CASE program \in Jumpers
  <2>1. pc \in Nat /\ pc' \in Nat
    BY WhereStep, StepFacts DEF WhereInv
  <2>2. program \in {"recursion_depth", "stack_overflow"}
    BY <1>3 DEF Jumpers
  <2>3. Holdings["recursion_depth"] = Nothing /\ Holdings["stack_overflow"] = Nothing
    BY DEF Holdings
  <2>4. \A k \in Nat : Nothing[k][r] = 0
    BY DEF Nothing
  <2> QED BY <1>0, <2>1, <2>2, <2>3, <2>4 DEF Have
<1>4. pc' = pc \/ program \in Jumpers \/ (pc' = pc + 1 /\ Step.op # "return")
  <2>1. program \notin Jumpers => handler.how # "jump"
    BY DEF WhereInv
  <2> QED BY <2>1, Moves, OpOf DEF Advance, Leave, Segv, Stays, SigactionStep
<1> QED BY <1>1, <1>2, <1>3, <1>4

(* A step that is Quiet or edits pages leaves the program what it holds. *)
LEMMA OwnEdit ==
  ASSUME WhereInv, PagesInv, Owns, [MCNext]_allVars, program \notin Printers,
         Step.op \notin Movers \/ pc' = pc, ptr' = ptr, failed => failed', InPlace
  PROVE  Owns'
<1>1. program' = program
  BY GoesOn
<1>2. \A r \in Pointers : Have(r)' = Have(r)
  BY HaveKept
<1> QED BY <1>1, <1>2, OwnsKept

(* mmap(), malloc() and calloc() *)
LEMMA OwnGet ==
  ASSUME WhereInv, PagesInv, Owns, GetMemory, program \notin Printers
  PROVE  Owns'
<1>1. Step.op = "get" /\ program' = program /\ pc' = pc + 1
  BY OpOf DEF GetMemory, Advance
<1>2. PICK p, n, k : p = Step.p /\ n = Step.n /\ k = Step.kind
  BY Zenon
<1>3. p \in Pointers /\ p # "NULL" /\ n \in Nat /\ n > 0 /\ Have(p) = 0 /\
      k = KindOf(program, p)
  <2>1. Fits(program, pc)
    BY FitsNow
  <2> QED BY <1>1, <1>2, <2>1 DEF Fits, Step, Have
<1>4. /\ \A r \in Pointers : Have(r) \in Nat
      /\ \A r \in Pointers : Have(r)' = IF r = p THEN n ELSE Have(r)
  <2>1. \A r \in Pointers : Have(r) \in Nat /\ Have(r)' = Leaves(Step, r, Have(r))
    BY <1>1, HaveNext
  <2> QED BY <1>1, <1>2, <2>1 DEF Leaves
<1>5. CASE Fails(p)
  BY <1>1, <1>3, <1>4, <1>5, OwnsRefused
<1>6. CASE ~ Fails(p)
  <2>1. PICK a \in Room(n) :
          /\ page' = [b \in Addresses |->
                        IF b \in Span(a, n)
                        THEN [Page(a, k, Step.val) EXCEPT
                                !.at = IF Step.touched THEN "frame" ELSE "none"]
                        ELSE page[b]]
          /\ ptr' = [ptr EXCEPT ![p] = a]
          /\ failed' = failed
    BY <1>2, <1>6, Zenon DEF GetMemory, Grants, Put
  <2>2. PICK v, t, o, y : /\ t = IF Step.touched THEN "frame" ELSE "none"
                          /\ v = Step.val
                          /\ o = Page(a, k, v)
                          /\ y = [o EXCEPT !.at = t]
    BY Zenon
  <2>3. \A b \in Addresses : page'[b] = IF b \in Span(a, n) THEN y ELSE page[b]
    <3>1. page' = [b \in Addresses |-> IF b \in Span(a, n) THEN y ELSE page[b]]
      BY <2>1, <2>2, Zenon
    <3> QED BY <3>1
  <2>4. y # Unmapped /\ y.base = a /\ y.kind = k
    <3>1. o = Sheet(a, k, v, RW, "none", FALSE)
      BY <2>2, Zenon DEF Page, Sheet
    <3>2. PICK l : l = FALSE
      BY Zenon
    <3>3. o = Sheet(a, k, v, RW, "none", l)
      BY <3>1, <3>2, Zenon
    <3>4. y = [o EXCEPT !.at = t]
      BY <2>2
    <3>5. y = Sheet(a, k, v, RW, t, l)
      BY <3>3, <3>4 DEF Sheet
    <3> QED BY <3>5, SheetFields
  <2>5. ptr'[p] = a /\ failed' = failed /\ \A r \in Pointers : r # p => ptr'[r] = ptr[r]
    BY <1>3, <2>1 DEF PagesInv
  <2>6. y.kind = KindOf(program, p)
    BY <1>3, <2>4
  <2> QED BY <1>1, <1>3, <1>4, <2>3, <2>4, <2>5, <2>6, OwnsNew
<1> QED BY <1>5, <1>6

(* mmap() of a file *)
LEMMA OwnMapFile ==
  ASSUME WhereInv, PagesInv, Owns, MmapFileStep, program \notin Printers
  PROVE  Owns'
<1>1. Step.op = "mmap_file" /\ program' = program /\ pc' = pc + 1
  BY OpOf DEF MmapFileStep, Advance
<1>2. PICK p, n, k : p = Step.p /\ n = 1 /\ k = Step.kind
  BY Zenon
<1>3. p \in Pointers /\ p # "NULL" /\ n \in Nat /\ n > 0 /\ Have(p) = 0 /\
      k = KindOf(program, p)
  <2>1. Fits(program, pc)
    BY FitsNow
  <2> QED BY <1>1, <1>2, <2>1 DEF Fits, Step, Have
<1>4. /\ \A r \in Pointers : Have(r) \in Nat
      /\ \A r \in Pointers : Have(r)' = IF r = p THEN n ELSE Have(r)
  <2>1. \A r \in Pointers : Have(r) \in Nat /\ Have(r)' = Leaves(Step, r, Have(r))
    BY <1>1, HaveNext
  <2> QED BY <1>1, <1>2, <2>1 DEF Leaves
<1>5. CASE Fails(p)
  BY <1>1, <1>3, <1>4, <1>5, OwnsRefused
<1>6. CASE ~ Fails(p)
  <2>1. PICK a \in Room(n) :
          /\ page' = [b \in Addresses |-> IF b \in Span(a, n) THEN Page(a, k, "file") ELSE page[b]]
          /\ ptr' = [ptr EXCEPT ![p] = a]
          /\ failed' = failed
    BY <1>2, <1>6, Zenon DEF MmapFileStep, Grants, Put
  <2>2. PICK y : y = Page(a, k, "file")
    BY Zenon
  <2>3. \A b \in Addresses : page'[b] = IF b \in Span(a, n) THEN y ELSE page[b]
    <3>1. page' = [b \in Addresses |-> IF b \in Span(a, n) THEN y ELSE page[b]]
      BY <2>1, <2>2, Zenon
    <3> QED BY <3>1
  <2>4. y # Unmapped /\ y.base = a /\ y.kind = k
    <3>1. PICK l : l = FALSE
      BY Zenon
    <3>2. y = Sheet(a, k, "file", RW, "none", l)
      BY <2>2, <3>1, Zenon DEF Page, Sheet
    <3> QED BY <3>2, SheetFields
  <2>5. ptr'[p] = a /\ failed' = failed /\ \A r \in Pointers : r # p => ptr'[r] = ptr[r]
    BY <1>3, <2>1 DEF PagesInv
  <2>6. y.kind = KindOf(program, p)
    BY <1>3, <2>4
  <2> QED BY <1>1, <1>3, <1>4, <2>3, <2>4, <2>5, <2>6, OwnsNew
<1> QED BY <1>5, <1>6

(* What is dropped belongs to no other pointer, because no two are to the  *)
(* same address.                                                           *)
LEMMA OwnersDiffer ==
  ASSUME Owns, NEW r \in Pointers, NEW s \in Pointers, r # s, Holds(r), Holds(s)
  PROVE  \A b \in Span(ptr[r], Have(r)) : page[b].base # ptr[s] /\ b \notin Span(ptr[s], Have(s))
BY DEF Owns, Whole, Holds

(* munmap() *)
LEMMA OwnMunmap ==
  ASSUME WhereInv, PagesInv, Owns, MunmapStep, program \notin Printers
  PROVE  Owns'
<1>1. Step.op = "munmap" /\ program' = program /\ pc' = pc + 1 /\ failed' = failed /\ ptr' = ptr
  BY OpOf DEF MunmapStep, Advance
<1>2. PICK p, n : p = Step.p /\ n = Step.n
  BY Zenon
<1>3. p \in Pointers /\ n > 0 /\ Have(p) = n
  <2>1. Fits(program, pc)
    BY FitsNow
  <2> QED BY <1>1, <1>2, <2>1 DEF Fits, Step, Have
<1>4. \A r \in Pointers : Have(r)' = IF r = p THEN 0 ELSE Have(r)
  <2>1. \A r \in Pointers : Have(r) \in Nat /\ Have(r)' = Leaves(Step, r, Have(r))
    BY <1>1, HaveNext
  <2> QED BY <1>1, <1>2, <2>1 DEF Leaves
<1>5. CASE ptr[p] = Nowhere
  <2>1. page' = page
    BY <1>2, <1>5 DEF MunmapStep
  <2>2. page' = Drop({})
    BY <2>1 DEF Drop, PagesInv
  <2>3. ~ Holds(p)
    BY <1>5 DEF Holds
  <2> QED BY <1>1, <1>3, <1>4, <2>2, <2>3, OwnsDropped
<1>6. CASE ptr[p] # Nowhere
  <2>1. page' = Drop(Span(ptr[p], n))
    BY <1>2, <1>6 DEF MunmapStep
  <2>2. Holds(p)
    BY <1>3, <1>6 DEF Holds
  <2>3. \A r \in Pointers : r # p /\ Holds(r) =>
          \A b \in Span(ptr[r], Have(r)) : b \notin Span(ptr[p], n)
    BY <1>3, <2>2, OwnersDiffer
  <2>4. PICK S : S = Span(ptr[p], n)
    BY Zenon
  <2>5. page' = Drop(S) /\ Span(ptr[p], Have(p)) \subseteq S
    BY <1>3, <2>1, <2>4
  <2>6. \A r \in Pointers : r # p /\ Holds(r) => \A b \in Span(ptr[r], Have(r)) : b \notin S
    BY <2>3, <2>4
  <2> QED BY <1>1, <1>3, <1>4, <2>5, <2>6, OwnsDropped
<1> QED BY <1>5, <1>6
-----------------------------------------------------------------------------
(* free() *)
LEMMA OwnFree ==
  ASSUME WhereInv, PagesInv, Owns, FreeStep, program \notin Printers, end' # "killed"
  PROVE  Owns'
<1>1. Step.op = "free" /\ failed' = failed /\ ptr' = ptr /\ ~ Leave("killed")
  BY OpOf DEF FreeStep, Leave
<1>0. Advance
  BY <1>1, Zenon DEF FreeStep
<1>2. PICK p : p = Step.p
  BY Zenon
<1>3. /\ p \in Pointers /\ KindOf(program, p) = "heap"
      /\ Have(p) > 0 \/ p = "NULL" \/ (program = "double_free" /\ pc = 3)
      /\ program' = program /\ pc' = pc + 1
  <2>1. Fits(program, pc)
    BY FitsNow
  <2> QED BY <1>0, <1>1, <1>2, <2>1 DEF Fits, Step, Have, Advance
<1>4. \A r \in Pointers : Have(r)' = IF r = p THEN 0 ELSE Have(r)
  <2>1. \A r \in Pointers : Have(r) \in Nat /\ Have(r)' = Leaves(Step, r, Have(r))
    BY <1>1, <1>3, HaveNext
  <2> QED BY <1>1, <1>2, <2>1 DEF Leaves
<1>5. CASE page' = page /\ ptr[p] = Nowhere
  <2>2. page' = Drop({})
    BY <1>5 DEF Drop, PagesInv
  <2>3. ~ Holds(p)
    BY <1>5 DEF Holds
  <2> QED BY <1>1, <1>3, <1>4, <2>2, <2>3, OwnsDropped
<1>6. CASE page' = Drop(Block(ptr[p])) /\ Block(ptr[p]) # {}
  <2>1. PICK c \in Addresses : page[c].kind = "heap" /\ page[c].base = ptr[p]
    BY <1>6 DEF Block
  <2>2. page[c] # Unmapped
    BY <2>1 DEF Unmapped
  <2>3. ptr[p] # Nowhere /\ p # "NULL"
    <3>1. ptr[p] \in Addresses
      BY <2>1, <2>2, PageFacts DEF PagesInv
    <3> QED BY <3>1, AddressesAre DEF Owns
  <2>4. ~ (program = "double_free" /\ pc = 3)
    <3>1. ASSUME program = "double_free", pc = 3 PROVE FALSE
      <4>1. PICK r \in Pointers : Holds(r)
        BY <2>2, <3>1 DEF Owns, Covered, Resizers
      <4>2. Holdings["double_free"] = Only("p", 1, 2, 2)
        BY DEF Holdings
      <4>3. Only("p", 1, 2, 2)[3][r] = 0
        BY DEF Only, From
      <4> QED BY <3>1, <4>1, <4>2, <4>3 DEF Holds, Have
    <3> QED BY <3>1
  <2>5. Holds(p) /\ Whole(p)
    BY <1>3, <2>3, <2>4 DEF Owns, Holds
  <2>6. PICK S : S = Block(ptr[p])
    BY Zenon
  <2>7. page' = Drop(S)
    BY <1>6, <2>6
  <2>8. Span(ptr[p], Have(p)) \subseteq S
    BY <1>3, <2>5, <2>6 DEF Whole, Block
  <2>9. \A r \in Pointers : r # p /\ Holds(r) => \A b \in Span(ptr[r], Have(r)) : b \notin S
    BY <1>3, <2>5, <2>6, OwnersDiffer DEF Block
  <2> QED BY <1>1, <1>3, <1>4, <2>7, <2>8, <2>9, OwnsDropped
<1> QED BY <1>1, <1>2, <1>5, <1>6, Zenon DEF FreeStep

(* mremap() and realloc() *)
LEMMA OwnResize ==
  ASSUME WhereInv, PagesInv, Owns, ResizeStep, program \notin Printers
  PROVE  Owns'
<1>1. Step.op = "resize" /\ program' = program /\ pc' = pc + 1
  BY OpOf DEF ResizeStep, Advance
<1> DEFINE p == Step.p
           q == Step.q
           n == Step.n
           m == Step.m
           k == Step.kind
<1> HIDE DEF p, q, n, m, k
<1>3. /\ p \in Pointers /\ p # "NULL" /\ q \in Pointers /\ q # "NULL"
      /\ n \in Nat /\ n > 0 /\ m \in Nat /\ m > 0 /\ Have(p) = n /\ (q = p \/ Have(q) = 0)
      /\ k = KindOf(program, p) /\ k = KindOf(program, q)
  <2>1. Fits(program, pc)
    BY FitsNow
  <2> QED BY <1>1, <2>1 DEF Fits, Step, Have, p, q, n, m, k
<1>4. /\ \A r \in Pointers : Have(r) \in Nat
      /\ \A r \in Pointers : Have(r)' = IF r = q THEN m ELSE IF r = p THEN 0 ELSE Have(r)
  <2>1. \A r \in Pointers : Have(r) \in Nat /\ Have(r)' = Leaves(Step, r, Have(r))
    BY <1>1, HaveNext
  <2> QED BY <1>1, <2>1 DEF Leaves, p, q, m
<1>5. program \in Resizers
  BY <1>1, StepFacts DEF WhereInv, Step
<1>6. CASE Fails(q)
  BY <1>1, <1>3, <1>4, <1>5, <1>6, OwnsLost
<1>7. CASE ~ Fails(q)
  <2> DEFINE a == ptr[p]
             others == [b \in Addresses |-> IF a # Nowhere /\ b \in Span(a, n)
                                            THEN Unmapped ELSE page[b]]
             same == {i \in 0 .. m - 1 : i < n}
             fresh == IF k = "map" THEN "zero" ELSE "junk"
  <2>1. PICK c \in MapArea :
          /\ \A b \in Span(c, m) : b \in MapArea /\ others[b] = Unmapped
          /\ page' = [b \in Addresses |->
                        IF b \notin Span(c, m) THEN others[b]
                        ELSE IF a # Nowhere /\ b - c \in same
                             THEN [page[a + b - c] EXCEPT !.base = c]
                             ELSE Page(c, k, fresh)]
          /\ ptr' = [ptr EXCEPT ![q] = c]
          /\ failed' = failed
    BY <1>7, Zenon DEF ResizeStep, p, q, n, m, k
  <2>2. c \in Addresses /\ c \in Int
    BY AddressesAre
  <2>3. \A b \in Addresses : b \notin Span(c, m) =>
           page'[b] = IF a # Nowhere /\ b \in Span(a, n) THEN Unmapped ELSE page[b]
    BY <2>1
  <2>4. \A b \in Span(c, m) : /\ b \in MapArea
                              /\ page[b] = Unmapped \/ (a # Nowhere /\ b \in Span(a, n))
    BY <2>1, AddressesAre
  <2>5. ASSUME NEW b \in Addresses, b \in Span(c, m)
        PROVE  page'[b] # Unmapped /\ page'[b].base = c /\ page'[b].kind = KindOf(program, q)
    <3>1. CASE a # Nowhere /\ b - c \in same
      <4>1. PICK x, y : x = page[a + b - c] /\ y = [x EXCEPT !.base = c]
        BY Zenon
      <4>2. page'[b] = y
        BY <2>1, <2>5, <3>1, <4>1
      <4>3. Holds(p) /\ Whole(p)
        BY <1>3, <3>1 DEF Owns, Holds
      <4>4. a \in Int /\ b \in Int
        BY <1>3, <3>1, AddressesAre DEF PagesInv
      <4>5. a + b - c \in Span(a, n)
        BY <1>3, <2>2, <3>1, <4>4 DEF Span
      <4>6. a + b - c \in Addresses /\ x # Unmapped /\ x.kind = KindOf(program, p)
        BY <1>3, <4>1, <4>3, <4>5 DEF Whole
      <4>7. IsPage(x) /\ y = [x EXCEPT !.base = c]
        BY <4>1, <4>6 DEF PagesInv
      <4>8. y # Unmapped /\ y.base = c /\ y.kind = x.kind
        BY <4>6, <4>7, FieldEdits
      <4> QED BY <1>3, <4>2, <4>6, <4>8
    <3>2. CASE ~ (a # Nowhere /\ b - c \in same)
      <4>1. PICK v, l : v = fresh /\ l = FALSE
        BY Zenon
      <4>2. page'[b] = Page(c, k, v)
        BY <2>1, <2>5, <3>2, <4>1
      <4> HIDE DEF fresh
      <4>3. Page(c, k, v) = Sheet(c, k, v, RW, "none", l)
        BY <4>1, Zenon DEF Page, Sheet
      <4>4. page'[b] = Sheet(c, k, v, RW, "none", l)
        BY <4>2, <4>3, Zenon
      <4>5. PICK y : y = page'[b]
        BY Zenon
      <4>6. y # Unmapped /\ y.base = c /\ y.kind = k
        BY <4>4, <4>5, SheetFields
      <4> QED BY <1>3, <4>5, <4>6
    <3> QED BY <3>1, <3>2
  <2>6. ptr'[q] = c /\ failed' = failed /\ \A r \in Pointers : r # q => ptr'[r] = ptr[r]
    BY <1>3, <2>1 DEF PagesInv
  <2> HIDE DEF others, same, fresh
  <2> QED BY <1>1, <1>3, <1>4, <2>3, <2>4, <2>5, <2>6, OwnsMoved
<1> QED BY <1>6, <1>7

(* A failure is never forgotten. *)
LEMMA FailedStays == ASSUME WhereInv, [MCNext]_allVars PROVE failed => failed'
<1> USE DEF Fails, Grants
<1>1. CASE GetMemory \/ MmapFileStep \/ MmapFixedStep \/ CheckStep \/ MunmapStep \/ FreeStep
  BY <1>1 DEF GetMemory, MmapFileStep, MmapFixedStep, CheckStep, MunmapStep, FreeStep
<1>2. CASE ResizeStep \/ MprotectStep \/ DontneedStep \/ PageoutStep \/ MlockStep \/ MunlockStep
  BY <1>2 DEF ResizeStep, MprotectStep, DontneedStep, PageoutStep, MlockStep, MunlockStep
<1>3. CASE SbrkStep \/ SbrkBackStep \/ PrintBreak \/ PrintfBuffer \/ Load \/ Store \/ PrintNull
  BY <1>3 DEF SbrkStep, SbrkBackStep, PrintBreak, PrintfBuffer, Load, Store, PrintNull
<1>4. CASE BadAccess \/ RecurseStep \/ LandedStep \/ OpenStep \/ WriteFileStep \/ FopenFails
  BY <1>4, Zenon DEF BadAccess, RecurseStep, LandedStep, OpenStep, WriteFileStep, FopenFails
<1>5. CASE ReadFileStep \/ UnlinkStep \/ MapsStep \/ RusageStep \/ TrimStep \/ OverflowStep
  BY <1>5 DEF ReadFileStep, UnlinkStep, MapsStep, RusageStep, TrimStep, OverflowStep
<1>10. CASE RssStep
  BY <1>10, Zenon DEF RssStep
<1>6. CASE PagemapStep \/ UnreachableStep \/ ReturnStep \/ SigactionStep
  BY <1>6 DEF PagemapStep, UnreachableStep, ReturnStep, SigactionStep
<1>7. CASE At("measure") /\ Measuring
  BY <1>7 DEF Measuring, At, vars
<1>8. CASE MCReclaim
  BY <1>8 DEF MCReclaim, Reclaim
<1>9. CASE UNCHANGED allVars
  BY <1>9 DEF allVars, vars
<1> QED
  BY <1>1, <1>2, <1>3, <1>4, <1>5, <1>6, <1>7, <1>8, <1>9, <1>10
     DEF MCNext, MCProcess, Process, PlainStep

(* The action at each other kind of step. *)
LEMMA ActionAt ==
  ASSUME [MCNext]_allVars
  PROVE  /\ Step.op = "mmap_file" => MmapFileStep \/ Idle
         /\ Step.op = "trim" => TrimStep \/ Idle
         /\ Step.op = "overflow" => OverflowStep \/ Idle
         /\ Step.op = "mprotect" => MprotectStep \/ Idle
         /\ Step.op = "dontneed" => DontneedStep \/ Idle
         /\ Step.op = "pageout" => PageoutStep \/ Idle
         /\ Step.op = "mlock" => MlockStep \/ Idle
         /\ Step.op = "munlock" => MunlockStep \/ Idle
         /\ Step.op \in {"touch", "exec"} => Load \/ BadAccess \/ Idle
         /\ Step.op = "str" => Load \/ BadAccess \/ PrintNull \/ Idle
         /\ Step.op = "recurse" => RecurseStep \/ Idle
         /\ Step.op = "landed" => LandedStep \/ Idle
         /\ Step.op = "sigaction" => SigactionStep \/ Idle
         /\ Step.op = "open" => OpenStep \/ Idle
         /\ Step.op = "write_file" => WriteFileStep \/ Idle
         /\ Step.op = "read_file" => ReadFileStep \/ FopenFails \/ Idle
         /\ Step.op = "unlink" => UnlinkStep \/ Idle
         /\ Step.op = "rss" => RssStep \/ FopenFails \/ Idle
         /\ Step.op = "maps" => MapsStep \/ FopenFails \/ Idle
         /\ Step.op = "rusage" => RusageStep \/ Idle
         /\ Step.op = "pagemap" => PagemapStep \/ Idle
         /\ Step.op = "unreachable" => UnreachableStep \/ Idle
         /\ Step.op = "measure" => Measuring \/ Idle
<1>1. CASE Process
  BY <1>1, OpOf DEF Process, PlainStep
<1>2. CASE At("measure") /\ Measuring
  BY <1>2 DEF At
<1>3. CASE Idle
  BY <1>3
<1> QED BY <1>1, <1>2, <1>3 DEF MCNext, MCProcess, Idle

(* So every step leaves a program with what its next step expects. *)
LEMMA OwnStep ==
  ASSUME WhereInv, PagesInv, OwnInv, [MCNext]_allVars
  PROVE  OwnInv'
<1>0. program' = program
  BY GoesOn
<1>1. CASE end # "running"
  BY <1>1, EndedStays DEF OwnInv, Owns, Holds, Whole, Covered, Have
<1>2. CASE end = "running" /\ program \notin Printers /\ end' \in {"running", "returned"}
  <2>0. Owns /\ (failed => failed')
    BY <1>2, FailedStays DEF OwnInv
  <2>1. CASE GetMemory
    BY <1>2, <2>0, <2>1, OwnGet DEF OwnInv
  <2>2. CASE MmapFileStep
    BY <1>2, <2>0, <2>2, OwnMapFile DEF OwnInv
  <2>3. CASE MunmapStep
    BY <1>2, <2>0, <2>3, OwnMunmap DEF OwnInv
  <2>4. CASE FreeStep
    BY <1>2, <2>0, <2>4, OwnFree DEF OwnInv
  <2>5. CASE ResizeStep
    BY <1>2, <2>0, <2>5, OwnResize DEF OwnInv
  <2>6. CASE MprotectStep
    <3>1. InPlace
      BY <2>6, MprotectPage DEF InPlace
    <3>2. ptr' = ptr /\ Step.op \notin Movers
      BY <2>6, OpOf DEF MprotectStep, Movers
    <3> QED BY <1>2, <2>0, <3>1, <3>2, OwnEdit DEF OwnInv
  <2>7. CASE DontneedStep \/ PageoutStep \/ MlockStep \/ MunlockStep \/ Load \/ Store
    <3>1. InPlace
      <4>1. MlockStep => end' = "running"
        <5>1. MlockStep => Advance \/ Leave("error")
          BY Zenon DEF MlockStep
        <5> QED BY <1>2, <5>1 DEF Advance, Leave
      <4> QED BY <2>7, <4>1, EditSteps, EditedInPlace
    <3>2. ptr' = ptr /\ Step.op \notin Movers
      <4>1. Step.op \in {"dontneed", "pageout", "mlock", "munlock", "read", "touch", "str", "exec", "write"}
        BY <2>7, OpOf
      <4>2. ptr' = ptr
        BY <2>7 DEF DontneedStep, PageoutStep, MlockStep, MunlockStep, Load, Store
      <4> QED BY <4>1, <4>2 DEF Movers
    <3> QED BY <1>2, <2>0, <3>1, <3>2, OwnEdit DEF OwnInv
  <2>8. CASE MCReclaim
    <3>1. InPlace
      BY <2>8, EditSteps, EditedInPlace
    <3>2. ptr' = ptr /\ pc' = pc
      BY <2>8, GoesOn DEF Idle
    <3> QED BY <1>2, <2>0, <3>1, <3>2, OwnEdit DEF OwnInv
  <2>9. CASE MmapFixedStep \/ SbrkStep \/ SbrkBackStep \/ PrintfBuffer
    <3>1. Fits(program, pc)
      BY <1>2, FitsNow
    <3> QED BY <2>9, <3>1, OpOf DEF Fits, Step
  <2>10. CASE Quiet /\ ~ (GetMemory \/ MmapFileStep \/ MunmapStep \/ FreeStep \/ ResizeStep)
    <3>1. InPlace /\ ptr' = ptr
      BY <2>10, EditSteps, EditedInPlace DEF Quiet
    <3>2. Step.op \notin Movers \/ pc' = pc
      BY <2>10, StepOf, GoesOn, ActionAt DEF Movers
    <3> QED BY <1>2, <2>0, <3>1, <3>2, OwnEdit DEF OwnInv
  <2> QED
    BY <2>1, <2>2, <2>3, <2>4, <2>5, <2>6, <2>7, <2>8, <2>9, <2>10, OthersAreQuiet
<1> QED BY <1>0, <1>1, <1>2 DEF OwnInv
-----------------------------------------------------------------------------
(* The steps that can be the first to fail. *)
LEMMA NewFailure ==
  ASSUME [MCNext]_allVars, ~ failed, failed'
  PROVE  \/ GetMemory /\ Fails(Step.p)
         \/ ResizeStep /\ Fails(Step.q)
         \/ MprotectStep /\ page' = page /\ (Step.checked => Leave("error"))
         \/ Step.op \in {"mmap_file", "mmap_fixed", "sbrk", "sbrk_back", "pageout", "mlock", "pagemap",
                         "open", "write_file", "read_file", "rss", "maps", "measure"}
<1>1. CASE GetMemory
  BY <1>1, Zenon DEF GetMemory, Grants
<1>2. CASE ResizeStep
  BY <1>2, Zenon DEF ResizeStep
<1>3. CASE MprotectStep
  BY <1>3, Zenon DEF MprotectStep
<1>4. CASE CheckStep \/ MunmapStep \/ FreeStep \/ DontneedStep \/ MunlockStep \/ PrintBreak
  BY <1>4, Zenon DEF CheckStep, MunmapStep, FreeStep, DontneedStep, MunlockStep, PrintBreak
<1>5. CASE PrintfBuffer \/ Load \/ Store \/ PrintNull \/ BadAccess
  BY <1>5, Zenon DEF PrintfBuffer, Load, Store, PrintNull, BadAccess
<1>6. CASE RecurseStep \/ LandedStep \/ UnlinkStep \/ RusageStep
  BY <1>6, Zenon DEF RecurseStep, LandedStep, UnlinkStep, RusageStep
<1>7. CASE UnreachableStep \/ ReturnStep \/ SigactionStep \/ TrimStep \/ OverflowStep
  BY <1>7, Zenon DEF UnreachableStep, ReturnStep, SigactionStep, TrimStep, OverflowStep
<1>8. CASE At("measure")
  BY <1>8 DEF At
<1>9. CASE MCReclaim \/ UNCHANGED allVars
  BY <1>9 DEF MCReclaim, Reclaim, allVars, vars
<1>10. CASE MmapFileStep \/ MmapFixedStep \/ SbrkStep \/ SbrkBackStep \/ PageoutStep \/ MlockStep
            \/ PagemapStep \/ OpenStep \/ WriteFileStep \/ ReadFileStep \/ FopenFails
            \/ RssStep \/ MapsStep
  BY <1>10, OpOf
<1> QED BY <1>1, <1>2, <1>3, <1>4, <1>5, <1>6, <1>7, <1>8, <1>9, <1>10
        DEF MCNext, MCProcess, Process, PlainStep

(* The careful programs see that a call failed at their next step, and     *)
(* leave.                                                                  *)
LEMMA CarefulStep ==
  ASSUME WhereInv, PagesInv, CarefulInv, [MCNext]_allVars
  PROVE  CarefulInv'
<1>0. program' = program
  BY GoesOn
<1>1. SUFFICES ASSUME program \in Careful, failed', end' \in {"running", "returned"}
               PROVE  (end = "running" /\ Step.op = "check" /\ ptr[Step.p] = Nowhere)'
  BY <1>0 DEF CarefulInv
<1>2. program \notin Printers /\ program \notin Unchecked
      /\ program \notin {"file_mmap", "file_share_write"}
  BY <1>1 DEF Careful, Printers, Unchecked
<1>3. Fits(program, pc)
  BY <1>2, FitsNow
<1>4. CASE end # "running"
  BY <1>1, <1>4, EndedStays DEF CarefulInv
<1>5. CASE failed /\ end = "running"
  <2>1. Step.op = "check" /\ ptr[Step.p] = Nowhere
    BY <1>1, <1>5 DEF CarefulInv
  <2>2. CheckStep => end' = "error"
    BY <2>1, Zenon DEF CheckStep, Leave
  <2>3. Idle
    BY <1>1, <2>1, <2>2, StepOf
  <2>4. UNCHANGED <<pc, end, ptr>>
    BY <2>3 DEF Idle, MCReclaim, Reclaim, allVars, vars, memory
  <2> QED BY <1>0, <1>5, <2>1, <2>4 DEF Step
<1>6. CASE ~ failed /\ end = "running"
  <2>1. CASE GetMemory /\ Fails(Step.p)
    <3>1. PICK p : p = Step.p
      BY Zenon
    <3>2. Step.op = "get" /\ pc' = pc + 1 /\ end' = end
      BY <2>1, OpOf DEF GetMemory, Advance
    <3>3. p \in Pointers /\ Script[program][pc + 1] = Check(p)
      BY <1>1, <1>3, <3>1, <3>2 DEF Fits, Step
    <3>4. ptr'[p] = Nowhere
      BY <2>1, <3>1, <3>3 DEF Fails, PagesInv
    <3>5. Step' = Check(p)
      BY <1>0, <3>2, <3>3 DEF Step
    <3> QED BY <1>6, <3>2, <3>4, <3>5 DEF Check
  <2>2. CASE ResizeStep /\ Fails(Step.q)
    <3>1. PICK p : p = Step.q
      BY Zenon
    <3>2. Step.op = "resize" /\ pc' = pc + 1 /\ end' = end
      BY <2>2, OpOf DEF ResizeStep, Advance
    <3>3. p \in Pointers /\ Script[program][pc + 1] = Check(p)
      BY <1>1, <1>3, <3>1, <3>2 DEF Fits, Step
    <3>4. ptr'[p] = Nowhere
      BY <2>2, <3>1, <3>3 DEF Fails, PagesInv
    <3>5. Step' = Check(p)
      BY <1>0, <3>2, <3>3 DEF Step
    <3> QED BY <1>6, <3>2, <3>4, <3>5 DEF Check
  <2>3. CASE MprotectStep /\ (Step.checked => Leave("error"))
    <3>1. Step.checked
      BY <1>1, <1>3, <2>3, OpOf DEF Fits, Step
    <3> QED BY <1>1, <2>3, <3>1 DEF Leave
  <2>4. Step.op \notin {"mmap_file", "mmap_fixed", "sbrk", "sbrk_back", "pageout", "mlock", "pagemap",
                         "open", "write_file", "read_file", "rss", "maps", "measure"}
    BY <1>1, <1>2, <1>3 DEF Fits, Step
  <2> QED BY <1>1, <1>6, <2>1, <2>2, <2>3, <2>4, NewFailure
<1> QED BY <1>4, <1>5, <1>6 DEF WhereInv

(* A new page may be read and written. *)
LEMMA NewProt ==
  ASSUME NEW b, NEW k, NEW v
  PROVE  Page(b, k, v).prot = RW /\ Page(b, k, v) # Unmapped /\ Page(b, k, v).kind = k
         /\ Page(b, k, v).base = b /\ Page(b, k, v).val = v /\ Page(b, k, v).at = "none"
<1>1. PICK l : l = FALSE
  BY Zenon
<1>2. Page(b, k, v) = Sheet(b, k, v, RW, "none", l)
  BY <1>1, Zenon DEF Page, Sheet
<1> QED BY <1>2, SheetFields

(* The pages mmap(), malloc() and calloc() give. *)
LEMMA GetPages ==
  ASSUME PagesInv, GetMemory, ~ Fails(Step.p)
  PROVE  \E a \in Room(Step.n) :
           /\ ptr' = [ptr EXCEPT ![Step.p] = a] /\ failed' = failed
           /\ \A b \in Addresses : b \notin Span(a, Step.n) => page'[b] = page[b]
           /\ \A b \in Addresses : b \in Span(a, Step.n) =>
                /\ page'[b] # Unmapped /\ page'[b].base = a /\ page'[b].kind = Step.kind
                /\ page'[b].prot = RW /\ page'[b].val = Step.val
                /\ page'[b].at = IF Step.touched THEN "frame" ELSE "none"
<1>1. PICK n, k, v, t : n = Step.n /\ k = Step.kind /\ v = Step.val
                        /\ t = IF Step.touched THEN "frame" ELSE "none"
  BY Zenon
<1>2. PICK a \in Room(Step.n) :
        /\ page' = [b \in Addresses |->
                      IF b \in Span(a, Step.n)
                      THEN [Page(a, Step.kind, Step.val) EXCEPT
                              !.at = IF Step.touched THEN "frame" ELSE "none"]
                      ELSE page[b]]
        /\ ptr' = [ptr EXCEPT ![Step.p] = a]
        /\ failed' = failed
  BY Zenon DEF GetMemory, Grants, Put
<1>3. PICK o, y : o = Page(a, k, v) /\ y = [o EXCEPT !.at = t]
  BY Zenon
<1>4. y # Unmapped /\ y.base = a /\ y.kind = k /\ y.prot = RW /\ y.val = v /\ y.at = t
  <2>1. PICK l : l = FALSE
    BY Zenon
  <2>2. o = Sheet(a, k, v, RW, "none", l)
    BY <1>3, <2>1, Zenon DEF Page, Sheet
  <2>3. y = [o EXCEPT !.at = t]
    BY <1>3
  <2>4. y = Sheet(a, k, v, RW, t, l)
    BY <2>2, <2>3 DEF Sheet
  <2> QED BY <2>4, SheetFields
<1>5. page' = [b \in Addresses |-> IF b \in Span(a, Step.n) THEN y ELSE page[b]]
  BY <1>1, <1>2, <1>3, Zenon
<1>6. \A b \in Addresses : /\ b \notin Span(a, Step.n) => page'[b] = page[b]
                           /\ b \in Span(a, Step.n) => page'[b] = y
  BY <1>5
<1> QED BY <1>1, <1>2, <1>4, <1>6, Zenon
-----------------------------------------------------------------------------
(* The page of a file that is mapped. *)
LEMMA MapFilePages ==
  ASSUME PagesInv, MmapFileStep, ~ Fails(Step.p)
  PROVE  \E a \in Room(1) :
           /\ ptr' = [ptr EXCEPT ![Step.p] = a] /\ failed' = failed /\ fd /\ file # "empty"
           /\ \A b \in Addresses : b # a => page'[b] = page[b]
           /\ page'[a] # Unmapped /\ page'[a].base = a /\ page'[a].kind = Step.kind
           /\ page'[a].prot = RW /\ page'[a].at = "none"
<1>1. PICK a \in Room(1) :
        /\ page' = [b \in Addresses |-> IF b \in Span(a, 1) THEN Page(a, Step.kind, "file") ELSE page[b]]
        /\ ptr' = [ptr EXCEPT ![Step.p] = a]
        /\ failed' = failed /\ fd /\ file # "empty"
  BY Zenon DEF MmapFileStep, Grants, Put
<1>2. PICK y, k : y = Page(a, k, "file") /\ k = Step.kind
  BY Zenon
<1>3. y # Unmapped /\ y.base = a /\ y.kind = k /\ y.prot = RW /\ y.at = "none"
  BY <1>2, NewProt
<1>4. a \in Addresses /\ \A b \in Addresses : b \in Span(a, 1) <=> b = a
  BY AddressesAre DEF Room, Span
<1>5. page' = [b \in Addresses |-> IF b \in Span(a, 1) THEN y ELSE page[b]]
  BY <1>1, <1>2, Zenon
<1>6. page'[a] = y /\ \A b \in Addresses : b # a => page'[b] = page[b]
  BY <1>4, <1>5
<1> QED BY <1>1, <1>2, <1>3, <1>6, Zenon

(* The page mapped at an address. *)
LEMMA MapFixedPages ==
  ASSUME PagesInv, MmapFixedStep, ~ Fails(Step.p), Step.at \in Pointers
  PROVE  LET a == ptr[Step.at]
         IN  /\ a \in Addresses /\ (Step.flag = "NOREPLACE" => page[a] = Unmapped)
             /\ ptr' = [ptr EXCEPT ![Step.p] = a] /\ failed' = failed
             /\ \A b \in Addresses : b # a => page'[b] = page[b]
             /\ page'[a] # Unmapped /\ page'[a].kind = "map" /\ page'[a].prot = RW
             /\ seen' = Append(seen, "mapped") /\ brk' = brk
<1> DEFINE a == ptr[Step.at]
<1>1. /\ page' = [b \in Addresses |-> IF b \in Span(a, 1) THEN Page(a, "map", "zero") ELSE page[b]]
      /\ ptr' = [ptr EXCEPT ![Step.p] = a] /\ a # Nowhere
      /\ Step.flag = "NOREPLACE" => page[a] = Unmapped
      /\ failed' = failed /\ seen' = Append(seen, "mapped") /\ brk' = brk
  BY Zenon DEF MmapFixedStep, Grants, Put, Shown
<1>2. PICK y : y = Page(a, "map", "zero")
  BY Zenon
<1>3. y # Unmapped /\ y.kind = "map" /\ y.prot = RW
  BY <1>2, NewProt
<1>4. a \in Addresses
  BY <1>1 DEF PagesInv
<1>5. \A b \in Addresses : b \in Span(a, 1) <=> b = a
  BY <1>4, AddressesAre DEF Span
<1>6. page'[a] = y /\ \A b \in Addresses : b # a => page'[b] = page[b]
  BY <1>1, <1>2, <1>4, <1>5
<1> QED BY <1>1, <1>3, <1>4, <1>6, Zenon

(* The pages sbrk() adds. *)
LEMMA SbrkPages ==
  ASSUME PagesInv, SbrkStep, ~ Fails(Step.p)
  PROVE  /\ ptr' = [ptr EXCEPT ![Step.p] = brk] /\ failed' = failed /\ brk' = brk + Step.n
         /\ brk + Step.n <= BrkPages
         /\ \A b \in Addresses : b \notin Span(brk, Step.n) => page'[b] = page[b]
         /\ \A b \in Addresses : b \in Span(brk, Step.n) =>
              page'[b] # Unmapped /\ page'[b].kind = "brk" /\ page'[b].prot = RW
<1>1. /\ page' = [b \in Addresses |-> IF b \in Span(brk, Step.n) THEN Page(brk, "brk", "zero") ELSE page[b]]
      /\ ptr' = [ptr EXCEPT ![Step.p] = brk] /\ failed' = failed /\ brk' = brk + Step.n
      /\ brk + Step.n <= BrkPages
  BY Zenon DEF SbrkStep, Put
<1>2. PICK y : y = Page(brk, "brk", "zero")
  BY Zenon
<1>3. y # Unmapped /\ y.kind = "brk" /\ y.prot = RW
  BY <1>2, NewProt
<1>4. \A b \in Addresses : /\ b \notin Span(brk, Step.n) => page'[b] = page[b]
                           /\ b \in Span(brk, Step.n) => page'[b] = y
  BY <1>1, <1>2
<1> QED BY <1>1, <1>3, <1>4, Zenon

(* The page of printf()'s buffer. *)
LEMMA PrintfPages ==
  ASSUME PagesInv, PrintfBuffer, brk \in 0 .. BrkPages
  PROVE  /\ ptr' = ptr /\ failed' = failed
         /\ \E a \in Addresses :
              /\ \A b \in Addresses : b # a => page'[b] = page[b]
              /\ page'[a] # Unmapped /\ page'[a].kind = "library" /\ page'[a].prot = RW
              /\ (a = brk /\ brk' = brk + 1) \/ (a \in Room(1) /\ brk' = brk)
<1>0. ptr' = ptr /\ failed' = failed
  BY DEF PrintfBuffer
<1>1. ASSUME NEW a \in Addresses,
             page' = [b \in Addresses |-> IF b \in Span(a, 1) THEN Page(b, "library", "buffer") ELSE page[b]]
      PROVE  /\ \A b \in Addresses : b # a => page'[b] = page[b]
             /\ page'[a] # Unmapped /\ page'[a].kind = "library" /\ page'[a].prot = RW
  <2>1. \A b \in Addresses : b \in Span(a, 1) <=> b = a
    BY AddressesAre DEF Span
  <2>2. page'[a] = Page(a, "library", "buffer") /\ \A b \in Addresses : b # a => page'[b] = page[b]
    BY <1>1, <2>1
  <2> QED BY <2>2, NewProt
<1>2. \/ brk' = brk + 1 /\ page' = [b \in Addresses |-> IF b \in Span(brk, 1)
                                        THEN Page(b, "library", "buffer") ELSE page[b]]
      \/ \E a \in Room(1) : /\ brk' = brk
                            /\ page' = [b \in Addresses |-> IF b \in Span(a, 1)
                                        THEN Page(b, "library", "buffer") ELSE page[b]]
  BY Zenon DEF PrintfBuffer, Put
<1>3. CASE brk' = brk + 1 /\ page' = [b \in Addresses |-> IF b \in Span(brk, 1)
                                        THEN Page(b, "library", "buffer") ELSE page[b]]
  <2>1. brk \in Addresses
    BY AddressesAre
  <2>2. /\ \A b \in Addresses : b # brk => page'[b] = page[b]
        /\ page'[brk] # Unmapped /\ page'[brk].kind = "library" /\ page'[brk].prot = RW
    BY <1>1, <1>3, <2>1
  <2> QED BY <1>0, <1>3, <2>1, <2>2
<1>4. ASSUME NEW a \in Room(1), brk' = brk,
             page' = [b \in Addresses |-> IF b \in Span(a, 1)
                                        THEN Page(b, "library", "buffer") ELSE page[b]]
      PROVE  \E x \in Addresses :
              /\ \A b \in Addresses : b # x => page'[b] = page[b]
              /\ page'[x] # Unmapped /\ page'[x].kind = "library" /\ page'[x].prot = RW
              /\ (x = brk /\ brk' = brk + 1) \/ (x \in Room(1) /\ brk' = brk)
  <2>1. a \in Addresses
    BY AddressesAre DEF Room
  <2>2. /\ \A b \in Addresses : b # a => page'[b] = page[b]
        /\ page'[a] # Unmapped /\ page'[a].kind = "library" /\ page'[a].prot = RW
    BY <1>1, <1>4, <2>1
  <2> QED BY <1>4, <2>1, <2>2
<1> QED BY <1>0, <1>2, <1>3, <1>4

(* The pages a resize moves, makes and drops. *)
LEMMA ResizePages ==
  ASSUME WhereInv, PagesInv, Owns, ResizeStep, ~ Fails(Step.q), program \notin Printers
  PROVE  \E c \in MapArea :
           /\ ptr' = [ptr EXCEPT ![Step.q] = c] /\ failed' = failed
           /\ \A b \in Addresses : b \notin Span(c, Step.m) =>
                page'[b] = Unmapped \/ page'[b] = page[b]
           /\ \A b \in Span(c, Step.m) :
                /\ b \in Addresses /\ page'[b] # Unmapped /\ page'[b].base = c
                /\ \/ /\ ptr[Step.p] + b - c \in Span(ptr[Step.p], Step.n) /\ ptr[Step.p] # Nowhere
                      /\ page'[b].prot = page[ptr[Step.p] + b - c].prot
                      /\ page'[b].val = page[ptr[Step.p] + b - c].val
                      /\ page'[b].kind = page[ptr[Step.p] + b - c].kind
                   \/ /\ ptr[Step.p] = Nowhere \/ b - c >= Step.n
                      /\ page'[b].prot = RW /\ page'[b].kind = Step.kind
                      /\ page'[b].val = IF Step.kind = "map" THEN "zero" ELSE "junk"
<1> DEFINE p == Step.p
           q == Step.q
           n == Step.n
           m == Step.m
           k == Step.kind
           a == ptr[p]
           others == [b \in Addresses |-> IF a # Nowhere /\ b \in Span(a, n)
                                          THEN Unmapped ELSE page[b]]
           same == {i \in 0 .. m - 1 : i < n}
           fresh == IF k = "map" THEN "zero" ELSE "junk"
<1> HIDE DEF p, q, n, m, k
<1>1. PICK c \in MapArea :
        /\ \A b \in Span(c, m) : b \in MapArea /\ others[b] = Unmapped
        /\ page' = [b \in Addresses |->
                      IF b \notin Span(c, m) THEN others[b]
                      ELSE IF a # Nowhere /\ b - c \in same
                           THEN [page[a + b - c] EXCEPT !.base = c]
                           ELSE Page(c, k, fresh)]
        /\ ptr' = [ptr EXCEPT ![q] = c]
        /\ failed' = failed
  BY Zenon DEF ResizeStep, p, q, n, m, k
<1>2. c \in Addresses /\ c \in Int
  BY AddressesAre
<1>3. p \in Pointers /\ n \in Nat /\ n > 0 /\ m \in Nat /\ m > 0 /\ Have(p) = n
  <2>1. Fits(program, pc) /\ Step.op = "resize"
    BY FitsNow, OpOf
  <2> QED BY <2>1 DEF Fits, Step, Have, p, n, m
<1>4. \A b \in Addresses : b \notin Span(c, m) => page'[b] = Unmapped \/ page'[b] = page[b]
  BY <1>1
<1>5. ASSUME NEW b \in Span(c, m)
      PROVE  /\ b \in Addresses /\ page'[b] # Unmapped /\ page'[b].base = c
             /\ \/ /\ a + b - c \in Span(a, n) /\ a # Nowhere
                   /\ page'[b].prot = page[a + b - c].prot
                   /\ page'[b].val = page[a + b - c].val
                   /\ page'[b].kind = page[a + b - c].kind
                \/ /\ a = Nowhere \/ b - c >= n
                   /\ page'[b].prot = RW /\ page'[b].kind = k
                   /\ page'[b].val = fresh
  <2>1. b \in Addresses /\ b \in Int
    BY <1>1, AddressesAre
  <2>2. CASE a # Nowhere /\ b - c \in same
    <3>1. PICK x, y : x = page[a + b - c] /\ y = [x EXCEPT !.base = c]
      BY Zenon
    <3>2. page'[b] = y
      BY <1>1, <2>1, <2>2, <3>1
    <3>3. Holds(p) /\ Whole(p)
      BY <1>3, <2>2 DEF Owns, Holds
    <3>4. a \in Int
      BY <1>3, <2>2, AddressesAre DEF PagesInv
    <3>5. a + b - c \in Span(a, n)
      BY <1>2, <1>3, <2>1, <2>2, <3>4 DEF Span
    <3>6. a + b - c \in Addresses /\ x # Unmapped
      BY <1>3, <3>1, <3>3, <3>5 DEF Whole
    <3>7. IsPage(x) /\ y = [x EXCEPT !.base = c]
      BY <3>1, <3>6 DEF PagesInv
    <3>8. y # Unmapped /\ y.base = c /\ y.kind = x.kind /\ y.prot = x.prot /\ y.val = x.val
      BY <3>6, <3>7, FieldEdits
    <3> QED BY <2>1, <2>2, <3>1, <3>2, <3>5, <3>8, Zenon
  <2>3. CASE ~ (a # Nowhere /\ b - c \in same)
    <3>1. PICK v, y : v = fresh /\ y = Page(c, k, v)
      BY Zenon
    <3>2. page'[b] = y
      BY <1>1, <2>1, <2>3, <3>1
    <3>3. a = Nowhere \/ b - c >= n
      <4>1. b - c \in 0 .. m - 1
        BY <1>2, <1>3, <2>1 DEF Span
      <4> QED BY <1>3, <2>3, <4>1
    <3> HIDE DEF fresh
    <3>4. y # Unmapped /\ y.base = c /\ y.kind = k /\ y.prot = RW /\ y.val = v
      BY <3>1, NewProt
    <3> QED BY <2>1, <3>1, <3>2, <3>3, <3>4, Zenon
  <2> QED BY <2>2, <2>3
<1>6. ptr' = [ptr EXCEPT ![q] = c] /\ failed' = failed
  BY <1>1
<1> HIDE DEF others, same, fresh
<1> QED BY <1>4, <1>5, <1>6, Zenon DEF p, q, n, m, k, fresh
-----------------------------------------------------------------------------
(* The break lies in its area. *)
LEMMA BreakIn == ASSUME MemoryInv PROVE brk \in 0 .. BrkPages
<1>1. program \in Printers => brk \in 0 .. 3
  BY DEF MemoryInv, Printers, FixedInv, BreakInv
<1> QED BY <1>1, AddressesAre DEF MemoryInv

(* Actions are taken by a program that runs. *)
LEMMA RunningOf ==
  ASSUME ResizeStep \/ FreeStep \/ BadAccess \/ Load \/ Store PROVE end = "running"
BY Zenon DEF ResizeStep, FreeStep, BadAccess, Load, Store, At, Accesses

(* Only mprotect() changes what may be done with a page. *)
LEMMA ProtStep ==
  ASSUME MemoryInv, OwnInv, ProtInv, [MCNext]_allVars
  PROVE  ProtInv'
<1>0. program' = program /\ WhereInv /\ PagesInv /\ brk \in 0 .. BrkPages
  BY GoesOn, BreakIn DEF MemoryInv
<1>1. SUFFICES ASSUME program \notin Guarded, NEW x \in Addresses, page'[x] # Unmapped
               PROVE  page'[x].prot = RW
  BY <1>0 DEF ProtInv
<1>2. \A b \in Addresses : page[b] # Unmapped => page[b].prot = RW
  BY <1>1 DEF ProtInv
<1>3. page'[x] = page[x] => page'[x].prot = RW
  BY <1>1, <1>2
<1>4. CASE GetMemory
  <2>1. CASE Fails(Step.p)
    BY <1>3, <2>1 DEF Fails
  <2>2. CASE ~ Fails(Step.p)
    BY <1>0, <1>3, <1>4, <2>2, GetPages
  <2> QED BY <2>1, <2>2
<1>5. CASE MmapFileStep
  <2>1. CASE Fails(Step.p)
    BY <1>3, <2>1 DEF Fails
  <2>2. CASE ~ Fails(Step.p)
    BY <1>0, <1>3, <1>5, <2>2, MapFilePages
  <2> QED BY <2>1, <2>2
<1>6. CASE MmapFixedStep
  <2>1. CASE Fails(Step.p)
    BY <1>3, <2>1 DEF Fails
  <2>2. CASE ~ Fails(Step.p)
    <3>1. Step.at \in Pointers
      <4>1. program = "fixed_noreplace"
        BY <1>0, <1>6, OpOf, StepFacts DEF WhereInv, Step
      <4>2. pc \in 1 .. 8 /\ Step = fixed_noreplace[pc]
        BY <1>0, <4>1, ScriptOf, FixedScript DEF Step, WhereInv
      <4>3. pc \in {4, 6}
        BY <1>6, <4>2, FixedScript, OpOf DEF Mmap, Get, Munmap, Printf, Check, Return, Do
      <4> QED BY <4>2, <4>3, FixedScript DEF MmapFixed, Pointers
    <3> QED BY <1>0, <1>3, <1>6, <2>2, <3>1, MapFixedPages
  <2> QED BY <2>1, <2>2
<1>7. CASE SbrkStep
  <2>1. CASE Fails(Step.p)
    BY <1>3, <2>1 DEF Fails
  <2>2. CASE ~ Fails(Step.p)
    BY <1>0, <1>3, <1>7, <2>2, SbrkPages
  <2> QED BY <2>1, <2>2
<1>8. CASE PrintfBuffer
  BY <1>0, <1>3, <1>8, PrintfPages
<1>9. CASE ResizeStep
  <2>1. CASE Fails(Step.q)
    BY <1>3, <2>1 DEF Fails
  <2>2. CASE ~ Fails(Step.q)
    <3>1. program \notin Printers /\ Owns
      <4>1. program \in Resizers
        BY <1>0, <1>9, OpOf, StepFacts DEF WhereInv, Step
      <4> QED BY <1>9, <4>1, RunningOf DEF Resizers, Printers, OwnInv
    <3>2. PICK c \in MapArea :
           /\ \A b \in Addresses : b \notin Span(c, Step.m) =>
                page'[b] = Unmapped \/ page'[b] = page[b]
           /\ \A b \in Span(c, Step.m) :
                \/ /\ ptr[Step.p] + b - c \in Span(ptr[Step.p], Step.n) /\ ptr[Step.p] # Nowhere
                   /\ page'[b].prot = page[ptr[Step.p] + b - c].prot
                \/ page'[b].prot = RW
      BY <1>0, <1>9, <2>2, <3>1, ResizePages
    <3>3. ptr[Step.p] # Nowhere =>
            \A b \in Span(ptr[Step.p], Step.n) : b \in Addresses /\ page[b] # Unmapped
      <4>1. PICK p, n : p = Step.p /\ n = Step.n
        BY Zenon
      <4>2. p \in Pointers /\ n > 0 /\ Have(p) = n
        <5>1. Fits(program, pc) /\ Step.op = "resize"
          BY <1>0, <1>9, <3>1, FitsNow, OpOf
        <5> QED BY <4>1, <5>1 DEF Fits, Step, Have
      <4>3. ptr[p] # Nowhere => Whole(p)
        BY <3>1, <4>2 DEF Owns
      <4> QED BY <4>1, <4>2, <4>3 DEF Whole
    <3> QED BY <1>1, <1>2, <1>3, <3>2, <3>3
  <2> QED BY <2>1, <2>2
<1>10. CASE MprotectStep
  <2>1. Step.op = "mprotect" /\ program \in Guarded
    <3>1. Step.op = "mprotect"
      BY <1>10, OpOf
    <3>2. program \notin Printers
      <4>1. CASE program = "fixed_noreplace"
        <5>1. pc \in 1 .. 8 /\ Step = fixed_noreplace[pc]
          BY <1>0, <4>1, ScriptOf, FixedScript DEF Step, WhereInv
        <5> QED BY <3>1, <5>1, FixedScript
                DEF Mmap, Get, Munmap, Printf, MmapFixed, Check, Return, Do
      <4>2. CASE program = "brk_directly"
        <5>1. pc \in 1 .. 10 /\ Step = brk_directly[pc]
          BY <1>0, <4>2, ScriptOf, BreakScript DEF Step, WhereInv
        <5> QED BY <3>1, <5>1, BreakScript
                DEF Brk, Printf, Sbrk, Check, Write, SbrkBack, Return, Do
      <4> QED BY <4>1, <4>2 DEF Printers
    <3> QED BY <1>0, <3>1, <3>2, FitsNow DEF Fits, Step
  <2> QED BY <1>1, <2>1
<1>11. CASE Edited
  BY <1>1, <1>2, <1>11 DEF Edited, Alike
<1>12. CASE page'[x] = Unmapped \/ page'[x] = page[x]
  BY <1>1, <1>3, <1>12
<1>13. MunmapStep \/ FreeStep \/ SbrkBackStep => page'[x] = Unmapped \/ page'[x] = page[x]
  BY DEF MunmapStep, FreeStep, SbrkBackStep, Drop
<1>14. MlockStep => Edited \/ page'[x] = Unmapped \/ page'[x] = page[x]
  <2>1. MlockStep => end' = "running" \/ page' = Drop(Block(ptr[Step.p]))
    <3>1. MlockStep => (Advance /\ end = "running") \/ page' = Drop(Block(ptr[Step.p]))
      BY Zenon DEF MlockStep, At
    <3> QED BY <3>1 DEF Advance
  <2> QED BY <1>0, <2>1, EditSteps DEF Drop
<1>15. Quiet \/ Load \/ Store \/ DontneedStep \/ PageoutStep \/ MunlockStep \/ MCReclaim => Edited
  BY <1>0, EditSteps DEF Quiet
<1> QED BY <1>4, <1>5, <1>6, <1>7, <1>8, <1>9, <1>10, <1>11, <1>12, <1>13, <1>14, <1>15,
           OthersAreQuiet
-----------------------------------------------------------------------------
(* 05_mprotect_guard.c, step by step. *)
LEMMA GuardSteps ==
  ASSUME WhereInv, program = "mprotect_guard"
  PROVE  /\ pc \in 1 .. 8
         /\ pc = 1 => Step.op = "get" /\ Step.p = "p" /\ Step.n = 3
         /\ pc = 2 => Step.op = "mprotect" /\ Step.p = "p" /\ Step.k = 2 /\ Step.prot = {}
         /\ pc = 3 => Step.op = "mprotect" /\ Step.p = "p" /\ Step.k = 0 /\ Step.prot = {}
         /\ pc = 4 => Step.op = "sigaction" /\ Step.how = "exit"
         /\ pc = 5 => Step.op = "write" /\ Step.p = "p" /\ Step.k = 1
         /\ pc = 6 => Step.op = "write" /\ Step.p = "p" /\ Step.k = 2
                      /\ Script[program][pc + 1] = Unreachable
         /\ pc = 7 => Step.op = "unreachable"
         /\ pc = 8 => Step.op = "return"
<1>1. Script[program] = mprotect_guard
  BY ScriptOf
<1>2. pc \in 1 .. 8 /\ Step = mprotect_guard[pc]
  BY <1>1, MprotectGuardScript, Zenon DEF WhereInv, Step
<1>3. PICK f : f = FALSE
  BY Zenon
<1>4. mprotect_guard[2] = Mprotect("p", 2, {}, f) /\ mprotect_guard[3] = Mprotect("p", 0, {}, f)
      /\ mprotect_guard[4] = Sigaction("exit", f, f)
  BY <1>3, MprotectGuardScript, Zenon
<1>5. mprotect_guard[1] = Mmap("p", 3) /\ mprotect_guard[5] = Write("p", 1, "0x42")
      /\ mprotect_guard[6] = Write("p", 2, "X") /\ mprotect_guard[7] = Unreachable
      /\ mprotect_guard[8] = Return
  BY MprotectGuardScript, Zenon
<1>6. /\ pc = 2 => Step.op = "mprotect" /\ Step.p = "p" /\ Step.k = 2 /\ Step.prot = {}
      /\ pc = 3 => Step.op = "mprotect" /\ Step.p = "p" /\ Step.k = 0 /\ Step.prot = {}
      /\ pc = 4 => Step.op = "sigaction" /\ Step.how = "exit"
  BY <1>2, <1>4 DEF Mprotect, Sigaction
<1>7. PICK g : Mmap("p", 3) = Get("p", 3, "map", "zero", g)
  BY Zenon DEF Mmap
<1>8. /\ pc = 1 => Step.op = "get" /\ Step.p = "p" /\ Step.n = 3
      /\ pc = 5 => Step.op = "write" /\ Step.p = "p" /\ Step.k = 1
      /\ pc = 6 => Step.op = "write" /\ Step.p = "p" /\ Step.k = 2
                   /\ Script[program][pc + 1] = Unreachable
      /\ pc = 7 => Step.op = "unreachable"
      /\ pc = 8 => Step.op = "return"
  BY <1>1, <1>2, <1>5, <1>7 DEF Get, Write, Unreachable, Return, Do
<1> QED BY <1>2, <1>6, <1>8

(* 01_mprotect_jit.c *)
LEMMA JitSteps ==
  ASSUME WhereInv, program = "mprotect_jit"
  PROVE  /\ pc \in 1 .. 7
         /\ pc = 1 => Step.op = "get" /\ Step.p = "p" /\ Step.n = 1
         /\ pc = 2 => Step.op = "check" /\ Step.p = "p"
         /\ pc = 3 => Step.op = "write" /\ Step.p = "p" /\ Step.k = 0 /\ Step.v = "code"
         /\ pc = 4 => Step.op = "mprotect" /\ Step.p = "p" /\ Step.k = 0 /\ Step.prot = {"r", "x"}
                      /\ Step.checked
         /\ pc = 5 => Step.op = "exec" /\ Step.p = "p" /\ Step.k = 0
         /\ pc = 6 => Step.op = "munmap"
         /\ pc = 7 => Step.op = "return"
<1>1. Script[program] = mprotect_jit
  BY ScriptOf
<1>2. pc \in 1 .. 7 /\ Step = mprotect_jit[pc]
  BY <1>1, MprotectJitScript, Zenon DEF WhereInv, Step
<1>3. PICK t : t = TRUE
  BY Zenon
<1>4. mprotect_jit[4] = Mprotect("p", 0, {"r", "x"}, t)
  BY <1>3, MprotectJitScript, Zenon
<1>5. pc = 4 => Step.op = "mprotect" /\ Step.p = "p" /\ Step.k = 0 /\ Step.prot = {"r", "x"}
                /\ Step.checked = t
  BY <1>2, <1>4 DEF Mprotect
<1>6. mprotect_jit[1] = Mmap("p", 1) /\ mprotect_jit[2] = Check("p")
      /\ mprotect_jit[3] = Write("p", 0, "code") /\ mprotect_jit[5] = Exec("p")
      /\ mprotect_jit[6] = Munmap("p", 1) /\ mprotect_jit[7] = Return
  BY MprotectJitScript, Zenon
<1>7. PICK g : Mmap("p", 1) = Get("p", 1, "map", "zero", g)
  BY Zenon DEF Mmap
<1>8. /\ pc = 1 => Step.op = "get" /\ Step.p = "p" /\ Step.n = 1
      /\ pc = 2 => Step.op = "check" /\ Step.p = "p"
      /\ pc = 3 => Step.op = "write" /\ Step.p = "p" /\ Step.k = 0 /\ Step.v = "code"
      /\ pc = 5 => Step.op = "exec" /\ Step.p = "p" /\ Step.k = 0
      /\ pc = 6 => Step.op = "munmap"
      /\ pc = 7 => Step.op = "return"
  BY <1>2, <1>6, <1>7 DEF Get, Check, Write, Exec, Munmap, Return, Do
<1> QED BY <1>2, <1>3, <1>5, <1>8, Zenon

(* 03_segfault_handler.c *)
LEMMA SegfaultSteps ==
  ASSUME WhereInv, program = "segfault_handler"
  PROVE  /\ pc \in 1 .. 4
         /\ pc = 1 => Step.op = "sigaction" /\ Step.how = "exit"
         /\ pc = 2 => Step.op = "write" /\ Step.p = "NULL" /\ Script[program][pc + 1] = Unreachable
         /\ pc = 3 => Step.op = "unreachable"
         /\ pc = 4 => Step.op = "return"
<1>1. Script[program] = segfault_handler
  BY ScriptOf
<1>2. pc \in 1 .. 4 /\ Step = segfault_handler[pc]
  BY <1>1, SegfaultHandlerScript, Zenon DEF WhereInv, Step
<1>3. PICK t, f : t = TRUE /\ f = FALSE
  BY Zenon
<1>4. segfault_handler[1] = Sigaction("exit", t, f)
  BY <1>3, SegfaultHandlerScript, Zenon
<1>5. segfault_handler[2] = Write("NULL", 0, "42") /\ segfault_handler[3] = Unreachable
      /\ segfault_handler[4] = Return
  BY SegfaultHandlerScript, Zenon
<1> QED BY <1>1, <1>2, <1>4, <1>5 DEF Sigaction, Write, Unreachable, Return, Do

(* 06_w_xor_x.c *)
LEMMA WXorXSteps ==
  ASSUME WhereInv, program = "w_xor_x"
  PROVE  /\ pc \in 1 .. 6
         /\ pc = 1 => Step.op = "sigaction" /\ Step.how = "exit"
         /\ pc = 2 => Step.op = "get" /\ Step.p = "p" /\ Step.n = 1
         /\ pc = 3 => Step.op = "write" /\ Step.p = "p" /\ Step.k = 0
         /\ pc = 4 => Step.op = "exec" /\ Step.p = "p" /\ Step.k = 0
                      /\ Script[program][pc + 1] = Unreachable
         /\ pc = 5 => Step.op = "unreachable"
         /\ pc = 6 => Step.op = "return"
<1>1. Script[program] = w_xor_x
  BY ScriptOf
<1>2. pc \in 1 .. 6 /\ Step = w_xor_x[pc]
  BY <1>1, WXorXScript, Zenon DEF WhereInv, Step
<1>3. PICK f : f = FALSE
  BY Zenon
<1>4. w_xor_x[1] = Sigaction("exit", f, f)
  BY <1>3, WXorXScript, Zenon
<1>5. w_xor_x[2] = Mmap("p", 1) /\ w_xor_x[3] = Write("p", 0, "ret") /\ w_xor_x[4] = Exec("p")
      /\ w_xor_x[5] = Unreachable /\ w_xor_x[6] = Return
  BY WXorXScript, Zenon
<1>6. PICK g : Mmap("p", 1) = Get("p", 1, "map", "zero", g)
  BY Zenon DEF Mmap
<1> QED BY <1>1, <1>2, <1>4, <1>5, <1>6 DEF Sigaction, Get, Write, Exec, Unreachable, Return, Do

(* 02_recursion_depth.c and 04_stack_overflow.c install a handler that     *)
(* jumps and has its own stack, and come back at their fourth step.        *)
LEMMA JumpSteps ==
  ASSUME WhereInv, program \in Jumpers
  PROVE  /\ pc \in 1 .. 5 /\ Landing = 4
         /\ pc = 1 => Step.op = "sigaction" /\ Step.how = "jump" /\ Step.alt = TRUE
         /\ pc = 2 => Step.op = "recurse"
         /\ pc = 3 => Step.op = "return"
         /\ pc = 4 => Step.op = "landed"
         /\ pc = 5 => Step.op = "return"
<1>1. /\ DOMAIN Script[program] = 1 .. 5
      /\ Script[program][1].op = "sigaction" /\ Script[program][2] = Recurse
      /\ Script[program][3] = Return
      /\ Script[program][4] = Landed /\ Script[program][5] = Return
  BY JumpScripts
<1>2. pc \in 1 .. 5 /\ Step = Script[program][pc]
  BY <1>1, Zenon DEF WhereInv, Step
<1>3. PICK t, f : t = TRUE /\ f = FALSE
  BY Zenon
<1>4. Script[program][1] = Sigaction("jump", t, f) \/ Script[program][1] = Sigaction("jump", t, t)
  <2>2. CASE program = "recursion_depth"
    <3>1. Script[program] = <<Sigaction("jump", t, f), Recurse, Return, Landed, Return>>
      BY <1>3, <2>2, ScriptOf, Zenon DEF recursion_depth
    <3> QED BY <3>1
  <2>3. CASE program = "stack_overflow"
    <3>1. Script[program] = <<Sigaction("jump", t, t), Recurse, Return, Landed, Return>>
      BY <1>3, <2>3, ScriptOf, Zenon DEF stack_overflow
    <3> QED BY <3>1
  <2> QED BY <2>2, <2>3 DEF Jumpers
<1>5. pc = 1 => Step.op = "sigaction" /\ Step.how = "jump" /\ Step.alt = t
  BY <1>2, <1>4 DEF Sigaction
<1>6. /\ pc = 2 => Step.op = "recurse"
      /\ pc = 3 => Step.op = "return"
      /\ pc = 4 => Step.op = "landed"
      /\ pc = 5 => Step.op = "return"
  BY <1>1, <1>2 DEF Recurse, Landed, Return, Do
<1>7. \A k \in DOMAIN Script[program] : Script[program][k].op = "landed" <=> k = 4
  <2>1. \A k \in 1 .. 5 : k = 1 \/ k = 2 \/ k = 3 \/ k = 4 \/ k = 5
    OBVIOUS
  <2> QED BY <1>1, <2>1 DEF Recurse, Landed, Return, Do
<1>8. Landing = 4
  <2>1. 4 \in DOMAIN Script[program]
    BY <1>1
  <2>2. \E k \in DOMAIN Script[program] : Script[program][k].op = "landed"
    BY <1>7, <2>1
  <2>3. Landing \in DOMAIN Script[program] /\ Script[program][Landing].op = "landed"
    BY <2>2, Zenon DEF Landing
  <2> QED BY <1>7, <2>3
<1>9. pc = 1 => Step.alt = TRUE
  BY <1>3, <1>5, Zenon
<1> QED BY <1>2, <1>5, <1>6, <1>8, <1>9

(* The steps of the two programs that print their own addresses. *)
LEMMA PrinterOps ==
  ASSUME WhereInv, program \in Printers
  PROVE  Step.op \in {"get", "munmap", "printf", "mmap_fixed", "check", "return",
                      "brk", "sbrk", "write", "sbrk_back"}
<1>1. CASE program = "fixed_noreplace"
  <2>1. pc \in 1 .. 8 /\ Step = fixed_noreplace[pc]
    BY <1>1, ScriptOf, FixedScript DEF Step, WhereInv
  <2> QED BY <2>1, FixedScript DEF Mmap, Get, Munmap, Printf, MmapFixed, Check, Return, Do
<1>2. CASE program = "brk_directly"
  <2>1. pc \in 1 .. 10 /\ Step = brk_directly[pc]
    BY <1>2, ScriptOf, BreakScript DEF Step, WhereInv
  <2> QED BY <2>1, BreakScript DEF Brk, Printf, Sbrk, Check, Write, SbrkBack, Return, Do
<1> QED BY <1>1, <1>2 DEF Printers
-----------------------------------------------------------------------------
(* The kernel's reclaim, and nothing at all, change neither program,       *)
(* handler nor files.                                                      *)
LEMMA IdleIs ==
  ASSUME Idle
  PROVE  UNCHANGED <<program, pc, end, ptr, brk, kept, refused, file, fd, handler,
                     counter, faults, seen, failed>>
BY DEF Idle, MCReclaim, Reclaim, allVars, vars, memory, files, log

(* Handlers are installed by sigaction(), and run once or again. *)
LEMMA HandlerStep ==
  ASSUME WhereInv, HandlerInv, [MCNext]_allVars
  PROVE  HandlerInv'
<1>0. program' = program /\ Default.how = "default" /\ Jumpers \cap Faulters = {}
  BY GoesOn DEF Default, Jumpers, Faulters
<1>1. CASE program \in Jumpers
  <2>1. SUFFICES ASSUME end' = "running"
                 PROVE  pc' # 3 /\ (pc' = 2 => handler'.how = "jump" /\ handler'.alt = TRUE)
    <3>1. program \notin Faulters /\
          program \notin {"mprotect_guard", "segfault_handler", "w_xor_x"}
      BY <1>1 DEF Jumpers, Faulters
    <3> QED BY <1>0, <1>1, <3>1 DEF HandlerInv
  <2>2. CASE Idle \/ end # "running"
    <3>1. UNCHANGED <<program, pc, end, handler>>
      BY <2>2, IdleIs, EndedStays
    <3> QED BY <1>1, <2>1, <3>1, Zenon DEF HandlerInv
  <2>3. CASE ~ Idle /\ end = "running"
    <3>0. /\ pc \in 1 .. 5 /\ Landing = 4 /\ pc # 3
          /\ pc = 1 => Step.op = "sigaction" /\ Step.how = "jump" /\ Step.alt = TRUE
          /\ pc = 2 => Step.op = "recurse"
          /\ pc = 4 => Step.op = "landed"
          /\ pc = 5 => Step.op = "return"
          /\ pc = 2 => handler.how = "jump" /\ handler.alt = TRUE
      BY <1>1, <2>3, JumpSteps DEF HandlerInv
    <3>1. CASE pc = 1
      <4>1. SigactionStep
        BY <2>3, <3>0, <3>1, ActionAt
      <4>2. pc' = 2 /\ handler' = [how |-> Step.how, alt |-> Step.alt, once |-> Step.once]
        BY <3>1, <4>1 DEF SigactionStep
      <4>3. handler'.how = "jump" /\ handler'.alt = Step.alt
        BY <3>0, <3>1, <4>2
      <4>4. handler'.alt = TRUE
        BY <3>0, <3>1, <4>3, Zenon
      <4> QED BY <4>2, <4>3, <4>4
    <3>2. CASE pc = 2
      <4>1. RecurseStep
        BY <2>3, <3>0, <3>2, ActionAt
      <4>2. CASE Stays
        BY <3>0, <3>2, <4>2, Zenon DEF Stays
      <4>3. CASE Segv(TRUE)
        <5>1. (handler.how # "default" /\ (TRUE => handler.alt)) = TRUE
          BY <3>0, <3>2, Zenon
        <5>2. (IF (handler.how # "default" /\ (TRUE => handler.alt)) /\ handler.how = "jump"
               THEN Landing ELSE pc) = Landing
          BY <3>0, <3>2, <5>1, Zenon
        <5>3. pc' = Landing
          BY <4>3, <5>2, Zenon DEF Segv
        <5>4. Landing = 4
          BY <3>0
        <5>5. pc' = 4
          BY <5>3, <5>4
        <5>6. pc' # 3 /\ pc' # 2
          BY <5>5
        <5> QED BY <5>6, Zenon
      <4>4. Stays \/ Segv(TRUE)
        BY <4>1 DEF RecurseStep, Stays
      <4> QED BY <4>2, <4>3, <4>4, Zenon
    <3>3. CASE pc \in 4 .. 5
      <4>1. LandedStep \/ ReturnStep
        BY <2>3, <3>0, <3>3, ActionAt, StepOf
      <4>2. pc' = pc \/ pc' = pc + 1
        BY <4>1 DEF LandedStep, ReturnStep, Advance, Leave
      <4> QED BY <3>3, <4>2
    <3>4. pc = 1 \/ pc = 2 \/ pc \in 4 .. 5
      <4>1. pc \in 1 .. 5 /\ pc # 3
        BY <3>0, Zenon
      <4> QED BY <4>1
    <3> QED BY <3>1, <3>2, <3>3, <3>4, Zenon
  <2> QED BY <2>2, <2>3
<1>2. CASE program \in Faulters
  <2>0. program \notin Jumpers /\ handler.how # "jump" /\ handler.how \in {"default", "exit"}
    BY <1>0, <1>2 DEF WhereInv, HandlerInv
  <2>1. SUFFICES /\ handler'.how \in {"default", "exit"}
                 /\ program = "mprotect_guard" /\ pc' >= 5 /\ end' = "running" => handler'.how = "exit"
                 /\ program \in {"segfault_handler", "w_xor_x"} /\ pc' >= 2 /\ end' = "running" =>
                      handler'.how = "exit"
    BY <1>0, <1>2, <2>0 DEF HandlerInv
  <2>2. Step.op = "sigaction" => Step.how = "exit"
    BY <1>2, GuardSteps, SegfaultSteps, WXorXSteps DEF Faulters
  <2>3. CASE SigactionStep
    <3>1. handler' = [how |-> Step.how, alt |-> Step.alt, once |-> Step.once] /\
          Step.how = "exit"
      BY <2>2, <2>3, OpOf DEF SigactionStep
    <3>2. handler'.how = "exit"
      BY <3>1
    <3> QED BY <3>2
  <2>4. CASE Segv(FALSE) \/ Segv(TRUE)
    <3>1. end' # "running"
      BY <2>0, <2>4 DEF Segv
    <3>2. handler' = handler \/ handler' = Default
      BY <2>4 DEF Segv
    <3> QED BY <1>0, <2>0, <3>1, <3>2
  <2>5. CASE UNCHANGED <<handler, end>> /\ pc' = pc
    BY <1>2, <2>0, <2>5 DEF HandlerInv
  <2>6. CASE Leave("error") \/ Leave("killed") \/ Leave("returned")
    BY <2>0, <2>6 DEF Leave
  <2>7. CASE Advance /\ Step.op # "return" /\ ~ SigactionStep /\ ~ Idle
    <3>1. handler' = handler /\ end' = end /\ pc' = pc + 1
      BY <2>7 DEF Advance
    <3>2. program = "mprotect_guard" => pc # 4
      BY <2>7, GuardSteps, ActionAt
    <3>3. program \in {"segfault_handler", "w_xor_x"} => pc # 1
      BY <2>7, SegfaultSteps, WXorXSteps, ActionAt
    <3>4. program = "mprotect_guard" => pc \in 1 .. 8
      BY GuardSteps
    <3>5. program \in {"segfault_handler", "w_xor_x"} => pc \in 1 .. 6
      BY SegfaultSteps, WXorXSteps
    <3> QED BY <2>0, <3>1, <3>2, <3>3, <3>4, <3>5 DEF HandlerInv
  <2> QED BY <2>3, <2>4, <2>5, <2>6, <2>7, Moves, IdleIs DEF Stays
<1>3. CASE program \notin Jumpers /\ program \notin Faulters
  <2>1. SUFFICES handler'.how = "default"
    BY <1>0, <1>3 DEF HandlerInv, Faulters
  <2>2. handler.how = "default"
    BY <1>3 DEF HandlerInv
  <2>3. ~ SigactionStep
    <3>1. CASE program \in Printers
      BY <3>1, PrinterOps, OpOf
    <3>2. CASE program \notin Printers
      BY <1>3, <3>2, FitsNow, OpOf DEF Fits, Step
    <3> QED BY <3>1, <3>2
  <2>4. handler' = handler \/ handler' = Default
    BY <2>3, Moves DEF Advance, Leave, Stays, Segv
  <2> QED BY <1>0, <2>2, <2>4
<1> QED BY <1>1, <1>2, <1>3
-----------------------------------------------------------------------------
(* The programs that print, step by step. *)

(* The flags of steps that have one. *)
LEMMA FlagFields ==
  ASSUME NEW s
  PROVE  /\ s = Rusage(TRUE) => s.op = "rusage" /\ s.total
         /\ s = Rusage(FALSE) => s.op = "rusage" /\ ~ s.total
         /\ s = Open(TRUE) \/ s = Open(FALSE) => s.op = "open"
<1>1. \A total : s = Rusage(total) => s.op = "rusage" /\ s.total = total
  BY DEF Rusage
<1>2. \A checked : s = Open(checked) => s.op = "open"
  BY DEF Open
<1> QED BY <1>1, <1>2, Zenon

(* What mmap(), malloc() and calloc() ask for. *)
LEMMA GetFields ==
  ASSUME NEW s, NEW p, NEW n
  PROVE
    /\ s = Mmap(p, n) =>
         s.op = "get" /\ s.p = p /\ s.n = n /\ s.kind = "map" /\ s.val = "zero" /\ ~ s.touched
    /\ s = Malloc(p, n) =>
         s.op = "get" /\ s.p = p /\ s.n = n /\ s.kind = "heap" /\ s.val = "junk" /\ ~ s.touched
    /\ s = Calloc(p, n) =>
         s.op = "get" /\ s.p = p /\ s.n = n /\ s.kind = "heap" /\ s.val = "zero" /\ ~ s.touched
<1>1. PICK f : f = FALSE
  BY Zenon
<1>2. /\ s = Mmap(p, n) => s = Get(p, n, "map", "zero", f)
      /\ s = Malloc(p, n) => s = Get(p, n, "heap", "junk", f)
      /\ s = Calloc(p, n) => s = Get(p, n, "heap", "zero", f)
  BY <1>1, Zenon DEF Mmap, Malloc, Calloc
<1>3. \A kind, val : s = Get(p, n, kind, val, f) =>
        s.op = "get" /\ s.p = p /\ s.n = n /\ s.kind = kind /\ s.val = val /\ s.touched = f
  BY DEF Get
<1> QED BY <1>1, <1>2, <1>3, Zenon

(* The fields of the other steps. *)
LEMMA StepFields ==
  /\ \A s, p : s = Check(p) => s.op = "check" /\ s.p = p
  /\ \A s, p, n : s = Munmap(p, n) => s.op = "munmap" /\ s.p = p /\ s.n = n
  /\ \A s, p : s = Free(p) => s.op = "free" /\ s.p = p
  /\ \A s, p, k : s = Read(p, k) => s.op = "read" /\ s.p = p /\ s.k = k
  /\ \A s, p, k : s = Touch(p, k) => s.op = "touch" /\ s.p = p /\ s.k = k
  /\ \A s, p : s = Str(p) => s.op = "str" /\ s.p = p /\ s.k = 0
  /\ \A s, p, k, v : s = Write(p, k, v) => s.op = "write" /\ s.p = p /\ s.k = k /\ s.v = v
  /\ \A s, p, n : s = Dontneed(p, n) => s.op = "dontneed" /\ s.p = p /\ s.n = n
  /\ \A s, p, n : s = Pageout(p, n) => s.op = "pageout" /\ s.p = p /\ s.n = n
  /\ \A s, p, n : s = Mlock(p, n) => s.op = "mlock" /\ s.p = p /\ s.n = n
  /\ \A s, p, n : s = Munlock(p, n) => s.op = "munlock" /\ s.p = p /\ s.n = n
  /\ \A s : s = Rss => s.op = "rss"
  /\ \A s : s = Trim => s.op = "trim"
  /\ \A s : s = Overflow => s.op = "overflow"
  /\ \A s : s = Return => s.op = "return"
  /\ \A s, q, p, n, m, kind : s = Resize(q, p, n, m, kind)
         => s.op = "resize" /\ s.q = q /\ s.p = p /\ s.n = n /\ s.m = m /\ s.kind = kind
  /\ \A s, p : s = Pagemap(p) => s.op = "pagemap" /\ s.p = p
  /\ \A s : s = ReadFile => s.op = "read_file"
  /\ \A s : s = Unlink => s.op = "unlink"
  /\ \A s, v : s = WriteFile(v) => s.op = "write_file" /\ s.v = v
  /\ \A s, p, kind : s = MmapFile(p, kind) => s.op = "mmap_file" /\ s.p = p /\ s.kind = kind
BY DEF Check, Munmap, Free, Read, Touch, Str, Write, Dontneed, Pageout, Mlock, Munlock, Rss,
       Return, Resize, Pagemap, ReadFile, Unlink, WriteFile, MmapFile, Trim, Overflow, Do

(* 01_pagesize.c *)
LEMMA PagesizeSteps ==
  ASSUME WhereInv, program = "pagesize"
  PROVE
    /\ pc \in 1 .. 6
    /\ pc = 1 => Step.op = "get" /\ Step.p = "p" /\ Step.n = 1 /\ Step.kind = "map"
          /\ Step.val = "zero" /\ ~ Step.touched
    /\ pc = 2 => Step.op = "check" /\ Step.p = "p"
    /\ pc = 3 => Step.op = "write" /\ Step.p = "p" /\ Step.k = 0 /\ Step.v = "a..z"
    /\ pc = 4 => Step.op = "read" /\ Step.p = "p" /\ Step.k = 0
    /\ pc = 5 => Step.op = "munmap" /\ Step.p = "p" /\ Step.n = 1
    /\ pc = 6 => Step.op = "return"
<1>1. Script[program] = pagesize
  BY ScriptOf
<1>2. /\ DOMAIN pagesize = 1 .. 6
      /\ pagesize[1] = Mmap("p", 1)
      /\ pagesize[2] = Check("p")
      /\ pagesize[3] = Write("p", 0, "a..z")
      /\ pagesize[4] = Read("p", 0)
      /\ pagesize[5] = Munmap("p", 1)
      /\ pagesize[6] = Return
  BY DEF pagesize
<1>3. pc \in 1 .. 6 /\ Step = pagesize[pc]
  BY <1>1, <1>2, Zenon DEF WhereInv, Step
<1> QED BY <1>3, <1>2, StepFields, GetFields

(* 02_lazy_allocation.c *)
LEMMA LazyAllocationSteps ==
  ASSUME WhereInv, program = "lazy_allocation"
  PROVE
    /\ pc \in 1 .. 2 * Large + 11
    /\ pc = 1 => Step.op = "rss"
    /\ pc = 2 => Step.op = "get" /\ Step.p = "p" /\ Step.n = Large /\ Step.kind = "map"
          /\ Step.val = "zero" /\ ~ Step.touched
    /\ pc = 3 => Step.op = "check" /\ Step.p = "p"
    /\ pc = 4 => Step.op = "rss"
    /\ pc \in 5 .. Large + 4 => Step.op = "touch" /\ Step.p = "p" /\ Step.k = pc - 5
    /\ pc = Large + 5 => Step.op = "rss"
    /\ pc \in Large + 6 .. 2 * Large + 5 => Step.op = "write" /\ Step.p = "p"
          /\ Step.k = pc - Large - 6 /\ Step.v = "i"
    /\ pc = 2 * Large + 6 => Step.op = "rss"
    /\ pc = 2 * Large + 7 => Step.op = "dontneed" /\ Step.p = "p" /\ Step.n = Large
    /\ pc = 2 * Large + 8 => Step.op = "rss"
    /\ pc = 2 * Large + 9 => Step.op = "munmap" /\ Step.p = "p" /\ Step.n = Large
    /\ pc = 2 * Large + 10 => Step.op = "rss"
    /\ pc = 2 * Large + 11 => Step.op = "return"
<1>1. Script[program] = lazy_allocation
  BY ScriptOf
<1>3. pc \in 1 .. 2 * Large + 11 /\ Step = lazy_allocation[pc]
  BY <1>1, LazyAllocationScript, Zenon DEF WhereInv, Step
<1> QED BY <1>3, LazyAllocationScript, StepFields, GetFields

(* 03_count_page_faults.c *)
LEMMA CountPageFaultsSteps ==
  ASSUME WhereInv, program = "count_page_faults"
  PROVE
    /\ pc \in 1 .. 3 * Large + 9
    /\ pc = 1 => Step.op = "get" /\ Step.p = "p" /\ Step.n = Large /\ Step.kind = "map"
          /\ Step.val = "zero" /\ ~ Step.touched
    /\ pc = 2 => Step.op = "check" /\ Step.p = "p"
    /\ pc = 3 => Step.op = "rusage" /\ ~ Step.total
    /\ pc \in 4 .. Large + 3 => Step.op = "write" /\ Step.p = "p" /\ Step.k = pc - 4
          /\ Step.v = "1"
    /\ pc = Large + 4 => Step.op = "rusage" /\ ~ Step.total
    /\ pc \in Large + 5 .. 2 * Large + 4 => Step.op = "touch" /\ Step.p = "p"
          /\ Step.k = pc - Large - 5
    /\ pc = 2 * Large + 5 => Step.op = "rusage" /\ ~ Step.total
    /\ pc = 2 * Large + 6 => Step.op = "dontneed" /\ Step.p = "p" /\ Step.n = Large
    /\ pc \in 2 * Large + 7 .. 3 * Large + 6 => Step.op = "touch" /\ Step.p = "p"
          /\ Step.k = pc - 2 * Large - 7
    /\ pc = 3 * Large + 7 => Step.op = "rusage" /\ ~ Step.total
    /\ pc = 3 * Large + 8 => Step.op = "munmap" /\ Step.p = "p" /\ Step.n = Large
    /\ pc = 3 * Large + 9 => Step.op = "return"
<1>1. Script[program] = count_page_faults
  BY ScriptOf
<1>3. pc \in 1 .. 3 * Large + 9 /\ Step = count_page_faults[pc]
  BY <1>1, CountPageFaultsScript, Zenon DEF WhereInv, Step
<1>4. pc = 3 => Step.op = "rusage" /\ ~ Step.total
  <2>1. count_page_faults[3] = Rusage(FALSE)
    BY CountPageFaultsScript, Zenon
  <2> QED BY <1>3, <2>1, FlagFields, Zenon
<1>5. pc = Large + 4 => Step.op = "rusage" /\ ~ Step.total
  <2>1. count_page_faults[Large + 4] = Rusage(FALSE)
    BY CountPageFaultsScript, Zenon
  <2> QED BY <1>3, <2>1, FlagFields, Zenon
<1>6. pc = 2 * Large + 5 => Step.op = "rusage" /\ ~ Step.total
  <2>1. count_page_faults[2 * Large + 5] = Rusage(FALSE)
    BY CountPageFaultsScript, Zenon
  <2> QED BY <1>3, <2>1, FlagFields, Zenon
<1>7. pc = 3 * Large + 7 => Step.op = "rusage" /\ ~ Step.total
  <2>1. count_page_faults[3 * Large + 7] = Rusage(FALSE)
    BY CountPageFaultsScript, Zenon
  <2> QED BY <1>3, <2>1, FlagFields, Zenon
<1>8. /\ count_page_faults[1] = Mmap("p", Large)
      /\ count_page_faults[2] = Check("p")
      /\ \A k \in 4 .. Large + 3 : count_page_faults[k] = Write("p", k - 4, "1")
      /\ \A k \in Large + 5 .. 2 * Large + 4 : count_page_faults[k] = Touch("p", k - Large - 5)
      /\ count_page_faults[2 * Large + 6] = Dontneed("p", Large)
      /\ \A k \in 2 * Large + 7 .. 3 * Large + 6 : count_page_faults[k] = Touch("p", k - 2 * Large - 7)
      /\ count_page_faults[3 * Large + 8] = Munmap("p", Large)
      /\ count_page_faults[3 * Large + 9] = Return
  BY CountPageFaultsScript, Zenon
<1>9. /\ pc = 1 => Step.op = "get" /\ Step.p = "p" /\ Step.n = Large /\ Step.kind = "map"
            /\ Step.val = "zero" /\ ~ Step.touched
      /\ pc = 2 => Step.op = "check" /\ Step.p = "p"
      /\ pc \in 4 .. Large + 3 => Step.op = "write" /\ Step.p = "p" /\ Step.k = pc - 4
            /\ Step.v = "1"
      /\ pc \in Large + 5 .. 2 * Large + 4 => Step.op = "touch" /\ Step.p = "p"
            /\ Step.k = pc - Large - 5
      /\ pc = 2 * Large + 6 => Step.op = "dontneed" /\ Step.p = "p" /\ Step.n = Large
      /\ pc \in 2 * Large + 7 .. 3 * Large + 6 => Step.op = "touch" /\ Step.p = "p"
            /\ Step.k = pc - 2 * Large - 7
      /\ pc = 3 * Large + 8 => Step.op = "munmap" /\ Step.p = "p" /\ Step.n = Large
      /\ pc = 3 * Large + 9 => Step.op = "return"
  BY <1>3, <1>8, StepFields, GetFields
<1> QED BY <1>3, <1>4, <1>5, <1>6, <1>7, <1>9, Zenon

(* 04_pagemap.c *)
LEMMA PagemapSteps ==
  ASSUME WhereInv, program = "pagemap"
  PROVE
    /\ pc \in 1 .. 13
    /\ pc = 1 => Step.op = "get" /\ Step.p = "heap" /\ Step.n = 1 /\ Step.kind = "heap"
          /\ Step.val = "junk" /\ ~ Step.touched
    /\ pc = 2 => Step.op = "write" /\ Step.p = "heap" /\ Step.k = 0 /\ Step.v = "1"
    /\ pc = 3 => Step.op = "get" /\ Step.p = "anon" /\ Step.n = 1 /\ Step.kind = "map"
          /\ Step.val = "zero" /\ ~ Step.touched
    /\ pc = 4 => Step.op = "write" /\ Step.p = "anon" /\ Step.k = 0 /\ Step.v = "1"
    /\ pc = 5 => Step.op = "pagemap" /\ Step.p = "static"
    /\ pc = 6 => Step.op = "pagemap" /\ Step.p = "static"
    /\ pc = 7 => Step.op = "pagemap" /\ Step.p = "static"
    /\ pc = 8 => Step.op = "pagemap" /\ Step.p = "heap"
    /\ pc = 9 => Step.op = "pagemap" /\ Step.p = "anon"
    /\ pc = 10 => Step.op = "pagemap" /\ Step.p = "static"
    /\ pc = 11 => Step.op = "free" /\ Step.p = "heap"
    /\ pc = 12 => Step.op = "munmap" /\ Step.p = "anon" /\ Step.n = 1
    /\ pc = 13 => Step.op = "return"
<1>1. Script[program] = pagemap
  BY ScriptOf
<1>3. pc \in 1 .. 13 /\ Step = pagemap[pc]
  BY <1>1, PagemapScript, Zenon DEF WhereInv, Step
<1> QED BY <1>3, PagemapScript, StepFields, GetFields

(* 01_malloc_basics.c *)
LEMMA BasicsSteps ==
  ASSUME WhereInv, program = "malloc_basics"
  PROVE
    /\ pc \in 1 .. 14
    /\ pc = 1 => Step.op = "get" /\ Step.p = "a" /\ Step.n = 1 /\ Step.kind = "heap"
          /\ Step.val = "junk" /\ ~ Step.touched
    /\ pc = 2 => Step.op = "read" /\ Step.p = "a" /\ Step.k = 0
    /\ pc = 3 => Step.op = "get" /\ Step.p = "b" /\ Step.n = 1 /\ Step.kind = "heap"
          /\ Step.val = "zero" /\ ~ Step.touched
    /\ pc = 4 => Step.op = "read" /\ Step.p = "b" /\ Step.k = 0
    /\ pc = 5 => Step.op = "resize" /\ Step.q = "a" /\ Step.p = "a" /\ Step.n = 1
          /\ Step.m = 2 /\ Step.kind = "heap"
    /\ pc = 6 => Step.op = "write" /\ Step.p = "a" /\ Step.k = 0 /\ Step.v = "aaa"
    /\ pc = 7 => Step.op = "write" /\ Step.p = "a" /\ Step.k = 1 /\ Step.v = "aaa"
    /\ pc = 8 => Step.op = "resize" /\ Step.q = "a" /\ Step.p = "a" /\ Step.n = 2
          /\ Step.m = Large /\ Step.kind = "heap"
    /\ pc = 9 => Step.op = "free" /\ Step.p = "a"
    /\ pc = 10 => Step.op = "free" /\ Step.p = "b"
    /\ pc = 11 => Step.op = "free" /\ Step.p = "NULL"
    /\ pc = 12 => Step.op = "get" /\ Step.p = "r" /\ Step.n = 1 /\ Step.kind = "heap"
          /\ Step.val = "junk" /\ ~ Step.touched
    /\ pc = 13 => Step.op = "free" /\ Step.p = "r"
    /\ pc = 14 => Step.op = "return"
<1>1. Script[program] = malloc_basics
  BY ScriptOf
<1>3. pc \in 1 .. 14 /\ Step = malloc_basics[pc]
  BY <1>1, BasicsScript, Zenon DEF WhereInv, Step
<1> QED BY <1>3, BasicsScript, StepFields, GetFields

(* 07_calloc_realloc.c *)
LEMMA ReallocSteps ==
  ASSUME WhereInv, program = "calloc_realloc"
  PROVE
    /\ pc \in 1 .. 15
    /\ pc = 1 => Step.op = "get" /\ Step.p = "a" /\ Step.n = 1 /\ Step.kind = "heap"
          /\ Step.val = "zero" /\ ~ Step.touched
    /\ pc = 2 => Step.op = "read" /\ Step.p = "a" /\ Step.k = 0
    /\ pc = 3 => Step.op = "free" /\ Step.p = "a"
    /\ pc = 4 => Step.op = "overflow"
    /\ pc = 5 => Step.op = "get" /\ Step.p = "p" /\ Step.n = 1 /\ Step.kind = "heap"
          /\ Step.val = "junk" /\ ~ Step.touched
    /\ pc = 6 => Step.op = "write" /\ Step.p = "p" /\ Step.k = 0 /\ Step.v = "1234567"
    /\ pc = 7 => Step.op = "str" /\ Step.p = "p" /\ Step.k = 0
    /\ pc = 8 => Step.op = "resize" /\ Step.q = "p" /\ Step.p = "p" /\ Step.n = 1
          /\ Step.m = 1 /\ Step.kind = "heap"
    /\ pc = 9 => Step.op = "str" /\ Step.p = "p" /\ Step.k = 0
    /\ pc = 10 => Step.op = "resize" /\ Step.q = "p" /\ Step.p = "p" /\ Step.n = 1
          /\ Step.m = Large /\ Step.kind = "heap"
    /\ pc = 11 => Step.op = "str" /\ Step.p = "p" /\ Step.k = 0
    /\ pc = 12 => Step.op = "free" /\ Step.p = "p"
    /\ pc = 13 => Step.op = "get" /\ Step.p = "q" /\ Step.n = 1 /\ Step.kind = "heap"
          /\ Step.val = "junk" /\ ~ Step.touched
    /\ pc = 14 => Step.op = "free" /\ Step.p = "q"
    /\ pc = 15 => Step.op = "return"
<1>1. Script[program] = calloc_realloc
  BY ScriptOf
<1>3. pc \in 1 .. 15 /\ Step = calloc_realloc[pc]
  BY <1>1, ReallocScript, Zenon DEF WhereInv, Step
<1> QED BY <1>3, ReallocScript, StepFields, GetFields

(* 13_malloc_trim.c *)
LEMMA MallocTrimSteps ==
  ASSUME WhereInv, program = "malloc_trim"
  PROVE
    /\ pc \in 1 .. 12
    /\ pc = 1 => Step.op = "rss"
    /\ pc = 2 => Step.op = "get" /\ Step.p = "big[0]" /\ Step.n = 1 /\ Step.kind = "heap"
          /\ Step.val = "junk" /\ ~ Step.touched
    /\ pc = 3 => Step.op = "get" /\ Step.p = "big[1]" /\ Step.n = 1 /\ Step.kind = "heap"
          /\ Step.val = "junk" /\ ~ Step.touched
    /\ pc = 4 => Step.op = "write" /\ Step.p = "big[0]" /\ Step.k = 0 /\ Step.v = "1"
    /\ pc = 5 => Step.op = "write" /\ Step.p = "big[1]" /\ Step.k = 0 /\ Step.v = "1"
    /\ pc = 6 => Step.op = "rss"
    /\ pc = 7 => Step.op = "free" /\ Step.p = "big[0]"
    /\ pc = 8 => Step.op = "free" /\ Step.p = "big[1]"
    /\ pc = 9 => Step.op = "rss"
    /\ pc = 10 => Step.op = "trim"
    /\ pc = 11 => Step.op = "rss"
    /\ pc = 12 => Step.op = "return"
<1>1. Script[program] = malloc_trim
  BY ScriptOf
<1>3. pc \in 1 .. 12 /\ Step = malloc_trim[pc]
  BY <1>1, MallocTrimScript, Zenon DEF WhereInv, Step
<1> QED BY <1>3, MallocTrimScript, StepFields, GetFields

(* 01_anon_mmap.c *)
LEMMA AnonMmapSteps ==
  ASSUME WhereInv, program = "anon_mmap"
  PROVE
    /\ pc \in 1 .. 8
    /\ pc = 1 => Step.op = "get" /\ Step.p = "p" /\ Step.n = Large /\ Step.kind = "map"
          /\ Step.val = "zero" /\ ~ Step.touched
    /\ pc = 2 => Step.op = "check" /\ Step.p = "p"
    /\ pc = 3 => Step.op = "read" /\ Step.p = "p" /\ Step.k = 0
    /\ pc = 4 => Step.op = "read" /\ Step.p = "p" /\ Step.k = Large - 1
    /\ pc = 5 => Step.op = "write" /\ Step.p = "p" /\ Step.k = 0 /\ Step.v = Greeting
    /\ pc = 6 => Step.op = "read" /\ Step.p = "p" /\ Step.k = 0
    /\ pc = 7 => Step.op = "munmap" /\ Step.p = "p" /\ Step.n = Large
    /\ pc = 8 => Step.op = "return"
<1>1. Script[program] = anon_mmap
  BY ScriptOf
<1>3. pc \in 1 .. 8 /\ Step = anon_mmap[pc]
  BY <1>1, AnonMmapScript, Zenon DEF WhereInv, Step
<1>4. anon_mmap[5] = Write("p", 0, Greeting)
  BY AnonMmapScript, Zenon DEF Greeting
<1>5. /\ anon_mmap[1] = Mmap("p", Large)
      /\ anon_mmap[2] = Check("p")
      /\ anon_mmap[3] = Read("p", 0)
      /\ anon_mmap[4] = Read("p", Large - 1)
      /\ anon_mmap[6] = Read("p", 0)
      /\ anon_mmap[7] = Munmap("p", Large)
      /\ anon_mmap[8] = Return
  BY AnonMmapScript, Zenon
<1>6. /\ pc = 1 => Step.op = "get" /\ Step.p = "p" /\ Step.n = Large /\ Step.kind = "map"
            /\ Step.val = "zero" /\ ~ Step.touched
      /\ pc = 2 => Step.op = "check" /\ Step.p = "p"
      /\ pc = 3 => Step.op = "read" /\ Step.p = "p" /\ Step.k = 0
      /\ pc = 4 => Step.op = "read" /\ Step.p = "p" /\ Step.k = Large - 1
      /\ pc = 5 => Step.op = "write" /\ Step.p = "p" /\ Step.k = 0 /\ Step.v = Greeting
      /\ pc = 6 => Step.op = "read" /\ Step.p = "p" /\ Step.k = 0
      /\ pc = 7 => Step.op = "munmap" /\ Step.p = "p" /\ Step.n = Large
      /\ pc = 8 => Step.op = "return"
  BY <1>3, <1>4, <1>5, StepFields, GetFields
<1> QED BY <1>3, <1>6, Zenon

(* 02_file_mmap.c *)
LEMMA FileMmapSteps ==
  ASSUME WhereInv, program = "file_mmap"
  PROVE
    /\ pc \in 1 .. 11
    /\ pc = 1 => Step.op = "open"
    /\ pc = 2 => Step.op = "write_file" /\ Step.v = "hello"
    /\ pc = 3 => Step.op = "mmap_file" /\ Step.p = "p" /\ Step.kind = "private"
    /\ pc = 4 => Step.op = "check" /\ Step.p = "p"
    /\ pc = 5 => Step.op = "read" /\ Step.p = "p" /\ Step.k = 0
    /\ pc = 6 => Step.op = "write" /\ Step.p = "p" /\ Step.k = 0 /\ Step.v = "Hello"
    /\ pc = 7 => Step.op = "read" /\ Step.p = "p" /\ Step.k = 0
    /\ pc = 8 => Step.op = "read_file"
    /\ pc = 9 => Step.op = "munmap" /\ Step.p = "p" /\ Step.n = 1
    /\ pc = 10 => Step.op = "unlink"
    /\ pc = 11 => Step.op = "return"
<1>1. Script[program] = file_mmap
  BY ScriptOf
<1>3. pc \in 1 .. 11 /\ Step = file_mmap[pc]
  BY <1>1, FileMmapScript, Zenon DEF WhereInv, Step
<1>4. pc = 1 => Step.op = "open"
  <2>1. file_mmap[1] = Open(TRUE)
    BY FileMmapScript, Zenon
  <2> QED BY <1>3, <2>1, FlagFields, Zenon
<1>5. /\ file_mmap[2] = WriteFile("hello")
      /\ file_mmap[3] = MmapFile("p", "private")
      /\ file_mmap[4] = Check("p")
      /\ file_mmap[5] = Read("p", 0)
      /\ file_mmap[6] = Write("p", 0, "Hello")
      /\ file_mmap[7] = Read("p", 0)
      /\ file_mmap[8] = ReadFile
      /\ file_mmap[9] = Munmap("p", 1)
      /\ file_mmap[10] = Unlink
      /\ file_mmap[11] = Return
  BY FileMmapScript, Zenon
<1>6. /\ pc = 2 => Step.op = "write_file" /\ Step.v = "hello"
      /\ pc = 3 => Step.op = "mmap_file" /\ Step.p = "p" /\ Step.kind = "private"
      /\ pc = 4 => Step.op = "check" /\ Step.p = "p"
      /\ pc = 5 => Step.op = "read" /\ Step.p = "p" /\ Step.k = 0
      /\ pc = 6 => Step.op = "write" /\ Step.p = "p" /\ Step.k = 0 /\ Step.v = "Hello"
      /\ pc = 7 => Step.op = "read" /\ Step.p = "p" /\ Step.k = 0
      /\ pc = 8 => Step.op = "read_file"
      /\ pc = 9 => Step.op = "munmap" /\ Step.p = "p" /\ Step.n = 1
      /\ pc = 10 => Step.op = "unlink"
      /\ pc = 11 => Step.op = "return"
  BY <1>3, <1>5, StepFields, GetFields
<1> QED BY <1>3, <1>4, <1>6, Zenon

(* 04_file_share_write.c *)
LEMMA FileShareWriteSteps ==
  ASSUME WhereInv, program = "file_share_write"
  PROVE
    /\ pc \in 1 .. 10
    /\ pc = 1 => Step.op = "open"
    /\ pc = 2 => Step.op = "write_file" /\ Step.v = "AA"
    /\ pc = 3 => Step.op = "mmap_file" /\ Step.p = "p" /\ Step.kind = "shared"
    /\ pc = 4 => Step.op = "check" /\ Step.p = "p"
    /\ pc = 5 => Step.op = "read" /\ Step.p = "p" /\ Step.k = 0
    /\ pc = 6 => Step.op = "write" /\ Step.p = "p" /\ Step.k = 0 /\ Step.v = "BA"
    /\ pc = 7 => Step.op = "read_file"
    /\ pc = 8 => Step.op = "munmap" /\ Step.p = "p" /\ Step.n = 1
    /\ pc = 9 => Step.op = "unlink"
    /\ pc = 10 => Step.op = "return"
<1>1. Script[program] = file_share_write
  BY ScriptOf
<1>3. pc \in 1 .. 10 /\ Step = file_share_write[pc]
  BY <1>1, FileShareWriteScript, Zenon DEF WhereInv, Step
<1>4. pc = 1 => Step.op = "open"
  <2>1. file_share_write[1] = Open(FALSE)
    BY FileShareWriteScript, Zenon
  <2> QED BY <1>3, <2>1, FlagFields, Zenon
<1>5. /\ file_share_write[2] = WriteFile("AA")
      /\ file_share_write[3] = MmapFile("p", "shared")
      /\ file_share_write[4] = Check("p")
      /\ file_share_write[5] = Read("p", 0)
      /\ file_share_write[6] = Write("p", 0, "BA")
      /\ file_share_write[7] = ReadFile
      /\ file_share_write[8] = Munmap("p", 1)
      /\ file_share_write[9] = Unlink
      /\ file_share_write[10] = Return
  BY FileShareWriteScript, Zenon
<1>6. /\ pc = 2 => Step.op = "write_file" /\ Step.v = "AA"
      /\ pc = 3 => Step.op = "mmap_file" /\ Step.p = "p" /\ Step.kind = "shared"
      /\ pc = 4 => Step.op = "check" /\ Step.p = "p"
      /\ pc = 5 => Step.op = "read" /\ Step.p = "p" /\ Step.k = 0
      /\ pc = 6 => Step.op = "write" /\ Step.p = "p" /\ Step.k = 0 /\ Step.v = "BA"
      /\ pc = 7 => Step.op = "read_file"
      /\ pc = 8 => Step.op = "munmap" /\ Step.p = "p" /\ Step.n = 1
      /\ pc = 9 => Step.op = "unlink"
      /\ pc = 10 => Step.op = "return"
  BY <1>3, <1>5, StepFields, GetFields
<1> QED BY <1>3, <1>4, <1>6, Zenon

(* 06_madvise_dontneed.c *)
LEMMA MadviseDontneedSteps ==
  ASSUME WhereInv, program = "madvise_dontneed"
  PROVE
    /\ pc \in 1 .. Large + 11
    /\ pc = 1 => Step.op = "get" /\ Step.p = "p" /\ Step.n = Large /\ Step.kind = "map"
          /\ Step.val = "zero" /\ ~ Step.touched
    /\ pc = 2 => Step.op = "check" /\ Step.p = "p"
    /\ pc = 3 => Step.op = "rss"
    /\ pc \in 4 .. Large + 3 => Step.op = "write" /\ Step.p = "p" /\ Step.k = pc - 4
          /\ Step.v = "1"
    /\ pc = Large + 4 => Step.op = "rss"
    /\ pc = Large + 5 => Step.op = "dontneed" /\ Step.p = "p" /\ Step.n = Large
    /\ pc = Large + 6 => Step.op = "rss"
    /\ pc = Large + 7 => Step.op = "read" /\ Step.p = "p" /\ Step.k = 0
    /\ pc = Large + 8 => Step.op = "read" /\ Step.p = "p" /\ Step.k = 1
    /\ pc = Large + 9 => Step.op = "rss"
    /\ pc = Large + 10 => Step.op = "munmap" /\ Step.p = "p" /\ Step.n = Large
    /\ pc = Large + 11 => Step.op = "return"
<1>1. Script[program] = madvise_dontneed
  BY ScriptOf
<1>3. pc \in 1 .. Large + 11 /\ Step = madvise_dontneed[pc]
  BY <1>1, MadviseDontneedScript, Zenon DEF WhereInv, Step
<1>4. /\ pc = 1 => Step.op = "get" /\ Step.p = "p" /\ Step.n = Large /\ Step.kind = "map"
            /\ Step.val = "zero" /\ ~ Step.touched
      /\ pc = 2 => Step.op = "check" /\ Step.p = "p"
      /\ pc = 3 => Step.op = "rss"
      /\ pc \in 4 .. Large + 3 => Step.op = "write" /\ Step.p = "p" /\ Step.k = pc - 4
            /\ Step.v = "1"
      /\ pc = Large + 4 => Step.op = "rss"
      /\ pc = Large + 5 => Step.op = "dontneed" /\ Step.p = "p" /\ Step.n = Large
  BY <1>3, LargeIs, MadviseDontneedScript, StepFields, GetFields
<1>5. /\ pc = Large + 6 => Step.op = "rss"
      /\ pc = Large + 7 => Step.op = "read" /\ Step.p = "p" /\ Step.k = 0
      /\ pc = Large + 8 => Step.op = "read" /\ Step.p = "p" /\ Step.k = 1
      /\ pc = Large + 9 => Step.op = "rss"
      /\ pc = Large + 10 => Step.op = "munmap" /\ Step.p = "p" /\ Step.n = Large
      /\ pc = Large + 11 => Step.op = "return"
  BY <1>3, LargeIs, MadviseDontneedScript, StepFields, GetFields
<1> QED BY <1>3, <1>4, <1>5, Zenon

(* 07_mremap.c *)
LEMMA MremapSteps ==
  ASSUME WhereInv, program = "mremap"
  PROVE
    /\ pc \in 1 .. 12
    /\ pc = 1 => Step.op = "get" /\ Step.p = "p" /\ Step.n = 2 /\ Step.kind = "map"
          /\ Step.val = "zero" /\ ~ Step.touched
    /\ pc = 2 => Step.op = "check" /\ Step.p = "p"
    /\ pc = 3 => Step.op = "write" /\ Step.p = "p" /\ Step.k = 0 /\ Step.v = "marker"
    /\ pc = 4 => Step.op = "read" /\ Step.p = "p" /\ Step.k = 0
    /\ pc = 5 => Step.op = "resize" /\ Step.q = "q" /\ Step.p = "p" /\ Step.n = 2
          /\ Step.m = Large /\ Step.kind = "map"
    /\ pc = 6 => Step.op = "check" /\ Step.p = "q"
    /\ pc = 7 => Step.op = "read" /\ Step.p = "q" /\ Step.k = 0
    /\ pc = 8 => Step.op = "resize" /\ Step.q = "r" /\ Step.p = "q" /\ Step.n = Large
          /\ Step.m = 1 /\ Step.kind = "map"
    /\ pc = 9 => Step.op = "check" /\ Step.p = "r"
    /\ pc = 10 => Step.op = "read" /\ Step.p = "r" /\ Step.k = 0
    /\ pc = 11 => Step.op = "munmap" /\ Step.p = "r" /\ Step.n = 1
    /\ pc = 12 => Step.op = "return"
<1>1. Script[program] = mremap
  BY ScriptOf
<1>3. pc \in 1 .. 12 /\ Step = mremap[pc]
  BY <1>1, MremapScript, Zenon DEF WhereInv, Step
<1> QED BY <1>3, MremapScript, StepFields, GetFields

(* 02_mlock.c *)
LEMMA MlockSteps ==
  ASSUME WhereInv, program = "mlock"
  PROVE
    /\ pc \in 1 .. Large + 9
    /\ pc = 1 => Step.op = "rss"
    /\ pc = 2 => Step.op = "get" /\ Step.p = "p" /\ Step.n = Large /\ Step.kind = "heap"
          /\ Step.val = "junk" /\ ~ Step.touched
    /\ pc \in 3 .. Large + 2 => Step.op = "write" /\ Step.p = "p" /\ Step.k = pc - 3
          /\ Step.v = "1"
    /\ pc = Large + 3 => Step.op = "rss"
    /\ pc = Large + 4 => Step.op = "mlock" /\ Step.p = "p" /\ Step.n = Large
    /\ pc = Large + 5 => Step.op = "rss"
    /\ pc = Large + 6 => Step.op = "munlock" /\ Step.p = "p" /\ Step.n = Large
    /\ pc = Large + 7 => Step.op = "rss"
    /\ pc = Large + 8 => Step.op = "free" /\ Step.p = "p"
    /\ pc = Large + 9 => Step.op = "return"
<1>1. Script[program] = mlock
  BY ScriptOf
<1>3. pc \in 1 .. Large + 9 /\ Step = mlock[pc]
  BY <1>1, MlockScript, Zenon DEF WhereInv, Step
<1> QED BY <1>3, MlockScript, StepFields, GetFields

(* 03_madvise_pageout.c *)
LEMMA MadvisePageoutSteps ==
  ASSUME WhereInv, program = "madvise_pageout"
  PROVE
    /\ pc \in 1 .. Large + 8
    /\ pc = 1 => Step.op = "get" /\ Step.p = "p" /\ Step.n = Large /\ Step.kind = "map"
          /\ Step.val = "zero" /\ ~ Step.touched
    /\ pc \in 2 .. Large + 1 => Step.op = "write" /\ Step.p = "p" /\ Step.k = pc - 2
          /\ Step.v = "0xAA"
    /\ pc = Large + 2 => Step.op = "rss"
    /\ pc = Large + 3 => Step.op = "pageout" /\ Step.p = "p" /\ Step.n = Large
    /\ pc = Large + 4 => Step.op = "rss"
    /\ pc = Large + 5 => Step.op = "read" /\ Step.p = "p" /\ Step.k = 1
    /\ pc = Large + 6 => Step.op = "rss"
    /\ pc = Large + 7 => Step.op = "munmap" /\ Step.p = "p" /\ Step.n = Large
    /\ pc = Large + 8 => Step.op = "return"
<1>1. Script[program] = madvise_pageout
  BY ScriptOf
<1>3. pc \in 1 .. Large + 8 /\ Step = madvise_pageout[pc]
  BY <1>1, MadvisePageoutScript, Zenon DEF WhereInv, Step
<1> QED BY <1>3, MadvisePageoutScript, StepFields, GetFields

(* 05_overcommit.c *)
LEMMA OvercommitSteps ==
  ASSUME WhereInv, program = "overcommit"
  PROVE
    /\ pc \in 1 .. 7
    /\ pc = 1 => Step.op = "get" /\ Step.p = "p" /\ Step.n = Large /\ Step.kind = "map"
          /\ Step.val = "zero" /\ ~ Step.touched
    /\ pc = 2 => Step.op = "check" /\ Step.p = "p"
    /\ pc = 3 => Step.op = "rss"
    /\ pc = 4 => Step.op = "write" /\ Step.p = "p" /\ Step.k = 0 /\ Step.v = "0x42"
    /\ pc = 5 => Step.op = "rss"
    /\ pc = 6 => Step.op = "munmap" /\ Step.p = "p" /\ Step.n = Large
    /\ pc = 7 => Step.op = "return"
<1>1. Script[program] = overcommit
  BY ScriptOf
<1>2. /\ DOMAIN overcommit = 1 .. 7
      /\ overcommit[1] = Mmap("p", Large)
      /\ overcommit[2] = Check("p")
      /\ overcommit[3] = Rss
      /\ overcommit[4] = Write("p", 0, "0x42")
      /\ overcommit[5] = Rss
      /\ overcommit[6] = Munmap("p", Large)
      /\ overcommit[7] = Return
  BY DEF overcommit
<1>3. pc \in 1 .. 7 /\ Step = overcommit[pc]
  BY <1>1, <1>2, Zenon DEF WhereInv, Step
<1> QED BY <1>3, <1>2, StepFields, GetFields

(* 04_getrusage_demo.c *)
LEMMA GetrusageDemoSteps ==
  ASSUME WhereInv, program = "getrusage_demo"
  PROVE
    /\ pc \in 1 .. 2 * Large + 7
    /\ pc = 1 => Step.op = "rusage" /\ Step.total
    /\ pc = 2 => Step.op = "get" /\ Step.p = "p" /\ Step.n = Large /\ Step.kind = "heap"
          /\ Step.val = "junk" /\ ~ Step.touched
    /\ pc \in 3 .. Large + 2 => Step.op = "write" /\ Step.p = "p" /\ Step.k = pc - 3
          /\ Step.v = "1"
    /\ pc = Large + 3 => Step.op = "rusage" /\ Step.total
    /\ pc \in Large + 4 .. 2 * Large + 3 => Step.op = "touch" /\ Step.p = "p"
          /\ Step.k = pc - Large - 4
    /\ pc = 2 * Large + 4 => Step.op = "rusage" /\ Step.total
    /\ pc = 2 * Large + 5 => Step.op = "free" /\ Step.p = "p"
    /\ pc = 2 * Large + 6 => Step.op = "rusage" /\ Step.total
    /\ pc = 2 * Large + 7 => Step.op = "return"
<1>1. Script[program] = getrusage_demo
  BY ScriptOf
<1>3. pc \in 1 .. 2 * Large + 7 /\ Step = getrusage_demo[pc]
  BY <1>1, GetrusageDemoScript, Zenon DEF WhereInv, Step
<1>4. pc = 1 => Step.op = "rusage" /\ Step.total
  <2>1. getrusage_demo[1] = Rusage(TRUE)
    BY GetrusageDemoScript, Zenon
  <2> QED BY <1>3, <2>1, FlagFields, Zenon
<1>5. pc = Large + 3 => Step.op = "rusage" /\ Step.total
  <2>1. getrusage_demo[Large + 3] = Rusage(TRUE)
    BY GetrusageDemoScript, Zenon
  <2> QED BY <1>3, <2>1, FlagFields, Zenon
<1>6. pc = 2 * Large + 4 => Step.op = "rusage" /\ Step.total
  <2>1. getrusage_demo[2 * Large + 4] = Rusage(TRUE)
    BY GetrusageDemoScript, Zenon
  <2> QED BY <1>3, <2>1, FlagFields, Zenon
<1>7. pc = 2 * Large + 6 => Step.op = "rusage" /\ Step.total
  <2>1. getrusage_demo[2 * Large + 6] = Rusage(TRUE)
    BY GetrusageDemoScript, Zenon
  <2> QED BY <1>3, <2>1, FlagFields, Zenon
<1>8. /\ getrusage_demo[2] = Malloc("p", Large)
      /\ \A k \in 3 .. Large + 2 : getrusage_demo[k] = Write("p", k - 3, "1")
      /\ \A k \in Large + 4 .. 2 * Large + 3 : getrusage_demo[k] = Touch("p", k - Large - 4)
      /\ getrusage_demo[2 * Large + 5] = Free("p")
      /\ getrusage_demo[2 * Large + 7] = Return
  BY GetrusageDemoScript, Zenon
<1>9. /\ pc = 2 => Step.op = "get" /\ Step.p = "p" /\ Step.n = Large /\ Step.kind = "heap"
            /\ Step.val = "junk" /\ ~ Step.touched
      /\ pc \in 3 .. Large + 2 => Step.op = "write" /\ Step.p = "p" /\ Step.k = pc - 3
            /\ Step.v = "1"
      /\ pc \in Large + 4 .. 2 * Large + 3 => Step.op = "touch" /\ Step.p = "p"
            /\ Step.k = pc - Large - 4
      /\ pc = 2 * Large + 5 => Step.op = "free" /\ Step.p = "p"
      /\ pc = 2 * Large + 7 => Step.op = "return"
  BY <1>3, <1>8, StepFields, GetFields
<1> QED BY <1>3, <1>4, <1>5, <1>6, <1>7, <1>9, Zenon
-----------------------------------------------------------------------------
(* How much each program has printed at each of its steps. *)
LEMMA SaidIs ==
  ASSUME NEW k \in Nat
  PROVE  /\ Said("pagesize", k) = Past(4, k)
         /\ Said("lazy_allocation", k) = Past(1, k) + Past(4, k) + Past(Large + 5, k)
              + Past(2 * Large + 6, k) + Past(2 * Large + 8, k) + Past(2 * Large + 10, k)
         /\ Said("count_page_faults", k) =
              Past(3, k) + Past(Large + 4, k) + Past(2 * Large + 5, k) + Past(3 * Large + 7, k)
         /\ Said("pagemap", k) = IF k <= 5 THEN 0 ELSE IF k <= 10 THEN k - 5 ELSE 6
         /\ Said("recursion_depth", k) = Past(4, k)
         /\ Said("stack_overflow", k) = Past(4, k)
         /\ Said("malloc_basics", k) = Past(2, k) + Past(4, k)
         /\ Said("calloc_realloc", k) = Past(2, k) + Past(4, k) + Past(7, k) + Past(9, k) + Past(11, k)
         /\ Said("malloc_trim", k) = Past(1, k) + Past(6, k) + Past(9, k) + Past(11, k)
         /\ Said("anon_mmap", k) = Past(3, k) + Past(4, k) + Past(6, k)
         /\ Said("file_mmap", k) = Past(5, k) + Past(7, k) + Past(8, k)
         /\ Said("file_share_write", k) = Past(5, k) + Past(7, k)
         /\ Said("madvise_dontneed", k) = Past(3, k) + Past(Large + 4, k) + Past(Large + 6, k)
              + Past(Large + 7, k) + Past(Large + 8, k) + Past(Large + 9, k)
         /\ Said("mremap", k) = Past(4, k) + Past(7, k) + Past(10, k)
         /\ Said("fixed_noreplace", k) = Past(4, k) + Past(6, k)
         /\ Said("brk_directly", k) = Past(1, k) + Past(5, k) + Past(9, k)
         /\ Said("mlock", k) =
              Past(1, k) + Past(Large + 3, k) + Past(Large + 5, k) + Past(Large + 7, k)
         /\ Said("madvise_pageout", k) =
              Past(Large + 2, k) + Past(Large + 4, k) + Past(Large + 5, k) + Past(Large + 6, k)
         /\ Said("overcommit", k) = Past(3, k) + Past(5, k)
         /\ Said("getrusage_demo", k) =
              Past(1, k) + Past(Large + 3, k) + Past(2 * Large + 4, k) + Past(2 * Large + 6, k)
         /\ Said("mprotect_jit", k) = Past(5, k)
BY DEF Said, Talks

(* The programs that print. *)
LEMMA TalkersAre ==
  DOMAIN Talks = {"pagesize", "lazy_allocation", "count_page_faults", "pagemap", "recursion_depth",
    "stack_overflow", "malloc_basics", "calloc_realloc", "malloc_trim", "anon_mmap", "file_mmap",
    "file_share_write", "madvise_dontneed", "mremap", "fixed_noreplace", "brk_directly", "mlock",
    "madvise_pageout", "overcommit", "getrusage_demo", "mprotect_jit"}
BY DEF Talks

(* What they promise. *)
PromisesAre ==
  /\ Promised["pagesize"][1] = {"a..z"}
  /\ Promised["lazy_allocation"][1] = {0} /\ Promised["lazy_allocation"][2] = {0}
  /\ Promised["lazy_allocation"][3] = {0} /\ Promised["lazy_allocation"][4] = 0 .. Large
  /\ Promised["lazy_allocation"][5] = Dropped(0) /\ Promised["lazy_allocation"][6] = {0}
  /\ Promised["count_page_faults"][1] = {0} /\ Promised["count_page_faults"][2] = {Large}
  /\ Promised["count_page_faults"][3] = 0 .. Large /\ Promised["count_page_faults"][4] = Dropped(Large)
  /\ \A k \in {1, 2, 3, 6} : Promised["pagemap"][k] = {"present", "swap", "none"}
  /\ \A k \in {4, 5} : Promised["pagemap"][k] = {"present", "swap"}
  /\ Promised["recursion_depth"][1] = {StackFrames}
  /\ Promised["stack_overflow"][1] = {StackFrames}
  /\ Promised["malloc_basics"][1] = {"junk"} /\ Promised["malloc_basics"][2] = {"zero"}
  /\ Promised["calloc_realloc"][1] = {"zero"}
  /\ Promised["calloc_realloc"][2] = {"(nil)"} /\ Promised["calloc_realloc"][3] = {"1234567"}
  /\ Promised["calloc_realloc"][4] = {"1234567", NullText}
  /\ Promised["calloc_realloc"][5] = {"1234567", NullText, "junk"}
  /\ Promised["malloc_trim"][1] = {0} /\ Promised["malloc_trim"][2] = 0 .. 2
  /\ Promised["malloc_trim"][3] = 0 .. 2 /\ Promised["malloc_trim"][4] = {0}
  /\ Promised["anon_mmap"][1] = {"zero"} /\ Promised["anon_mmap"][2] = {"zero"}
  /\ Promised["anon_mmap"][3] = {Greeting}
  /\ Promised["file_mmap"][1] = {"hello"} /\ Promised["file_mmap"][2] = {"Hello"}
  /\ Promised["file_mmap"][3] = {"hello"}
  /\ Promised["file_share_write"][1] = {"AA"} /\ Promised["file_share_write"][2] = {"BA"}
  /\ Promised["madvise_dontneed"][1] = {0} /\ Promised["madvise_dontneed"][2] = 0 .. Large
  /\ Promised["madvise_dontneed"][3] = Dropped(0) /\ Promised["madvise_dontneed"][4] = Blank
  /\ Promised["madvise_dontneed"][5] = Blank /\ Promised["madvise_dontneed"][6] = Dropped(0)
  /\ \A k \in 1 .. 3 : Promised["mremap"][k] = {"marker"}
  /\ Promised["fixed_noreplace"][1] = {"mapped", "EEXIST", "failed"}
  /\ Promised["fixed_noreplace"][2] = {"EEXIST", "failed"}
  /\ Promised["brk_directly"][1] = {0} /\ Promised["brk_directly"][2] = {2, 3}
  /\ Promised["brk_directly"][3] = 0 .. 3
  /\ Promised["mlock"][1] = {0} /\ Promised["mlock"][2] = 0 .. Large
  /\ Promised["mlock"][3] = {Large} /\ Promised["mlock"][4] = 0 .. Large
  /\ Promised["madvise_pageout"][1] = 0 .. Large /\ Promised["madvise_pageout"][2] = 0 .. Large
  /\ Promised["madvise_pageout"][3] = {"0xAA"} /\ Promised["madvise_pageout"][4] = 0 .. Large
  /\ Promised["overcommit"][1] = {0} /\ Promised["overcommit"][2] = {0, 1}
  /\ Promised["getrusage_demo"][1] = {0} /\ Promised["getrusage_demo"][2] = {Large}
  /\ Promised["getrusage_demo"][3] = Large .. 2 * Large
  /\ Promised["getrusage_demo"][4] = Large .. 2 * Large
  /\ Promised["mprotect_jit"][1] = {"code"}

(* So it does: *)
LEMMA PromisedIs == PromisesAre
<1>2. Promised =
  [pagesize |-> <<{"a..z"}>>,
   lazy_allocation |-> <<{0}, {0}, {0}, Some, Dropped(0), {0}>>,
   count_page_faults |-> <<{0}, {Large}, Some, Dropped(Large)>>,
   pagemap |-> [k \in 1 .. 6 |-> {"present", "swap"} \cup (IF k \in {4, 5} THEN {} ELSE {"none"})],
   recursion_depth |-> <<{StackFrames}>>,
   stack_overflow |-> <<{StackFrames}>>,
   malloc_basics |-> <<{"junk"}, {"zero"}>>,
   calloc_realloc |-> <<{"zero"}, {"(nil)"}, {"1234567"}, {"1234567", NullText},
             {"1234567", NullText, "junk"}>>,
   malloc_trim |-> <<{0}, 0 .. 2, 0 .. 2, {0}>>,
   anon_mmap |-> <<{"zero"}, {"zero"}, {Greeting}>>,
   file_mmap |-> <<{"hello"}, {"Hello"}, {"hello"}>>,
   file_share_write |-> <<{"AA"}, {"BA"}>>,
   madvise_dontneed |-> <<{0}, Some, Dropped(0), Blank, Blank, Dropped(0)>>,
   mremap |-> <<{"marker"}, {"marker"}, {"marker"}>>,
   fixed_noreplace |-> <<{"mapped", "EEXIST", "failed"}, {"EEXIST", "failed"}>>,
   brk_directly |-> <<{0}, {2, 3}, 0 .. 3>>,
   mlock |-> <<{0}, Some, {Large}, Some>>,
   madvise_pageout |-> <<Some, Some, {"0xAA"}, Some>>,
   overcommit |-> <<{0}, {0, 1}>>,
   getrusage_demo |-> <<{0}, {Large}, Large .. 2 * Large, Large .. 2 * Large>>,
   mprotect_jit |-> <<{"code"}>>]
  BY Zenon DEF Promised, Greeting, NullText
<1>3. /\ Promised["pagesize"] = <<{"a..z"}>>
      /\ Promised["lazy_allocation"] = <<{0}, {0}, {0}, Some, Dropped(0), {0}>>
      /\ Promised["count_page_faults"] = <<{0}, {Large}, Some, Dropped(Large)>>
      /\ Promised["pagemap"] = [k \in 1 .. 6 |-> {"present", "swap"} \cup (IF k \in {4, 5} THEN {}
             ELSE {"none"})]
      /\ Promised["recursion_depth"] = <<{StackFrames}>>
      /\ Promised["stack_overflow"] = <<{StackFrames}>>
      /\ Promised["malloc_basics"] = <<{"junk"}, {"zero"}>>
      /\ Promised["calloc_realloc"] = <<{"zero"}, {"(nil)"}, {"1234567"}, {"1234567", NullText},
             {"1234567", NullText, "junk"}>>
      /\ Promised["malloc_trim"] = <<{0}, 0 .. 2, 0 .. 2, {0}>>
      /\ Promised["anon_mmap"] = <<{"zero"}, {"zero"}, {Greeting}>>
      /\ Promised["file_mmap"] = <<{"hello"}, {"Hello"}, {"hello"}>>
      /\ Promised["file_share_write"] = <<{"AA"}, {"BA"}>>
      /\ Promised["madvise_dontneed"] = <<{0}, Some, Dropped(0), Blank, Blank, Dropped(0)>>
      /\ Promised["mremap"] = <<{"marker"}, {"marker"}, {"marker"}>>
      /\ Promised["fixed_noreplace"] = <<{"mapped", "EEXIST", "failed"}, {"EEXIST", "failed"}>>
      /\ Promised["brk_directly"] = <<{0}, {2, 3}, 0 .. 3>>
      /\ Promised["mlock"] = <<{0}, Some, {Large}, Some>>
      /\ Promised["madvise_pageout"] = <<Some, Some, {"0xAA"}, Some>>
      /\ Promised["overcommit"] = <<{0}, {0, 1}>>
      /\ Promised["getrusage_demo"] = <<{0}, {Large}, Large .. 2 * Large, Large .. 2 * Large>>
      /\ Promised["mprotect_jit"] = <<{"code"}>>
  BY <1>2
<1> QED BY <1>3 DEF Some, PromisesAre
=============================================================================
