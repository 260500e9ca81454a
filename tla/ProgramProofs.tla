--------------------------- MODULE ProgramProofs ----------------------------
(***************************************************************************)
(* The memory programs, again for all sizes: what follows from what a      *)
(* program holds for its accesses, its end and what is left of it then,    *)
(* and what it prints.                                                     *)
(***************************************************************************)
EXTENDS MemoryProofs

(* What a program accesses is mapped, or its pointer came from a call that *)
(* failed.                                                                 *)
LEMMA HeldAccess ==
  ASSUME MemoryInv, OwnInv, end = "running", program \notin Printers, program # "segfault_handler",
         Step.op \in {"read", "touch", "str", "write", "exec"}
  PROVE  /\ Step.p \in Pointers
         /\ \/ ptr[Step.p] = Nowhere /\ failed
            \/ /\ ptr[Step.p] # Nowhere /\ Address \in Addresses /\ page[Address] # Unmapped
               /\ Address \in Span(ptr[Step.p], Have(Step.p))
               /\ page[Address].kind = KindOf(program, Step.p)
<1>1. WhereInv /\ PagesInv /\ Owns
  BY DEF MemoryInv, OwnInv
<1>2. /\ Step.p \in Pointers /\ Step.k \in 0 .. Have(Step.p) - 1 /\ Have(Step.p) \in Nat
  BY <1>1, FitsNow DEF Fits, Step, Have
<1>3. CASE ptr[Step.p] = Nowhere
  BY <1>1, <1>2, <1>3 DEF Owns, Holds
<1>4. CASE ptr[Step.p] # Nowhere
  <2>1. Whole(Step.p)
    BY <1>1, <1>2, <1>4 DEF Owns
  <2>2. ptr[Step.p] \in Int
    BY <1>1, <1>2, <1>4, AddressesAre DEF PagesInv
  <2>3. Address \in Span(ptr[Step.p], Have(Step.p))
    BY <1>2, <2>2 DEF Address, Span
  <2> QED BY <1>2, <1>4, <2>1, <2>3 DEF Whole
<1> QED BY <1>3, <1>4

(* Such a page can be accessed unless mprotect() or MAP_ANONYMOUS without  *)
(* PROT_EXEC forbids it.                                                   *)
LEMMA RightAccess ==
  ASSUME MemoryInv, OwnInv, ProtInv, end = "running", program \notin Printers,
         program # "segfault_handler", program \notin Guarded, ~ failed,
         Step.op \in {"read", "touch", "str", "write"}
  PROVE  Accessible
<1>1. ptr[Step.p] # Nowhere /\ Address \in Addresses /\ page[Address] # Unmapped
  BY HeldAccess
<1>2. page[Address].prot = RW
  BY <1>1 DEF ProtInv
<1>3. Mode[Step.op] \in RW
  BY DEF Mode, RW
<1> QED BY <1>1, <1>2, <1>3 DEF Accessible

(* A bad access is what a program gets that has not looked, ... *)
LEMMA BadUnchecked ==
  ASSUME MemoryInv, OwnInv, ProtInv, GuardInv, CarefulInv, BadAccess,
         program \notin Printers, program \notin Faulters
  PROVE  failed /\ program \in Unchecked
<1>0. /\ WhereInv /\ end = "running" /\ ~ Accessible
      /\ Step.op \in {"read", "touch", "str", "write", "exec"}
  BY OpOf DEF MemoryInv, BadAccess, Accesses
<1>1. program \in Unchecked \cup Careful /\ (Step.op = "exec" => program = "mprotect_jit")
  BY <1>0, FitsNow DEF Fits, Step, Faulters
<1>2. program \in Careful => ~ failed
  BY <1>0 DEF CarefulInv
<1>3. program # "mprotect_jit"
  <2>1. SUFFICES ASSUME program = "mprotect_jit" PROVE FALSE
    OBVIOUS
  <2>2. ~ failed /\ program # "segfault_handler"
    BY <1>2, <2>1 DEF Careful
  <2>3. ptr[Step.p] # Nowhere /\ Address \in Addresses /\ page[Address] # Unmapped
    BY <1>0, <2>2, HeldAccess
  <2>4. /\ pc \in 1 .. 7 /\ pc \in {3, 5}
        /\ pc = 3 => Step.op = "write" /\ Step.p = "p" /\ Step.k = 0
        /\ pc = 5 => Step.op = "exec" /\ Step.p = "p" /\ Step.k = 0
    BY <1>0, <2>1, JitSteps
  <2>5. ptr["p"] \in Addresses
    BY <2>3, <2>4 DEF MemoryInv, PagesInv, Pointers
  <2>6. Address = ptr["p"]
    BY <2>4, <2>5, AddressesAre DEF Address
  <2>7. /\ pc = 3 => page[Address].prot = RW
        /\ pc = 5 => page[Address].prot = {"r", "x"}
    BY <1>0, <2>1, <2>2, <2>6 DEF GuardInv
  <2>8. Mode["write"] = "w" /\ Mode["exec"] = "x"
    BY DEF Mode
  <2>9. Mode[Step.op] \in page[Address].prot
    BY <2>4, <2>7, <2>8 DEF RW
  <2> QED BY <1>0, <2>3, <2>9 DEF Accessible
<1>4. program \notin Guarded /\ program # "segfault_handler"
  BY <1>3 DEF Guarded, Faulters
<1>5. failed
  BY <1>0, <1>1, <1>3, <1>4, RightAccess
<1> QED BY <1>1, <1>2, <1>5

(* what those get that fault on purpose, where they mean to unless a call  *)
(* failed,                                                                 *)
LEMMA BadFaulter ==
  ASSUME MemoryInv, OwnInv, ProtInv, GuardInv, HandlerInv, BadAccess, program \in Faulters
  PROVE  /\ end' = "handled" /\ pc' = pc /\ program' = program /\ failed' = failed
         /\ failed \/ Script[program][pc + 1] = Unreachable
<1>0. /\ WhereInv /\ end = "running" /\ ~ Accessible /\ Segv(FALSE) /\ failed' = failed
      /\ Step.op \in {"read", "touch", "str", "write", "exec"}
  BY OpOf DEF MemoryInv, BadAccess, Accesses
<1>1. program \notin Printers
  BY DEF Printers, Faulters
<1>2. CASE program = "mprotect_guard"
  <2>1. /\ pc \in {5, 6} /\ Step.p = "p"
        /\ pc = 5 => Step.op = "write" /\ Step.k = 1
        /\ pc = 6 => Script[program][pc + 1] = Unreachable
    BY <1>0, <1>2, GuardSteps
  <2>2. handler.how = "exit"
    BY <1>0, <1>2, <2>1 DEF HandlerInv
  <2>3. ~ failed => pc # 5
    <3>1. SUFFICES ASSUME ~ failed, pc = 5 PROVE FALSE
      OBVIOUS
    <3>2. ptr[Step.p] # Nowhere /\ Address \in Addresses /\ page[Address] # Unmapped
      BY <1>0, <1>1, <1>2, <3>1, HeldAccess
    <3>3. Address = ptr["p"] + 1
      BY <2>1, <3>1 DEF Address
    <3>4. page[Address].prot = RW
      BY <1>0, <1>2, <3>1, <3>3 DEF GuardInv
    <3>5. Mode[Step.op] \in page[Address].prot
      BY <2>1, <3>1, <3>4 DEF Mode, RW
    <3> QED BY <1>0, <3>2, <3>5 DEF Accessible
  <2> QED BY <1>0, <2>1, <2>2, <2>3 DEF Segv
<1>3. CASE program = "segfault_handler"
  <2>1. pc = 2 /\ Script[program][pc + 1] = Unreachable
    BY <1>0, <1>3, SegfaultSteps
  <2>2. handler.how = "exit"
    BY <1>0, <1>3, <2>1 DEF HandlerInv
  <2> QED BY <1>0, <2>1, <2>2 DEF Segv
<1>4. CASE program = "w_xor_x"
  <2>1. /\ pc \in {3, 4}
        /\ pc = 3 => Step.op = "write"
        /\ pc = 4 => Script[program][pc + 1] = Unreachable
    BY <1>0, <1>4, WXorXSteps
  <2>2. handler.how = "exit"
    BY <1>0, <1>4, <2>1 DEF HandlerInv
  <2>3. ~ failed => pc # 3
    <3>1. program \notin Guarded
      BY <1>4 DEF Guarded
    <3> QED BY <1>0, <1>1, <1>4, <2>1, <3>1, RightAccess
  <2> QED BY <1>0, <2>1, <2>2, <2>3 DEF Segv
<1> QED BY <1>2, <1>3, <1>4 DEF Faulters

(* and what the two that print their addresses never get. *)
LEMMA BadPrinter ==
  ASSUME MemoryInv, ProtInv, BadAccess PROVE program \notin Printers
<1>0. /\ WhereInv /\ end = "running" /\ ~ Accessible
      /\ Step.op \in {"read", "touch", "str", "write", "exec"}
  BY OpOf DEF MemoryInv, BadAccess, Accesses
<1>1. SUFFICES ASSUME program \in Printers PROVE FALSE
  OBVIOUS
<1>2. CASE program = "fixed_noreplace"
  <2>1. pc \in 1 .. 8
    BY <1>0, <1>2, ScriptOf, FixedScript DEF WhereInv
  <2> QED BY <1>0, <1>2, <2>1, ScriptOf, FixedScript
        DEF Step, Mmap, Get, Munmap, Printf, Do, MmapFixed, Check, Return
<1>3. CASE program = "brk_directly"
  <2>1. pc \in 1 .. 10
    BY <1>0, <1>3, ScriptOf, BreakScript DEF WhereInv
  <2>2. pc \in {6, 7} /\ Step.op = "write" /\ Step.p = "got" /\ Step.k = pc - 6
    BY <1>0, <1>3, <2>1, ScriptOf, BreakScript
    DEF Step, Brk, Printf, Do, Sbrk, Check, Write, SbrkBack, Return
  <2>3. Raised
    BY <1>3, <2>2 DEF MemoryInv, BreakInv
  <2>4. Address = brk - 2 + Step.k /\ ptr["got"] # Nowhere
    BY <2>2, <2>3 DEF Raised, Address, Nowhere
  <2>5. Address \in Addresses /\ page[Address].kind = "brk"
    BY <2>2, <2>3, <2>4, AddressesAre DEF Raised
  <2>6. page[Address] # Unmapped
    BY <2>5 DEF Unmapped
  <2>7. page[Address].prot = RW
    BY <1>3, <2>5, <2>6 DEF ProtInv, Guarded
  <2>8. Mode[Step.op] \in page[Address].prot
    BY <2>2, <2>7 DEF Mode, RW
  <2> QED BY <1>0, <2>2, <2>4, <2>6, <2>8 DEF Accessible
<1> QED BY <1>1, <1>2, <1>3 DEF Printers
-----------------------------------------------------------------------------
(* Edited pages keep their protection, and are found at the same pointers. *)
LEMMA EditedProt ==
  ASSUME Edited, NEW b \in Addresses
  PROVE  page[b] # Unmapped => page'[b] # Unmapped /\ page'[b].prot = page[b].prot
BY DEF Edited, Alike

(* A program that holds n pages at p has them in its address space. *)
LEMMA HeldPages ==
  ASSUME PagesInv, Owns, ~ failed, NEW r \in Pointers, Have(r) \in Nat, Have(r) > 0
  PROVE  /\ ptr[r] \in Addresses
         /\ \A k \in 0 .. Have(r) - 1 : ptr[r] + k \in Addresses /\ page[ptr[r] + k] # Unmapped
<1>1. Holds(r) /\ Whole(r)
  BY DEF Owns
<1>2. ptr[r] \in Addresses
  BY <1>1 DEF Holds, PagesInv
<1>3. \A k \in 0 .. Have(r) - 1 : ptr[r] + k \in Span(ptr[r], Have(r))
  BY <1>2, AddressesAre DEF Span
<1> QED BY <1>1, <1>2, <1>3 DEF Whole

(* 05_mprotect_guard.c raises its guards, and 01_mprotect_jit.c writes its *)
(* code before it makes it executable.                                     *)
LEMMA GuardStep ==
  ASSUME MemoryInv, OwnInv, GuardInv, HandlerInv, [MCNext]_allVars
  PROVE  GuardInv'
<1>0. /\ WhereInv /\ PagesInv /\ program' = program /\ (failed => failed')
      /\ program \notin Jumpers => pc' \in {pc, pc + 1}
      /\ "p" \in Pointers
  BY GoesOn, FailedStays DEF MemoryInv, Pointers
<1>1. SUFFICES ASSUME program \in Guarded, ~ failed', end' = "running" PROVE GuardInv'
  BY <1>0 DEF GuardInv, Guarded
<1>2. ~ failed /\ end = "running"
  BY <1>0, <1>1, EndedStays
<1>3. program \notin Jumpers /\ program \notin Printers /\ Owns /\ program # "segfault_handler"
  BY <1>1, <1>2 DEF Guarded, Jumpers, Printers, OwnInv
<1>4. CASE Idle
  <2>1. Edited /\ UNCHANGED <<pc, ptr, failed>>
    BY <1>0, <1>4, IdleIs, EditSteps DEF Idle, allVars, vars, memory
  <2>2. CASE program = "mprotect_guard"
    <3>1. pc \in 1 .. 6 /\ (pc >= 2 => Have("p") = 3)
      BY <1>0, <1>2, <2>2, GuardSteps DEF GuardInv, Have, Holdings, Only, From
    <3>2. pc >= 2 => /\ ptr["p"] + 1 \in Addresses /\ page[ptr["p"] + 1] # Unmapped
                     /\ ptr["p"] + 2 \in Addresses /\ page[ptr["p"] + 2] # Unmapped
      BY <1>0, <1>2, <1>3, <3>1, HeldPages
    <3> QED BY <1>0, <1>2, <2>1, <2>2, <3>1, <3>2, EditedProt DEF GuardInv
  <2>3. CASE program = "mprotect_jit"
    <3>1. pc \in 1 .. 7 /\ (pc \in 2 .. 5 => Have("p") = 1)
      BY <1>0, <2>3, JitSteps DEF Have, Holdings, Only, From
    <3>2. pc \in 2 .. 5 => ptr["p"] \in Addresses /\ ptr["p"] + 0 \in Addresses
              /\ page[ptr["p"] + 0] # Unmapped
      BY <1>0, <1>2, <1>3, <3>1, HeldPages
    <3>3. pc \in 2 .. 5 => ptr["p"] \in Addresses /\ page[ptr["p"]] # Unmapped
      BY <3>2, AddressesAre
    <3>4. pc \in 2 .. 5 => page'[ptr["p"]].prot = page[ptr["p"]].prot
      BY <2>1, <3>3, EditedProt
    <3> QED BY <1>0, <1>2, <2>1, <2>3, <3>1, <3>4 DEF GuardInv
  <2> QED BY <1>1, <2>2, <2>3 DEF Guarded
<1>5. CASE program = "mprotect_guard" /\ ~ Idle
  <2>0. SUFFICES /\ pc' <= 6
                 /\ pc' >= 2 => page'[ptr'["p"] + 1].prot = RW
                 /\ pc' >= 3 => page'[ptr'["p"] + 2].prot = {}
    BY <1>0, <1>5 DEF GuardInv
  <2>1. /\ pc \in 1 .. 6 /\ (pc >= 2 => Have("p") = 3)
        /\ pc >= 2 => page[ptr["p"] + 1].prot = RW
        /\ pc >= 3 => page[ptr["p"] + 2].prot = {}
    BY <1>0, <1>2, <1>5, GuardSteps DEF GuardInv, Have, Holdings, Only, From
  <2>2. pc >= 2 => /\ ptr["p"] \in Addresses
                   /\ ptr["p"] + 1 \in Addresses /\ page[ptr["p"] + 1] # Unmapped
                   /\ ptr["p"] + 2 \in Addresses /\ page[ptr["p"] + 2] # Unmapped
    BY <1>0, <1>2, <1>3, <2>1, HeldPages
  <2>3. CASE pc = 1
    <3>1. Step.op = "get" /\ Step.p = "p" /\ Step.n = 3
      BY <1>0, <1>5, <2>3, GuardSteps
    <3>2. GetMemory /\ ~ Fails(Step.p)
      BY <1>1, <1>5, <3>1, StepOf DEF Fails
    <3>3. PICK a \in Room(Step.n) :
            /\ ptr' = [ptr EXCEPT ![Step.p] = a]
            /\ \A b \in Addresses : b \in Span(a, Step.n) => page'[b].prot = RW
      BY <1>0, <3>2, GetPages
    <3>4. a \in Int /\ a + 1 \in Span(a, 3)
      BY <3>3, AddressesAre DEF Room, Span
    <3>5. a + 1 \in Addresses
      BY <3>1, <3>3, <3>4, AddressesAre DEF Room
    <3>6. ptr'["p"] = a
      BY <1>0, <3>1, <3>3 DEF PagesInv
    <3> QED BY <1>0, <1>3, <2>3, <3>1, <3>3, <3>4, <3>5, <3>6
  <2>4. CASE pc \in {2, 3}
    <3>1. /\ Step.op = "mprotect" /\ Step.p = "p" /\ Step.k = (IF pc = 2 THEN 2 ELSE 0) /\ Step.prot = {}
      BY <1>0, <1>5, <2>4, GuardSteps
    <3>2. MprotectStep
      BY <1>5, <3>1, ActionAt
    <3>3. ptr' = ptr /\ page' = [page EXCEPT ![ptr[Step.p] + Step.k].prot = Step.prot]
      BY <1>1, <3>2 DEF MprotectStep
    <3>4. ptr["p"] \in Int
      BY <2>2, <2>4, AddressesAre
    <3>5. page'[ptr["p"] + 1] = page[ptr["p"] + 1]
      BY <1>0, <2>2, <2>4, <3>1, <3>2, <3>4, MprotectPage
    <3>8. ptr' = ptr
      BY <3>3
    <3>6. CASE pc = 2
      <4>1. ptr["p"] + 2 \in Addresses /\ IsPage(page[ptr["p"] + 2]) /\
            page[ptr["p"] + 2] # Unmapped
        BY <1>0, <2>2, <3>6 DEF PagesInv
      <4>2. DOMAIN page = Addresses
        BY <1>0 DEF PagesInv
      <4>3. page'[ptr["p"] + 2] = [page[ptr["p"] + 2] EXCEPT !.prot = Step.prot]
        BY <3>1, <3>3, <3>6, <4>1, <4>2
      <4>4. page'[ptr["p"] + 2].prot = Step.prot
        BY <4>1, <4>3, FieldEdits
      <4>5. pc' \in {2, 3}
        BY <1>0, <1>3, <3>6
      <4> QED BY <2>1, <3>1, <3>5, <3>6, <3>8, <4>4, <4>5
    <3>7. CASE pc = 3
      <4>1. page'[ptr["p"] + 2] = page[ptr["p"] + 2]
        BY <1>0, <2>2, <3>1, <3>2, <3>4, <3>7, MprotectPage
      <4>2. pc' \in {3, 4}
        BY <1>0, <1>3, <3>7
      <4> QED BY <2>1, <3>5, <3>7, <3>8, <4>1, <4>2
    <3> QED BY <2>4, <3>6, <3>7
  <2>5. CASE pc = 4
    <3>1. SigactionStep
      BY <1>0, <1>5, <2>5, GuardSteps, ActionAt
    <3>2. UNCHANGED <<page, ptr>>
      BY <3>1 DEF SigactionStep, memory
    <3> QED BY <1>0, <1>3, <2>1, <2>5, <3>2
  <2>6. CASE pc = 5
    <3>1. Step.op = "write"
      BY <1>0, <1>5, <2>6, GuardSteps
    <3>2. Store \/ BadAccess
      BY <1>5, <3>1, StepOf
    <3>3. ptr' = ptr /\ Edited
      BY <1>0, <3>2, EditSteps DEF Store, BadAccess, memory
    <3> QED BY <1>0, <1>3, <2>1, <2>2, <2>6, <3>3, EditedProt
  <2>7. CASE pc = 6
    <3>1. Step.op = "write" /\ Step.p = "p" /\ Step.k = 2
      BY <1>0, <1>5, <2>7, GuardSteps
    <3>2. Store \/ BadAccess
      BY <1>5, <3>1, StepOf
    <3>3. ~ Accessible
      BY <2>1, <2>7, <3>1 DEF Accessible, Address
    <3>4. BadAccess
      BY <3>2, <3>3 DEF Store
    <3>5. handler.how = "exit"
      BY <1>2, <1>5, <2>7 DEF HandlerInv
    <3> QED BY <1>1, <3>4, <3>5 DEF BadAccess, Segv
  <2> QED BY <2>1, <2>3, <2>4, <2>5, <2>6, <2>7
<1>6. CASE program = "mprotect_jit" /\ ~ Idle
  <2>0. SUFFICES /\ pc' \in 2 .. 4 => page'[ptr'["p"]].prot = RW
                 /\ pc' = 5 => page'[ptr'["p"]].prot = {"r", "x"}
    BY <1>0, <1>6 DEF GuardInv
  <2>1. /\ pc \in 1 .. 7 /\ (pc \in 2 .. 5 => Have("p") = 1)
        /\ pc \in 2 .. 4 => page[ptr["p"]].prot = RW
        /\ pc = 5 => page[ptr["p"]].prot = {"r", "x"}
    BY <1>0, <1>2, <1>6, JitSteps DEF GuardInv, Have, Holdings, Only, From
  <2>2. pc \in 2 .. 5 => ptr["p"] \in Addresses /\ page[ptr["p"]] # Unmapped
    <3>1. pc \in 2 .. 5 => ptr["p"] \in Addresses /\ page[ptr["p"] + 0] # Unmapped
      BY <1>0, <1>2, <1>3, <2>1, HeldPages
    <3> QED BY <3>1, AddressesAre
  <2>3. CASE pc = 1
    <3>1. Step.op = "get" /\ Step.p = "p" /\ Step.n = 1
      BY <1>0, <1>6, <2>3, JitSteps
    <3>2. GetMemory /\ ~ Fails(Step.p)
      BY <1>1, <1>6, <3>1, StepOf DEF Fails
    <3>3. PICK a \in Room(Step.n) :
            /\ ptr' = [ptr EXCEPT ![Step.p] = a]
            /\ \A b \in Addresses : b \in Span(a, Step.n) => page'[b].prot = RW
      BY <1>0, <3>2, GetPages
    <3>4. a \in Addresses /\ a \in Span(a, 1)
      BY <3>3, AddressesAre DEF Room, Span
    <3>6. ptr'["p"] = a
      BY <1>0, <3>1, <3>3 DEF PagesInv
    <3> QED BY <1>0, <1>3, <2>3, <3>1, <3>3, <3>4, <3>6
  <2>4. CASE pc \in {2, 3}
    <3>1. Step.op \in {"check", "write"}
      BY <1>0, <1>6, <2>4, JitSteps
    <3>2. CheckStep \/ Store \/ BadAccess
      BY <1>6, <3>1, StepOf
    <3>3. ptr' = ptr /\ Edited
      BY <1>0, <3>2, EditSteps DEF CheckStep, Store, BadAccess, memory
    <3> QED BY <1>0, <1>3, <2>1, <2>2, <2>4, <3>3, EditedProt
  <2>5. CASE pc = 4
    <3>1. /\ Step.op = "mprotect" /\ Step.p = "p" /\ Step.k = 0 /\ Step.prot = {"r", "x"}
      BY <1>0, <1>6, <2>5, JitSteps
    <3>2. MprotectStep
      BY <1>6, <3>1, ActionAt
    <3>3. ptr' = ptr /\ page' = [page EXCEPT ![ptr[Step.p] + Step.k].prot = Step.prot] /\
          pc' = 5
      BY <1>1, <2>5, <3>2 DEF MprotectStep, Advance
    <3>4. ptr["p"] + 0 = ptr["p"]
      BY <2>2, <2>5, AddressesAre
    <3>5. ptr["p"] \in Addresses /\ IsPage(page[ptr["p"]]) /\ page[ptr["p"]] # Unmapped
      BY <1>0, <2>2, <2>5 DEF PagesInv
    <3>6. DOMAIN page = Addresses
      BY <1>0 DEF PagesInv
    <3>7. page'[ptr["p"]] = [page[ptr["p"]] EXCEPT !.prot = Step.prot]
      BY <3>1, <3>3, <3>4, <3>5, <3>6
    <3>8. page'[ptr["p"]].prot = Step.prot
      BY <3>5, <3>7, FieldEdits
    <3> QED BY <3>1, <3>3, <3>8
  <2>6. CASE pc = 5
    <3>1. Step.op = "exec"
      BY <1>0, <1>6, <2>6, JitSteps
    <3>2. Load \/ BadAccess
      BY <1>6, <3>1, ActionAt
    <3>3. ptr' = ptr /\ Edited
      BY <1>0, <3>2, EditSteps DEF Load, BadAccess, memory
    <3> QED BY <1>0, <1>3, <2>1, <2>2, <2>6, <3>3, EditedProt
  <2>7. CASE pc \in {6, 7}
    BY <1>0, <1>3, <2>7
  <2> QED BY <2>1, <2>3, <2>4, <2>5, <2>6, <2>7
<1> QED BY <1>1, <1>4, <1>5, <1>6 DEF Guarded
-----------------------------------------------------------------------------
(* 10_double_free.c, step by step. *)
LEMMA DoubleSteps ==
  ASSUME WhereInv, program = "double_free"
  PROVE  /\ pc \in 1 .. 5
         /\ pc = 1 => Step.op = "get" /\ Step.p = "p" /\ Step.n = 1
         /\ pc \in {2, 3} => Step.op = "free" /\ Step.p = "p"
         /\ pc = 3 => \A r \in Pointers : Have(r) = 0
         /\ pc = 4 => Step.op = "unreachable"
         /\ pc = 5 => Step.op = "return"
<1>1. Script["double_free"] = <<Malloc("p", 1), Free("p"), Free("p"), Unreachable, Return>>
  BY ScriptOf DEF double_free
<1>2. pc \in 1 .. 5
  BY <1>1 DEF WhereInv
<1>3. pc = 3 => \A r \in Pointers : Have(r) = 0
  BY DEF Have, Holdings, Only, From
<1> QED BY <1>1, <1>2, <1>3 DEF Step, Malloc, Get, Free, Unreachable, Return, Do

(* A SIGSEGV that does not jump leaves the program where it is. *)
LEMMA SegvStays ==
  ASSUME WhereInv, program \notin Jumpers, Segv(FALSE) \/ Segv(TRUE)
  PROVE  pc' = pc /\ program' = program
BY DEF WhereInv, Segv

(* Nothing gets past the access that 03_segfault_handler.c and             *)
(* 06_w_xor_x.c make, and nothing past the second free() of                *)
(* 10_double_free.c.                                                       *)
LEMMA StopStep ==
  ASSUME MemoryInv, OwnInv, ProtInv, GuardInv, HandlerInv, StopInv, [MCNext]_allVars
  PROVE  StopInv'
<1>0. /\ WhereInv /\ PagesInv /\ program' = program /\ (failed => failed')
      /\ program \notin Jumpers => pc' \in {pc, pc + 1}
  BY GoesOn, FailedStays DEF MemoryInv
<1>1. CASE end # "running" \/ Idle
  <2>1. UNCHANGED <<program, pc, ptr, failed>>
    BY <1>1, EndedStays, IdleIs
  <2> QED BY <2>1 DEF StopInv
<1>2. CASE end = "running" /\ ~ Idle
  <2>1. ASSUME program = "segfault_handler" PROVE pc' <= 2
    <3>1. pc \in 1 .. 2 /\ (pc = 2 => Step.op = "write" /\ Step.p = "NULL")
      BY <1>0, <2>1, SegfaultSteps DEF StopInv
    <3>2. program \notin Jumpers /\ program \notin Printers
      BY <2>1 DEF Jumpers, Printers
    <3>3. CASE pc = 2
      <4>1. ptr["NULL"] = Nowhere
        BY <1>2, <3>2 DEF OwnInv, Owns
      <4>2. ~ Store
        BY <3>1, <3>3, <4>1 DEF Store, Accessible
      <4>3. BadAccess
        BY <1>2, <3>1, <3>3, <4>2, StepOf
      <4> QED BY <1>0, <3>2, <3>3, <4>3, SegvStays DEF BadAccess
    <3> QED BY <1>0, <3>1, <3>2, <3>3
  <2>2. ASSUME program = "w_xor_x" PROVE pc' <= 4
    <3>1. pc \in 1 .. 4 /\ (pc = 4 => Step.op = "exec")
      BY <1>0, <2>2, WXorXSteps DEF StopInv
    <3>2. program \notin Jumpers /\ program \notin Printers /\ program \notin Guarded
          /\ program # "segfault_handler"
      BY <2>2 DEF Jumpers, Printers, Guarded
    <3>3. CASE pc = 4
      <4>1. ~ Load
        <5>1. SUFFICES ASSUME Accessible PROVE FALSE
          BY DEF Load
        <5>2. Address \in Addresses /\ page[Address] # Unmapped
          BY <1>2, <3>1, <3>2, <3>3, <5>1, HeldAccess DEF Accessible
        <5>3. page[Address].prot = RW /\ Mode[Step.op] = "x"
          BY <3>1, <3>2, <3>3, <5>2 DEF ProtInv, Mode
        <5> QED BY <5>1, <5>3 DEF Accessible, RW
      <4>2. BadAccess
        BY <1>2, <3>1, <3>3, <4>1, ActionAt
      <4> QED BY <1>0, <3>2, <3>3, <4>2, SegvStays DEF BadAccess
    <3> QED BY <1>0, <3>1, <3>2, <3>3
  <2>3. ASSUME program = "double_free", ~ failed'
        PROVE  pc' <= 3 /\ (pc' >= 2 => ptr'["p"] # Nowhere)
    <3>0. /\ program \notin Jumpers /\ program \notin Printers /\ program \notin Resizers
          /\ ~ failed /\ Owns /\ "p" \in Pointers
      BY <1>0, <1>2, <2>3 DEF Jumpers, Printers, Resizers, OwnInv, Pointers
    <3>1. /\ pc \in 1 .. 3 /\ (pc >= 2 => ptr["p"] # Nowhere)
          /\ pc = 1 => Step.op = "get" /\ Step.p = "p" /\ Step.n = 1
          /\ pc \in {2, 3} => Step.op = "free" /\ Step.p = "p"
          /\ pc = 3 => \A r \in Pointers : Have(r) = 0
      BY <1>0, <2>3, <3>0, DoubleSteps DEF StopInv
    <3>2. CASE pc = 1
      <4>1. GetMemory /\ ~ Fails(Step.p)
        BY <1>2, <2>3, <3>1, <3>2, StepOf DEF Fails
      <4>2. PICK a \in Room(Step.n) : ptr' = [ptr EXCEPT ![Step.p] = a]
        BY <1>0, <4>1, GetPages
      <4>3. a \in Addresses
        BY <4>2, AddressesAre DEF Room
      <4>4. ptr'["p"] # Nowhere
        BY <1>0, <3>0, <3>1, <3>2, <4>2, <4>3, AddressesAre DEF PagesInv
      <4> QED BY <1>0, <3>0, <3>2, <4>4
    <3>3. CASE pc \in {2, 3}
      <4>1. FreeStep
        BY <1>2, <3>1, <3>3, StepOf
      <4>2. ptr' = ptr
        BY <4>1 DEF FreeStep
      <4>3. pc = 3 => pc' = pc
        <5>1. SUFFICES ASSUME pc = 3 PROVE pc' = pc
          OBVIOUS
        <5>2. Covered
          BY <3>0 DEF Owns
        <5>3. \A b \in Addresses : page[b] = Unmapped
          BY <3>1, <5>1, <5>2 DEF Covered, Holds
        <5>4. Block(ptr[Step.p]) = {}
          BY <5>3 DEF Block, Unmapped
        <5>5. ptr[Step.p] # Nowhere
          BY <3>1, <5>1
        <5> QED BY <4>1, <5>4, <5>5 DEF FreeStep, Leave
      <4> QED BY <1>0, <3>0, <3>1, <3>3, <4>2, <4>3
    <3> QED BY <3>1, <3>2, <3>3
  <2>4. ASSUME program = "mprotect_guard", ~ failed' PROVE pc' <= 6
    <3>1. GuardInv'
      BY GuardStep
    <3>2. CASE end' = "running"
      BY <1>0, <2>4, <3>1, <3>2 DEF GuardInv
    <3>3. CASE end' # "running"
      <4>1. pc' = pc
        <5>1. ~ Advance /\ ~ Stays /\ ~ SigactionStep
          BY <1>2, <3>3 DEF Advance, Stays, SigactionStep
        <5>2. program \notin Jumpers
          BY <2>4 DEF Jumpers
        <5> QED BY <1>0, <5>1, <5>2, Moves, SegvStays DEF Leave
      <4> QED BY <1>0, <2>4, <4>1 DEF StopInv
    <3> QED BY <3>2, <3>3
  <2> QED BY <1>0, <2>1, <2>2, <2>3, <2>4 DEF StopInv
<1> QED BY <1>1, <1>2
-----------------------------------------------------------------------------
(* The steps with which a program can end. *)
LEMMA EndsBy ==
  ASSUME [MCNext]_allVars, end = "running", end' # "running"
  PROVE  \/ end' = "error"
         \/ BadAccess
         \/ Step.op \in {"read_file", "rss", "maps", "measure"} /\ failed' = TRUE
            /\ end' \in {"killed", "handled"}
         \/ RecurseStep /\ Segv(TRUE)
         \/ FreeStep /\ Leave("killed") /\ ptr[Step.p] # Nowhere /\ Block(ptr[Step.p]) = {}
         \/ ReturnStep
<1>1. CASE GetMemory \/ MmapFileStep \/ MmapFixedStep \/ CheckStep \/ MunmapStep
  BY <1>1 DEF GetMemory, MmapFileStep, MmapFixedStep, CheckStep, MunmapStep, Advance, Leave
<1>2. CASE ResizeStep \/ MprotectStep \/ DontneedStep \/ PageoutStep \/ MlockStep \/ MunlockStep
  BY <1>2
     DEF ResizeStep, MprotectStep, DontneedStep, PageoutStep, MlockStep, MunlockStep, Advance,
         Leave
<1>3. CASE SbrkStep \/ SbrkBackStep \/ PrintBreak \/ PrintfBuffer \/ Load \/ Store \/ PrintNull
  BY <1>3 DEF SbrkStep, SbrkBackStep, PrintBreak, PrintfBuffer, Load, Store, PrintNull, Advance
<1>4. CASE LandedStep \/ OpenStep \/ WriteFileStep \/ SigactionStep
  BY <1>4 DEF LandedStep, OpenStep, WriteFileStep, SigactionStep, Advance, Leave
<1>5. CASE ReadFileStep \/ UnlinkStep \/ RssStep \/ MapsStep \/ RusageStep
  BY <1>5 DEF ReadFileStep, UnlinkStep, RssStep, MapsStep, RusageStep, Advance
<1>6. CASE PagemapStep \/ UnreachableStep \/ TrimStep \/ OverflowStep
  BY <1>6 DEF PagemapStep, UnreachableStep, TrimStep, OverflowStep, Advance, Leave
<1>7. CASE At("measure") /\ Measuring
  BY <1>7 DEF Measuring, At, vars, Advance, Segv
<1>8. CASE MCReclaim \/ UNCHANGED allVars
  BY <1>8 DEF MCReclaim, Reclaim, allVars, vars
<1>9. CASE FopenFails
  BY <1>9 DEF FopenFails, Segv
<1>10. CASE FreeStep
  BY <1>10 DEF FreeStep, Advance
<1>11. CASE RecurseStep
  BY <1>11 DEF RecurseStep
<1> QED
  BY <1>1, <1>2, <1>3, <1>4, <1>5, <1>6, <1>7, <1>8, <1>9, <1>10, <1>11
     DEF MCNext, MCProcess, Process, PlainStep

(* free() finds every block but the one that 10_double_free.c has freed.   *)
LEMMA FreeFinds ==
  ASSUME MemoryInv, OwnInv, FreeStep, ptr[Step.p] # Nowhere, Block(ptr[Step.p]) = {}
  PROVE  program = "double_free"
<1>0. WhereInv /\ PagesInv /\ Step.op = "free" /\ end = "running"
  BY OpOf, RunningOf DEF MemoryInv
<1>1. program \notin Printers
  BY <1>0, PrinterOps
<1>2. Owns
  BY <1>0, <1>1 DEF OwnInv
<1>3. /\ Step.p \in Pointers /\ KindOf(program, Step.p) = "heap"
      /\ Have(Step.p) > 0 \/ Step.p = "NULL" \/ program = "double_free"
      /\ Have(Step.p) \in Nat
  BY <1>0, <1>1, FitsNow DEF Fits, Step, Have
<1>4. CASE Have(Step.p) > 0
  <2>1. Whole(Step.p)
    BY <1>2, <1>3, <1>4 DEF Owns
  <2>2. ptr[Step.p] \in Addresses
    BY <1>0, <1>3 DEF PagesInv
  <2>3. ptr[Step.p] \in Span(ptr[Step.p], Have(Step.p))
    BY <1>3, <1>4, <2>2, SpanFacts
  <2>4. ptr[Step.p] \in Block(ptr[Step.p])
    BY <1>3, <2>1, <2>2, <2>3 DEF Whole, Block
  <2> QED BY <2>4
<1> QED BY <1>2, <1>3, <1>4 DEF Owns

(* So a program ends as the property asks. *)
LEMMA EndStep ==
  ASSUME MemoryInv, OwnInv, ProtInv, GuardInv, CarefulInv, HandlerInv, EndInv, [MCNext]_allVars
  PROVE  EndInv'
<1>0. WhereInv /\ program' = program
  BY GoesOn DEF MemoryInv
<1>1. CASE end # "running"
  <2>1. UNCHANGED <<program, pc, end, failed>>
    BY <1>1, EndedStays
  <2> QED BY <2>1 DEF EndInv, Step
<1>2. CASE end' \in {"running", "error"}
  BY <1>2 DEF EndInv
<1>3. CASE end = "running" /\ end' \notin {"running", "error"}
  <2>1. CASE BadAccess
    <3>1. failed' = failed /\ Segv(FALSE)
      BY <2>1 DEF BadAccess
    <3>2. end' # "returned"
      BY <3>1 DEF Segv
    <3>3. CASE program \in Faulters
      <4>1. /\ end' = "handled" /\ pc' = pc
            /\ failed \/ Script[program][pc + 1] = Unreachable
        BY <2>1, <3>3, BadFaulter
      <4> QED BY <1>0, <3>1, <4>1 DEF EndInv
    <3>4. CASE program \notin Faulters
      <4>1. failed /\ program \in Unchecked
        BY <2>1, <3>4, BadPrinter, BadUnchecked
      <4> QED BY <1>0, <3>1, <3>2, <4>1 DEF EndInv
    <3> QED BY <3>3, <3>4
  <2>2. CASE /\ Step.op \in {"read_file", "rss", "maps", "measure"} /\ failed' = TRUE
             /\ end' \in {"killed", "handled"}
    <3>1. program \in Unchecked
      BY <1>0, <2>2, PrinterOps, FitsNow DEF Fits, Step
    <3> QED BY <1>0, <2>2, <3>1 DEF EndInv
  <2>3. CASE RecurseStep /\ Segv(TRUE)
    <3>1. Step.op = "recurse"
      BY <2>3, OpOf
    <3>2. program \in Jumpers
      BY <1>0, <3>1, PrinterOps, FitsNow DEF Fits, Step
    <3>3. pc = 2
      BY <1>0, <3>1, <3>2, JumpSteps
    <3>4. handler.how = "jump" /\ handler.alt = TRUE
      BY <1>3, <3>2, <3>3, Zenon DEF HandlerInv
    <3>5. end' = IF ~(handler.how # "default" /\ (TRUE => handler.alt)) THEN "killed"
                 ELSE IF handler.how = "exit" THEN "handled" ELSE "running"
      BY <2>3, Zenon DEF Segv
    <3>6. (handler.how # "default" /\ (TRUE => handler.alt)) /\ handler.how # "exit"
      BY <3>4, Zenon
    <3>7. end' = "running"
      BY <3>5, <3>6, Zenon
    <3> QED BY <1>2, <3>7
  <2>4. CASE FreeStep /\ Leave("killed") /\ ptr[Step.p] # Nowhere /\ Block(ptr[Step.p]) = {}
    <3>1. program = "double_free"
      BY <2>4, FreeFinds
    <3> QED BY <1>0, <2>4, <3>1 DEF EndInv, Leave
  <2>5. CASE ReturnStep
    <3>1. end' = "returned" /\ pc' = pc /\ Step.op = "return"
      BY <2>5, OpOf DEF ReturnStep, Leave
    <3> QED BY <1>0, <3>1 DEF EndInv, Step
  <2> QED BY <1>3, <2>1, <2>2, <2>3, <2>4, <2>5, EndsBy
<1> QED BY <1>1, <1>2, <1>3
-----------------------------------------------------------------------------
(* 02_file_mmap.c and 04_file_share_write.c: where they use their file.    *)
LEMMA FileSteps ==
  ASSUME WhereInv, program \in {"file_mmap", "file_share_write"}
  PROVE  LET last == IF program = "file_mmap" THEN 11 ELSE 10
         IN  /\ pc \in 1 .. last
             /\ Step.op = "open" => pc = 1
             /\ Step.op = "write_file" => pc = 2
             /\ pc = 3 <=> Step.op = "mmap_file"
             /\ Step.op = "write" => pc = 6
             /\ pc = last - 1 <=> Step.op = "unlink"
             /\ pc = last <=> Step.op = "return"
<1>1. CASE program = "file_mmap"
  <2>1. Script["file_mmap"] =
          <<Open(TRUE), WriteFile("hello"), MmapFile("p", "private"), Check("p"), Read("p", 0),
            Write("p", 0, "Hello"), Read("p", 0), ReadFile, Munmap("p", 1), Unlink, Return>>
    BY ScriptOf DEF file_mmap
  <2>2. pc \in 1 .. 11
    BY <1>1, <2>1 DEF WhereInv
  <2> QED BY <1>1, <2>1, <2>2
          DEF Step, Open, WriteFile, MmapFile, Check, Read, Write, ReadFile, Munmap,
                                  Unlink, Return, Do
<1>2. CASE program = "file_share_write"
  <2>1. Script["file_share_write"] =
          <<Open(FALSE), WriteFile("AA"), MmapFile("p", "shared"), Check("p"), Read("p", 0),
            Write("p", 0, "BA"), ReadFile, Munmap("p", 1), Unlink, Return>>
    BY ScriptOf DEF file_share_write
  <2>2. pc \in 1 .. 10
    BY <1>2, <2>1 DEF WhereInv
  <2> QED BY <1>2, <2>1, <2>2
          DEF Step, Open, WriteFile, MmapFile, Check, Read, Write, ReadFile, Munmap,
                                  Unlink, Return, Do
<1> QED BY <1>1, <1>2

(* The steps that change a file or its descriptor. *)
LEMMA FilesKept ==
  ASSUME [MCNext]_allVars
  PROVE  \/ UNCHANGED <<file, fd>>
         \/ MmapFileStep \/ OpenStep \/ WriteFileStep \/ UnlinkStep
         \/ Store
<1>1. CASE GetMemory \/ MmapFixedStep \/ CheckStep \/ MunmapStep \/ FreeStep
  BY <1>1 DEF GetMemory, MmapFixedStep, CheckStep, MunmapStep, FreeStep, files
<1>2. CASE ResizeStep \/ MprotectStep \/ DontneedStep \/ PageoutStep \/ MlockStep \/ MunlockStep
  BY <1>2 DEF ResizeStep, MprotectStep, DontneedStep, PageoutStep, MlockStep, MunlockStep, files
<1>3. CASE SbrkStep \/ SbrkBackStep \/ PrintBreak \/ PrintfBuffer \/ Load \/ PrintNull
  BY <1>3 DEF SbrkStep, SbrkBackStep, PrintBreak, PrintfBuffer, Load, PrintNull, files
<1>4. CASE BadAccess \/ RecurseStep \/ LandedStep \/ FopenFails \/ SigactionStep
  BY <1>4 DEF BadAccess, RecurseStep, LandedStep, FopenFails, SigactionStep, files
<1>5. CASE ReadFileStep \/ RssStep \/ MapsStep \/ RusageStep
  BY <1>5 DEF ReadFileStep, RssStep, MapsStep, RusageStep, files
<1>6. CASE PagemapStep \/ UnreachableStep \/ ReturnStep \/ TrimStep \/ OverflowStep
  BY <1>6 DEF PagemapStep, UnreachableStep, ReturnStep, TrimStep, OverflowStep, files
<1>7. CASE At("measure") /\ Measuring
  BY <1>7 DEF Measuring, vars, files
<1>8. CASE MCReclaim \/ UNCHANGED allVars
  BY <1>8 DEF MCReclaim, Reclaim, allVars, vars, files
<1> QED
  BY <1>1, <1>2, <1>3, <1>4, <1>5, <1>6, <1>7, <1>8 DEF MCNext, MCProcess, Process, PlainStep

(* A store reaches a file only through a shared mapping of it. *)
LEMMA StoreFile ==
  ASSUME MemoryInv, OwnInv, Store, program \notin {"file_mmap", "file_share_write"}
  PROVE  UNCHANGED <<file, fd>>
<1>0. /\ WhereInv /\ end = "running" /\ Accessible /\ Step.op = "write" /\ fd' = fd
  BY OpOf DEF MemoryInv, Store, Accesses
<1>1. SUFFICES page[Address].kind # "shared"
  BY <1>0 DEF Store
<1>2. CASE program = "brk_directly"
  <2>1. pc \in 1 .. 10
    BY <1>0, <1>2, ScriptOf, BreakScript DEF WhereInv
  <2>2. pc \in {6, 7} /\ Step.p = "got" /\ Step.k = pc - 6
    BY <1>0, <1>2, <2>1, ScriptOf, BreakScript
    DEF Step, Brk, Printf, Do, Sbrk, Check, Write, SbrkBack, Return
  <2>3. Raised
    BY <1>2, <2>2 DEF MemoryInv, BreakInv
  <2> QED BY <2>2, <2>3 DEF Raised, Address
<1>3. CASE program = "fixed_noreplace"
  <2>1. pc \in 1 .. 8
    BY <1>0, <1>3, ScriptOf, FixedScript DEF WhereInv
  <2> QED BY <1>0, <1>3, <2>1, ScriptOf, FixedScript
        DEF Step, Mmap, Get, Munmap, Printf, Do, MmapFixed, Check, Return
<1>4. CASE program \notin Printers
  <2>1. CASE program = "segfault_handler"
    <3>1. Step.p = "NULL"
      BY <1>0, <2>1, SegfaultSteps
    <3>2. ptr["NULL"] = Nowhere
      BY <1>0, <1>4 DEF OwnInv, Owns
    <3> QED BY <1>0, <3>1, <3>2 DEF Accessible
  <2>2. CASE program # "segfault_handler"
    <3>1. page[Address].kind = KindOf(program, Step.p)
      BY <1>0, <1>4, <2>2, HeldAccess DEF Accessible
    <3> QED BY <3>1 DEF KindOf
  <2> QED BY <2>1, <2>2
<1> QED BY <1>2, <1>3, <1>4 DEF Printers

(* The two programs with a file close it after they have mapped it, and    *)
(* remove it before they return.                                           *)
LEMMA FileStep ==
  ASSUME MemoryInv, OwnInv, FileInv, [MCNext]_allVars
  PROVE  FileInv'
<1>0. WhereInv /\ program' = program /\ (program \notin Jumpers => pc' \in {pc, pc + 1})
  BY GoesOn DEF MemoryInv
<1>1. CASE program \notin {"file_mmap", "file_share_write"}
  <2>1. Step.op \notin {"open", "write_file", "mmap_file", "unlink"}
    BY <1>0, <1>1, PrinterOps, FitsNow DEF Fits, Step
  <2>2. UNCHANGED <<file, fd>>
    BY <1>1, <2>1, FilesKept, StoreFile, OpOf
  <2> QED BY <1>0, <1>1, <2>2 DEF FileInv
<1>2. CASE program \in {"file_mmap", "file_share_write"}
  <2> DEFINE last == IF program = "file_mmap" THEN 11 ELSE 10
  <2>1. /\ pc \in 1 .. last /\ last \in {10, 11}
        /\ Step.op = "open" => pc = 1
        /\ Step.op = "write_file" => pc = 2
        /\ pc = 3 <=> Step.op = "mmap_file"
        /\ Step.op = "write" => pc = 6
        /\ pc = last - 1 <=> Step.op = "unlink"
        /\ pc = last <=> Step.op = "return"
    BY <1>0, <1>2, FileSteps
  <2>2. /\ pc >= 4 => ~ fd
        /\ pc = last => file = "absent"
    BY <1>2 DEF FileInv
  <2>3. SUFFICES /\ pc' >= 4 => ~ fd'
                 /\ pc' = last => file' = "absent"
    BY <1>0, <1>2 DEF FileInv
  <2>4. pc' \in {pc, pc + 1}
    BY <1>0, <1>2 DEF Jumpers
  <2> HIDE DEF last
  <2>5. CASE MmapFileStep
    <3>1. pc = 3 /\ fd' = FALSE
      BY <2>1, <2>5, OpOf DEF MmapFileStep
    <3> QED BY <2>1, <2>4, <3>1
  <2>6. CASE OpenStep \/ WriteFileStep
    <3>1. pc \in {1, 2}
      BY <2>1, <2>6, OpOf
    <3> QED BY <2>1, <2>4, <3>1
  <2>7. CASE UnlinkStep
    <3>1. pc = last - 1 /\ file' = "absent" /\ fd' = fd
      BY <2>1, <2>7, OpOf DEF UnlinkStep
    <3> QED BY <2>1, <2>2, <2>4, <3>1
  <2>8. CASE Store
    <3>1. pc = 6 /\ fd' = fd
      BY <2>1, <2>8, OpOf DEF Store
    <3> QED BY <2>1, <2>2, <2>4, <3>1
  <2>9. CASE UNCHANGED <<file, fd>> /\ ~ MmapFileStep /\ ~ UnlinkStep
    <3>1. CASE pc' = pc
      BY <2>2, <2>9, <3>1
    <3>2. CASE pc' = pc + 1 /\ pc' # pc
      <4>1. ~ Idle
        BY <3>2, IdleIs
      <4>2. pc # 3 /\ pc # last - 1
        BY <2>1, <2>9, <4>1, ActionAt
      <4> QED BY <2>1, <2>2, <2>9, <3>2, <4>2
    <3> QED BY <2>4, <3>1, <3>2
  <2> QED BY <2>5, <2>6, <2>7, <2>8, <2>9, FilesKept
<1> QED BY <1>1, <1>2
-----------------------------------------------------------------------------
(* 09_map_fixed_noreplace.c and 02_brk_directly.c, step by step. *)
LEMMA FixedSteps ==
  ASSUME WhereInv, program = "fixed_noreplace"
  PROVE  /\ pc \in 1 .. 8
         /\ pc = 1 => Step.op = "get" /\ Step.p = "p" /\ Step.n = 1
         /\ pc = 2 => Step.op = "munmap" /\ Step.p = "p" /\ Step.n = 1
         /\ pc = 3 => Step.op = "printf"
         /\ pc = 4 => Step.op = "mmap_fixed" /\ Step.p = "q" /\ Step.at = "p" /\ Step.flag = "NOREPLACE"
         /\ pc = 5 => Step.op = "check" /\ Step.p = "q"
         /\ pc = 6 => Step.op = "mmap_fixed" /\ Step.p = "r" /\ Step.at = "p" /\ Step.flag = "NOREPLACE"
         /\ pc = 7 => Step.op = "munmap" /\ Step.p = "q" /\ Step.n = 1
         /\ pc = 8 => Step.op = "return"
<1>1. pc \in 1 .. 8
  BY ScriptOf, FixedScript DEF WhereInv
<1> QED BY <1>1, ScriptOf, FixedScript
        DEF Step, Mmap, Get, Munmap, Printf, Do, MmapFixed, Check, Return

(* The steps of 06_brk_sbrk/02_brk_directly.c, by their numbers. *)
LEMMA BreakSteps ==
  ASSUME WhereInv, program = "brk_directly"
  PROVE  /\ pc \in 1 .. 10
         /\ pc \in {1, 5, 9} => Step.op = "brk"
         /\ pc = 2 => Step.op = "printf"
         /\ pc = 3 => Step.op = "sbrk" /\ Step.p = "got" /\ Step.n = 2
         /\ pc = 4 => Step.op = "check" /\ Step.p = "got"
         /\ pc \in {6, 7} => Step.op = "write"
         /\ pc = 8 => Step.op = "sbrk_back" /\ Step.n = 2
         /\ pc = 10 => Step.op = "return"
<1>1. pc \in 1 .. 10
  BY ScriptOf, BreakScript DEF WhereInv
<1> QED BY <1>1, ScriptOf, BreakScript
        DEF Step, Brk, Printf, Do, Sbrk, Check, Write, SbrkBack, Return

(* munmap() drops the pages it is given. *)
LEMMA MunmapPages ==
  ASSUME PagesInv, MunmapStep
  PROVE  /\ ptr' = ptr /\ failed' = failed
         /\ ptr[Step.p] = Nowhere => page' = page
         /\ ptr[Step.p] # Nowhere => \A b \in Addresses :
              page'[b] = IF b \in Span(ptr[Step.p], Step.n) THEN Unmapped ELSE page[b]
BY DEF MunmapStep, Drop

(* 09_map_fixed_noreplace.c: what is mapped is the buffer of printf() and  *)
(* the one page it asked for.                                              *)
LEMMA FixedPagesStep ==
  ASSUME MemoryInv, FixedPagesInv, [MCNext]_allVars
  PROVE  FixedPagesInv'
<1>0. /\ WhereInv /\ PagesInv /\ program' = program
      /\ program \notin Jumpers => pc' \in {pc, pc + 1}
      /\ {"p", "q", "r"} \subseteq Pointers
  BY GoesOn DEF MemoryInv, Pointers
<1>1. SUFFICES ASSUME program = "fixed_noreplace" PROVE FixedPagesInv'
  BY <1>0 DEF FixedPagesInv
<1>2. /\ \A b \in Addresses : page[b] # Unmapped =>
           \/ page[b].kind = "library"
           \/ pc = 2 /\ b = ptr["p"]
           \/ pc \in 5 .. 7 /\ b = ptr["q"]
      /\ pc \in 5 .. 7 /\ ptr["q"] # Nowhere => ptr["q"] = ptr["p"] /\ page[ptr["q"]] # Unmapped
      /\ pc \in 6 .. 7 => ptr["q"] # Nowhere
  BY <1>1 DEF FixedPagesInv
<1>3. SUFFICES
      /\ \A b \in Addresses : page'[b] # Unmapped =>
           \/ page'[b].kind = "library"
           \/ pc' = 2 /\ b = ptr'["p"]
           \/ pc' \in 5 .. 7 /\ b = ptr'["q"]
      /\ pc' \in 5 .. 7 /\ ptr'["q"] # Nowhere => ptr'["q"] = ptr'["p"] /\ page'[ptr'["q"]] # Unmapped
      /\ pc' \in 6 .. 7 => ptr'["q"] # Nowhere
  BY <1>0, <1>1 DEF FixedPagesInv
<1>4. /\ pc' \in {pc, pc + 1} /\ pc \in 1 .. 8
      /\ ptr["p"] \in Addresses \cup {Nowhere} /\ ptr["q"] \in Addresses \cup {Nowhere}
      /\ Nowhere \notin Addresses
  BY <1>0, <1>1, FixedSteps, AddressesAre DEF Jumpers, PagesInv
<1>5. CASE Idle \/ end # "running"
  <2>1. UNCHANGED <<pc, ptr>> /\ Edited
    BY <1>0, <1>5, IdleIs, EditSteps, EndedStays DEF Idle, allVars, vars, memory
  <2>2. \A b \in Addresses : /\ page'[b] = Unmapped <=> page[b] = Unmapped
                             /\ page[b] # Unmapped => page'[b].kind = page[b].kind
    BY <2>1 DEF Edited, Alike
  <2> QED BY <1>2, <1>4, <2>1, <2>2
<1>6. CASE ~ Idle /\ end = "running"
  <2>1. CASE pc = 1
    <3>1. GetMemory /\ Step.p = "p" /\ Step.n = 1
      BY <1>0, <1>1, <1>6, <2>1, FixedSteps, StepOf
    <3>2. CASE Fails(Step.p)
      <4>1. page' = page
        BY <3>2 DEF Fails
      <4> QED BY <1>2, <1>4, <2>1, <4>1
    <3>3. CASE ~ Fails(Step.p)
      <4>1. PICK a \in Room(Step.n) :
              /\ ptr' = [ptr EXCEPT ![Step.p] = a]
              /\ \A b \in Addresses : b \notin Span(a, Step.n) => page'[b] = page[b]
        BY <1>0, <3>1, <3>3, GetPages
      <4>2. a \in Int
        BY <4>1, AddressesAre DEF Room
      <4>3. Span(a, Step.n) = {a}
        BY <3>1, <4>2 DEF Span
      <4>4. ptr'["p"] = a
        BY <1>0, <3>1, <4>1 DEF PagesInv
      <4>5. pc' = 2
        BY <2>1, <3>1 DEF GetMemory, Advance
      <4> QED BY <1>2, <2>1, <4>1, <4>3, <4>4, <4>5
    <3> QED BY <3>2, <3>3
  <2>2. CASE pc = 2
    <3>1. MunmapStep /\ Step.p = "p" /\ Step.n = 1 /\ pc' = 3
      BY <1>0, <1>1, <1>6, <2>2, FixedSteps, StepOf DEF MunmapStep, Advance
    <3>2. ptr["p"] # Nowhere => Span(ptr["p"], 1) = {ptr["p"]}
      BY <1>4, AddressesAre DEF Span
    <3>3. \A b \in Addresses : page'[b] # Unmapped => page'[b] = page[b] /\ b # ptr["p"]
      BY <1>0, <1>4, <3>1, <3>2, MunmapPages
    <3> QED BY <1>2, <2>2, <3>1, <3>3
  <2>3. CASE pc = 3
    <3>0. PrintfBuffer
      BY <1>0, <1>1, <1>6, <2>3, FixedSteps, StepOf
    <3>1. Advance
      BY <3>0 DEF PrintfBuffer
    <3>3. pc' = 4
      BY <2>3, <3>1 DEF Advance
    <3>2. PICK a \in Addresses : /\ \A b \in Addresses : b # a => page'[b] = page[b]
                                 /\ page'[a].kind = "library"
      BY <1>0, <3>0, BreakIn, PrintfPages
    <3> QED BY <1>2, <2>3, <3>2, <3>3
  <2>4. CASE pc = 4
    <3>1. MmapFixedStep /\ Step.p = "q" /\ Step.at = "p" /\ Step.flag = "NOREPLACE" /\ pc' = 5
      BY <1>0, <1>1, <1>6, <2>4, FixedSteps, StepOf DEF MmapFixedStep, Advance
    <3>2. CASE Fails(Step.p)
      <4>1. page' = page /\ ptr'["q"] = Nowhere
        BY <1>0, <3>1, <3>2 DEF Fails, PagesInv
      <4> QED BY <1>2, <2>4, <3>1, <4>1
    <3>3. CASE ~ Fails(Step.p)
      <4>1. /\ ptr["p"] \in Addresses
            /\ ptr' = [ptr EXCEPT !["q"] = ptr["p"]]
            /\ \A b \in Addresses : b # ptr["p"] => page'[b] = page[b]
            /\ page'[ptr["p"]] # Unmapped
        BY <1>0, <3>1, <3>3, MapFixedPages
      <4>2. ptr'["q"] = ptr["p"] /\ ptr'["p"] = ptr["p"]
        BY <1>0, <4>1 DEF PagesInv
      <4> QED BY <1>2, <2>4, <3>1, <4>1, <4>2
    <3> QED BY <3>2, <3>3
  <2>5. CASE pc = 5
    <3>1. CheckStep /\ Step.p = "q"
      BY <1>0, <1>1, <1>6, <2>5, FixedSteps, StepOf
    <3>2. UNCHANGED <<page, ptr>> /\ (ptr["q"] = Nowhere => pc' = pc)
      BY <3>1 DEF CheckStep, memory, Leave
    <3> QED BY <1>2, <1>4, <2>5, <3>2
  <2>6. CASE pc = 6
    <3>1. MmapFixedStep /\ Step.p = "r" /\ Step.at = "p" /\ Step.flag = "NOREPLACE" /\ pc' = 7
      BY <1>0, <1>1, <1>6, <2>6, FixedSteps, StepOf DEF MmapFixedStep, Advance
    <3>2. Fails(Step.p)
      BY <1>0, <1>2, <2>6, <3>1, MapFixedPages
    <3>3. page' = page /\ ptr'["q"] = ptr["q"] /\ ptr'["p"] = ptr["p"]
      BY <1>0, <3>1, <3>2 DEF Fails, PagesInv
    <3> QED BY <1>2, <2>6, <3>1, <3>3
  <2>7. CASE pc = 7
    <3>1. MunmapStep /\ Step.p = "q" /\ Step.n = 1 /\ pc' = 8
      BY <1>0, <1>1, <1>6, <2>7, FixedSteps, StepOf DEF MunmapStep, Advance
    <3>2. ptr["q"] # Nowhere => Span(ptr["q"], 1) = {ptr["q"]}
      BY <1>4, AddressesAre DEF Span
    <3>3. \A b \in Addresses : page'[b] # Unmapped => page'[b] = page[b] /\ b # ptr["q"]
      BY <1>0, <1>4, <3>1, <3>2, MunmapPages
    <3> QED BY <1>2, <2>7, <3>1, <3>3
  <2>8. CASE pc = 8
    <3>1. ReturnStep
      BY <1>0, <1>1, <1>6, <2>8, FixedSteps, StepOf
    <3>2. UNCHANGED <<page, ptr, pc>>
      BY <3>1 DEF ReturnStep, memory, Leave
    <3> QED BY <1>2, <2>8, <3>2
  <2> QED BY <1>4, <2>1, <2>2, <2>3, <2>4, <2>5, <2>6, <2>7, <2>8
<1> QED BY <1>5, <1>6

(* 02_brk_directly.c: the buffer and the two pages below the break, which  *)
(* it takes back.                                                          *)
LEMMA BreakPagesStep ==
  ASSUME MemoryInv, BreakPagesInv, [MCNext]_allVars
  PROVE  BreakPagesInv'
<1>0. /\ WhereInv /\ PagesInv /\ program' = program /\ (failed => failed')
      /\ program \notin Jumpers => pc' \in {pc, pc + 1}
      /\ "got" \in Pointers
  BY GoesOn, FailedStays DEF MemoryInv, Pointers
<1>1. SUFFICES ASSUME program = "brk_directly" PROVE BreakPagesInv'
  BY <1>0 DEF BreakPagesInv
<1>2. /\ \A b \in Addresses : page[b] # Unmapped =>
           \/ page[b].kind = "library"
           \/ pc \in 4 .. 10 /\ ptr["got"] # Nowhere /\ b \in Span(ptr["got"], 2)
              /\ (pc >= 9 => failed) /\ page[b].kind = "brk"
      /\ pc >= 9 /\ ~ failed => brk = ptr["got"]
  BY <1>1 DEF BreakPagesInv
<1>3. SUFFICES
      /\ \A b \in Addresses : page'[b] # Unmapped =>
           \/ page'[b].kind = "library"
           \/ pc' \in 4 .. 10 /\ ptr'["got"] # Nowhere /\ b \in Span(ptr'["got"], 2)
              /\ (pc' >= 9 => failed') /\ page'[b].kind = "brk"
      /\ pc' >= 9 /\ ~ failed' => brk' = ptr'["got"]
  BY <1>0, <1>1 DEF BreakPagesInv
<1>4. /\ pc' \in {pc, pc + 1} /\ pc \in 1 .. 10
      /\ ptr["got"] \in Addresses \cup {Nowhere} /\ Nowhere \notin Addresses
  BY <1>0, <1>1, BreakSteps, AddressesAre DEF Jumpers, PagesInv
<1>5. CASE Idle \/ end # "running"
  <2>1. UNCHANGED <<pc, ptr, brk, failed>> /\ Edited
    BY <1>0, <1>5, IdleIs, EditSteps, EndedStays DEF Idle, allVars, vars, memory
  <2>2. \A b \in Addresses : /\ page'[b] = Unmapped <=> page[b] = Unmapped
                             /\ page[b] # Unmapped => page'[b].kind = page[b].kind
    BY <2>1 DEF Edited, Alike
  <2> QED BY <1>2, <1>4, <2>1, <2>2
<1>6. CASE ~ Idle /\ end = "running"
  <2>1. CASE pc \in {1, 4, 5, 9, 10}
    <3>1. PrintBreak \/ CheckStep \/ ReturnStep
      BY <1>0, <1>1, <1>6, <2>1, BreakSteps, StepOf
    <3>2. UNCHANGED <<page, ptr, brk, failed>>
      BY <3>1 DEF PrintBreak, CheckStep, ReturnStep, memory
    <3>3. pc = 10 => pc' = 10
      <4>1. pc = 10 => ReturnStep
        BY <1>0, <1>1, <1>6, BreakSteps, StepOf
      <4> QED BY <4>1 DEF ReturnStep, Leave
    <3> QED BY <1>2, <1>4, <2>1, <3>2, <3>3
  <2>2. CASE pc = 2
    <3>0. PrintfBuffer
      BY <1>0, <1>1, <1>6, <2>2, BreakSteps, StepOf
    <3>1. Advance
      BY <3>0 DEF PrintfBuffer
    <3>3. pc' = 3
      BY <2>2, <3>1 DEF Advance
    <3>2. PICK a \in Addresses : /\ \A b \in Addresses : b # a => page'[b] = page[b]
                                 /\ page'[a].kind = "library"
      BY <1>0, <3>0, BreakIn, PrintfPages
    <3> QED BY <1>2, <2>2, <3>2, <3>3
  <2>3. CASE pc = 3
    <3>1. SbrkStep /\ Step.p = "got" /\ Step.n = 2 /\ pc' = 4
      BY <1>0, <1>1, <1>6, <2>3, BreakSteps, StepOf DEF SbrkStep, Advance
    <3>2. CASE Fails(Step.p)
      <4>1. page' = page
        BY <3>2 DEF Fails
      <4> QED BY <1>2, <2>3, <3>1, <4>1
    <3>3. CASE ~ Fails(Step.p)
      <4>1. /\ ptr' = [ptr EXCEPT !["got"] = brk]
            /\ \A b \in Addresses : b \notin Span(brk, 2) => page'[b] = page[b]
            /\ \A b \in Addresses : b \in Span(brk, 2) => page'[b].kind = "brk"
        BY <1>0, <3>1, <3>3, SbrkPages
      <4>2. ptr'["got"] = brk /\ brk # Nowhere
        BY <1>0, <4>1, BreakIn DEF PagesInv, Nowhere
      <4> QED BY <1>2, <2>3, <3>1, <4>1, <4>2
    <3> QED BY <3>2, <3>3
  <2>4. CASE pc \in {6, 7}
    <3>1. Store \/ BadAccess
      BY <1>0, <1>1, <1>6, <2>4, BreakSteps, StepOf
    <3>2. UNCHANGED <<ptr, failed>> /\ Edited
      BY <1>0, <3>1, EditSteps DEF Store, BadAccess, memory
    <3>3. \A b \in Addresses : /\ page'[b] = Unmapped <=> page[b] = Unmapped
                               /\ page[b] # Unmapped => page'[b].kind = page[b].kind
      BY <3>2 DEF Edited, Alike
    <3> QED BY <1>2, <1>4, <2>4, <3>2, <3>3
  <2>5. CASE pc = 8
    <3>0. SbrkBackStep /\ Step.n = 2
      BY <1>0, <1>1, <1>6, <2>5, BreakSteps, StepOf
    <3>1. pc' = 9 /\ ptr' = ptr
      BY <2>5, <3>0 DEF SbrkBackStep, Advance
    <3>2. Raised
      BY <1>1, <2>5 DEF MemoryInv, BreakInv
    <3>3. CASE failed' = TRUE /\ page' = page
      BY <1>2, <2>5, <3>1, <3>3
    <3>4. CASE page' = Drop(Span(brk - 2, 2)) /\ brk' = brk - 2
      <4>1. \A b \in Addresses : page'[b] = IF b \in Span(ptr["got"], 2) THEN Unmapped ELSE page[b]
        BY <3>2, <3>4 DEF Drop, Raised
      <4> QED BY <1>2, <2>5, <3>1, <3>2, <3>4, <4>1 DEF Raised
    <3> QED BY <3>0, <3>3, <3>4 DEF SbrkBackStep
  <2> QED BY <1>4, <2>1, <2>2, <2>3, <2>4, <2>5
<1> QED BY <1>5, <1>6
-----------------------------------------------------------------------------
(* No program starts with any memory. *)
LEMMA StartsEmpty ==
  ASSUME NEW q \in Programs, q \notin Printers, NEW r \in Pointers
  PROVE  Holdings[q][1][r] = 0
<1>0. Large \in Nat
  BY AddressesAre
<1>1. Holdings["pagesize"][1][r] = 0
  BY <1>0 DEF Holdings, Only, Nothing, From
<1>2. Holdings["lazy_allocation"][1][r] = 0
  BY <1>0 DEF Holdings, Only, Nothing, From
<1>3. Holdings["count_page_faults"][1][r] = 0
  BY <1>0 DEF Holdings, Only, Nothing, From
<1>4. Holdings["pagemap"][1][r] = 0
  BY <1>0 DEF Holdings, Only, Nothing, From
<1>5. Holdings["segments_addresses"][1][r] = 0
  BY <1>0 DEF Holdings, Only, Nothing, From
<1>6. Holdings["alloca_vs_vla"][1][r] = 0
  BY <1>0 DEF Holdings, Only, Nothing, From
<1>7. Holdings["recursion_depth"][1][r] = 0
  BY <1>0 DEF Holdings, Only, Nothing, From
<1>8. Holdings["stack_overflow"][1][r] = 0
  BY <1>0 DEF Holdings, Only, Nothing, From
<1>9. Holdings["malloc_basics"][1][r] = 0
  BY <1>0 DEF Holdings, Only, Nothing, From
<1>10. Holdings["chunk_layout"][1][r] = 0
  BY <1>0 DEF Holdings, Only, Nothing, From
<1>11. Holdings["brk_vs_mmap"][1][r] = 0
  BY <1>0 DEF Holdings, Only, Nothing, From
<1>12. Holdings["mallopt_tuning"][1][r] = 0
  BY <1>0 DEF Holdings, Only, Nothing, From
<1>13. Holdings["mallinfo"][1][r] = 0
  BY <1>0 DEF Holdings, Only, Nothing, From
<1>14. Holdings["alignment"][1][r] = 0
  BY <1>0 DEF Holdings, Only, Nothing, From
<1>15. Holdings["calloc_realloc"][1][r] = 0
  BY <1>0 DEF Holdings, Only, Nothing, From
<1>16. Holdings["double_free"][1][r] = 0
  BY <1>0 DEF Holdings, Only, Nothing, From
<1>17. Holdings["malloc_trim"][1][r] = 0
  BY <1>0 DEF Holdings, Only, Nothing, From
<1>18. Holdings["mallinfo_dump"][1][r] = 0
  BY <1>0 DEF Holdings, Only, Nothing, From
<1>19. Holdings["anon_mmap"][1][r] = 0
  BY <1>0 DEF Holdings, Only, Nothing, From
<1>20. Holdings["file_mmap"][1][r] = 0
  BY <1>0 DEF Holdings, Only, Nothing, From
<1>21. Holdings["file_share_write"][1][r] = 0
  BY <1>0 DEF Holdings, Only, Nothing, From
<1>22. Holdings["mprotect_guard"][1][r] = 0
  BY <1>0 DEF Holdings, Only, Nothing, From
<1>23. Holdings["madvise_dontneed"][1][r] = 0
  BY <1>0 DEF Holdings, Only, Nothing, From
<1>24. Holdings["mremap"][1][r] = 0
  BY <1>0 DEF Holdings, Only, Nothing, From
<1>25. Holdings["map_populate"][1][r] = 0
  BY <1>0 DEF Holdings, Only, Nothing, From
<1>26. Holdings["program_break"][1][r] = 0
  BY <1>0 DEF Holdings, Only, Nothing, From
<1>27. Holdings["mlock"][1][r] = 0
  BY <1>0 DEF Holdings, Only, Nothing, From
<1>28. Holdings["madvise_pageout"][1][r] = 0
  BY <1>0 DEF Holdings, Only, Nothing, From
<1>29. Holdings["overcommit"][1][r] = 0
  BY <1>0 DEF Holdings, Only, Nothing, From
<1>30. Holdings["getrusage_demo"][1][r] = 0
  BY <1>0 DEF Holdings, Only, Nothing, From
<1>31. Holdings["mprotect_jit"][1][r] = 0
  BY <1>0 DEF Holdings, Only, Nothing, From
<1>32. Holdings["segfault_handler"][1][r] = 0
  BY <1>0 DEF Holdings, Only, Nothing, From
<1>33. Holdings["w_xor_x"][1][r] = 0
  BY <1>0 DEF Holdings, Only, Nothing, From
<1>34. Holdings["thp_madvise"][1][r] = 0
  BY <1>0 DEF Holdings, Only, Nothing, From
<1>35. Holdings["hugetlb_mmap"][1][r] = 0
  BY <1>0 DEF Holdings, Only, Nothing, From
<1>36. Holdings["ksm_demo"][1][r] = 0
  BY <1>0 DEF Holdings, Only, Nothing, From
<1>37. Holdings["memory_hierarchy"][1][r] = 0
  BY <1>0 DEF Holdings, Only, Nothing, From
<1> QED BY <1>1, <1>2, <1>3, <1>4, <1>5, <1>6, <1>7, <1>8, <1>9, <1>10, <1>11, <1>12,
     <1>13, <1>14, <1>15, <1>16, <1>17, <1>18, <1>19, <1>20, <1>21, <1>22, <1>23, <1>24, <1>25,
     <1>26, <1>27, <1>28, <1>29, <1>30, <1>31, <1>32, <1>33, <1>34, <1>35, <1>36, <1>37,
     ScriptOf DEF Printers

(* 13_malloc_trim.c frees blocks of one page each. *)
LEMMA TrimFrees ==
  ASSUME MemoryInv, OwnInv, program = "malloc_trim", FreeStep
  PROVE  Cardinality(Block(ptr[Step.p])) \in 0 .. 1
<1>0. WhereInv /\ PagesInv /\ end = "running" /\ program \notin Printers \cup Resizers
  BY OpOf, RunningOf DEF MemoryInv, Printers, Resizers
<1>1. Owns /\ Covered
  BY <1>0 DEF OwnInv, Owns
<1>2. \A r \in Pointers : Have(r) \in 0 .. 1
  <2>1. \A k \in Nat, r \in Pointers : Holdings["malloc_trim"][k][r] \in 0 .. 1
    BY DEF Holdings, From
  <2> QED BY <1>0, <2>1, StepFacts DEF WhereInv, Have
<1>3. Block(ptr[Step.p]) \subseteq {ptr[Step.p]}
  <2> SUFFICES ASSUME NEW b \in Block(ptr[Step.p]) PROVE b = ptr[Step.p]
    OBVIOUS
  <2>1. b \in Addresses /\ page[b].kind = "heap" /\ page[b].base = ptr[Step.p]
    BY DEF Block
  <2>2. PICK r \in Pointers : Holds(r) /\ b \in Span(ptr[r], Have(r))
    BY <1>1, <2>1 DEF Covered, Unmapped
  <2>3. ptr[r] = ptr[Step.p]
    BY <1>1, <2>1, <2>2 DEF Owns, Holds, Whole
  <2>4. Have(r) = 1 /\ ptr[r] \in Addresses
    BY <1>0, <1>2, <2>2 DEF Holds, PagesInv
  <2> QED BY <2>2, <2>3, <2>4, AddressesAre DEF Span
<1>4. IsFiniteSet({ptr[Step.p]}) /\ Cardinality({ptr[Step.p]}) = 1
  BY FS_Singleton
<1>5. /\ IsFiniteSet(Block(ptr[Step.p]))
      /\ Cardinality(Block(ptr[Step.p])) <= Cardinality({ptr[Step.p]})
  BY <1>3, <1>4, FS_Subset
<1>6. Cardinality(Block(ptr[Step.p])) \in Nat
  BY <1>5, FS_CardinalityType
<1> QED BY <1>4, <1>5, <1>6

(* What glibc may have kept stays within bounds. *)
LEMMA KeptBounded ==
  ASSUME MemoryInv, OwnInv, KeptInv, [MCNext]_allVars PROVE KeptInv'
<1>0. /\ WhereInv /\ KeptType /\ program' = program
      /\ program \notin Jumpers => pc' \in {pc, pc + 1}
      /\ Idle => pc' = pc
  BY GoesOn DEF MemoryInv
<1>1. program \notin Mallocers => kept' = 0
  <2> SUFFICES ASSUME program \notin Mallocers PROVE kept' = 0
    OBVIOUS
  <2>1. kept = 0
    BY DEF KeptInv
  <2>2. ~ FreeStep /\ ~ (ResizeStep /\ Step.kind = "heap")
    <3> SUFFICES ASSUME FreeStep \/ (ResizeStep /\ Step.kind = "heap") PROVE FALSE
      OBVIOUS
    <3>1. Step.op \in {"free", "resize"}
      BY OpOf
    <3>2. Fits(program, pc)
      BY <1>0, <3>1, PrinterOps, FitsNow
    <3>3. KindOf(program, Step.p) = "heap"
      BY <3>2, OpOf DEF Fits, Step
    <3> QED BY <3>3 DEF KindOf
  <2> QED BY <2>1, <2>2, KeptSteps
<1>2. program = "mlock" /\ pc' <= Large + 8 => kept' = 0
  <2> SUFFICES ASSUME program = "mlock", pc' <= Large + 8 PROVE kept' = 0
    OBVIOUS
  <2>1. pc \in Nat /\ pc' \in {pc, pc + 1} /\ Large \in Nat
    BY <1>0, StepFacts, LargeIs DEF WhereInv, Jumpers
  <2>2. kept = 0
    BY <2>1 DEF KeptInv
  <2>3. Step.op # "resize" /\ (Step.op = "free" => pc = Large + 8)
    BY <1>0, <2>1, MlockSteps
  <2>4. ~ (FreeStep /\ Advance) /\ ~ ResizeStep
    <3>1. ~ (Step.op = "free" /\ Advance)
      BY <2>1, <2>3 DEF Advance
    <3> QED BY <2>3, <3>1, OpOf
  <2>5. kept' = kept \/ kept' = 0
    BY <2>4, KeptSteps, Zenon
  <2> QED BY <2>2, <2>5
<1>3. program = "malloc_trim" =>
        kept' \in 0 .. (IF pc' = 8 THEN 1 ELSE IF pc' \in 9 .. 10 THEN 2 ELSE 0)
  <2> SUFFICES ASSUME program = "malloc_trim"
               PROVE  kept' \in 0 .. (IF pc' = 8 THEN 1 ELSE IF pc' \in 9 .. 10 THEN 2 ELSE 0)
    OBVIOUS
  <2>1. pc \in 1 .. 12 /\ pc' \in {pc, pc + 1} /\ kept \in Nat
    BY <1>0, MallocTrimSteps DEF Jumpers, KeptType
  <2>2. kept <= (IF pc = 8 THEN 1 ELSE IF pc \in 9 .. 10 THEN 2 ELSE 0)
    BY <2>1 DEF KeptInv
  <2>3. /\ Step.op # "resize" /\ (Step.op = "free" => pc \in {7, 8})
        /\ (Step.op = "trim" <=> pc = 10)
    BY <1>0, <2>1, MallocTrimSteps
  <2>4. PICK n : n = Cardinality(Block(ptr[Step.p]))
    BY Zenon
  <2>5. CASE FreeStep /\ Advance /\ kept' = kept + n
    <3>1. n \in 0 .. 1 /\ pc \in {7, 8} /\ pc' = pc + 1
      BY <2>3, <2>4, <2>5, OpOf, TrimFrees DEF Advance
    <3> QED BY <2>1, <2>2, <2>5, <3>1
  <2>6. CASE kept' = 0
    BY <2>6
  <2>7. CASE kept' = kept /\ ~ TrimStep
    <3>1. pc' = 11 => pc # 10
      BY <1>0, <2>3, <2>7, ActionAt
    <3> QED BY <2>1, <2>2, <2>7, <3>1
  <2>8. TrimStep => kept' = 0
    BY Zenon DEF TrimStep
  <2>9. ~ ResizeStep
    BY <2>3, OpOf
  <2> QED BY <2>4, <2>5, <2>6, <2>7, <2>8, <2>9, KeptSteps
<1> QED BY <1>0, <1>1, <1>2, <1>3 DEF KeptInv

(* The inductive invariant: where the program is, what it holds, and what  *)
(* follows for its accesses and its end.                                   *)
ProgramInv == /\ MemoryInv /\ KeptInv /\ OwnInv /\ CarefulInv /\ ProtInv /\ GuardInv /\ HandlerInv
              /\ StopInv /\ FileInv /\ EndInv /\ FixedPagesInv /\ BreakPagesInv

(* It holds when a program starts, *)
LEMMA ProgramInit == MCInit => ProgramInv
<1> SUFFICES ASSUME MCInit PROVE ProgramInv
  OBVIOUS
<1>0. /\ MemoryInv /\ program \in Programs /\ pc = 1 /\ end = "running"
      /\ page = [a \in Addresses |-> Unmapped] /\ ptr = [p \in Pointers |-> Nowhere]
      /\ file = "absent" /\ fd = FALSE /\ handler = Default /\ failed = FALSE
  BY MemoryInit DEF MCInit, Init
<1>7. KeptInv
  <2>1. kept = 0
    BY DEF MCInit, Init
  <2> QED BY <1>0, <2>1 DEF KeptInv
<1>1. \A b \in Addresses : page[b] = Unmapped
  BY <1>0
<1>2. OwnInv
  <2>1. SUFFICES ASSUME program \notin Printers PROVE Owns
    BY DEF OwnInv
  <2>2. \A r \in Pointers : Have(r) = 0
    BY <1>0, <2>1, StartsEmpty DEF Have
  <2>3. ptr["NULL"] = Nowhere
    BY <1>0 DEF Pointers
  <2> QED BY <1>1, <2>2, <2>3 DEF Owns, Covered, Holds
<1>3. CarefulInv /\ ProtInv
  BY <1>0, <1>1 DEF CarefulInv, ProtInv
<1>4. handler.how = "default"
  BY <1>0 DEF Default
<1>5. GuardInv /\ HandlerInv /\ StopInv /\ FileInv /\ EndInv
  BY <1>0, <1>4 DEF GuardInv, HandlerInv, StopInv, FileInv, EndInv
<1>6. FixedPagesInv /\ BreakPagesInv
  BY <1>0, <1>1 DEF FixedPagesInv, BreakPagesInv
<1> QED BY <1>0, <1>2, <1>3, <1>5, <1>6, <1>7 DEF ProgramInv

(* and every step keeps it. *)
LEMMA ProgramStep == ProgramInv /\ [MCNext]_allVars => ProgramInv'
<1> SUFFICES ASSUME ProgramInv, [MCNext]_allVars PROVE ProgramInv'
  OBVIOUS
<1>1. WhereInv /\ PagesInv
  BY DEF ProgramInv, MemoryInv
<1>2. MemoryInv' /\ KeptInv'
  BY MemoryStep, KeptBounded DEF ProgramInv
<1>3. OwnInv' /\ CarefulInv'
  BY <1>1, OwnStep, CarefulStep DEF ProgramInv
<1>4. ProtInv' /\ GuardInv'
  BY <1>1, ProtStep, GuardStep DEF ProgramInv
<1>5. HandlerInv' /\ StopInv'
  BY <1>1, HandlerStep, StopStep DEF ProgramInv
<1>6. FileInv' /\ EndInv'
  BY <1>1, FileStep, EndStep DEF ProgramInv
<1>7. FixedPagesInv' /\ BreakPagesInv'
  BY <1>1, FixedPagesStep, BreakPagesStep DEF ProgramInv
<1> QED BY <1>2, <1>3, <1>4, <1>5, <1>6, <1>7 DEF ProgramInv

(* Nothing gets to a statement marked unreachable unless a call failed. *)
LEMMA NothingGetsPast ==
  ASSUME ProgramInv, end = "running", Step = Unreachable
  PROVE  failed
<1>1. WhereInv /\ Step.op = "unreachable"
  BY DEF ProgramInv, MemoryInv, Unreachable, Do
<1>2. program \notin Printers
  BY <1>1, PrinterOps
<1>3. program \in Faulters \cup {"double_free"}
  BY <1>1, <1>2, FitsNow DEF Fits, Step
<1>4. CASE program = "double_free"
  BY <1>1, <1>4, DoubleSteps DEF ProgramInv, StopInv
<1>5. CASE program = "mprotect_guard"
  BY <1>1, <1>5, GuardSteps DEF ProgramInv, StopInv
<1>6. CASE program = "segfault_handler"
  BY <1>1, <1>6, SegfaultSteps DEF ProgramInv, StopInv
<1>7. CASE program = "w_xor_x"
  BY <1>1, <1>7, WXorXSteps DEF ProgramInv, StopInv
<1> QED BY <1>3, <1>4, <1>5, <1>6, <1>7 DEF Faulters

(* Whatever calls fail, wherever the kernel puts a region and whatever it  *)
(* swaps out, in regions and address spaces of any size: a signal kills    *)
(* 10_double_free.c, and otherwise only a program that used what a failed  *)
(* call returned; the SIGSEGV handlers run at the access meant to fault,   *)
(* and nothing gets past it.                                               *)
THEOREM AccessesCorrect == MCSpec => []AccessesAreLegal
<1>1. ProgramInv /\ TypeOK /\ NeverWX => AccessesAreLegal
  <2>1. SUFFICES ASSUME ProgramInv, TypeOK, NeverWX PROVE AccessesAreLegal
    OBVIOUS
  <2>2. EndInv
    BY <2>1 DEF ProgramInv
  <2>3. end = "running" /\ Step = Unreachable => failed
    BY <2>1, NothingGetsPast
  <2> QED BY <2>1, <2>2, <2>3 DEF AccessesAreLegal, EndInv, NeverWX
<1> QED BY <1>1, ProgramInit, ProgramStep, MemoryTypeCorrect, ProtectionCorrect, PTL DEF MCSpec

(* A program that has returned holds nothing, but for the exceptions. *)
LEMMA ReturnedEmpty == ASSUME ProgramInv PROVE NothingLeft
<1>0. SUFFICES ASSUME end = "returned" PROVE NothingLeft
  BY DEF NothingLeft
<1>1. /\ WhereInv /\ Step.op = "return" /\ fd \in BOOLEAN
      /\ MemoryInv /\ OwnInv /\ CarefulInv /\ StopInv /\ FileInv /\ FixedPagesInv /\ BreakPagesInv
  BY <1>0 DEF ProgramInv, EndInv, MemoryInv, WhereInv
<1>2. file = "absent" /\ ~ fd
  <2>1. CASE program \in {"file_mmap", "file_share_write"}
    <3>1. pc = (IF program = "file_mmap" THEN 11 ELSE 10)
      BY <1>1, <2>1, FileSteps
    <3> QED BY <1>1, <2>1, <3>1 DEF FileInv
  <2>2. CASE program \notin {"file_mmap", "file_share_write"}
    BY <1>1, <2>2 DEF FileInv
  <2> QED BY <2>1, <2>2
<1>3. CASE program = "fixed_noreplace"
  <2>1. pc = 8
    BY <1>1, <1>3, FixedSteps
  <2>2. \A b \in Addresses : page[b] # Unmapped => page[b].kind = "library"
    BY <1>1, <1>3, <2>1 DEF FixedPagesInv
  <2> QED BY <1>2, <1>3, <2>2 DEF NothingLeft
<1>4. CASE program = "brk_directly"
  <2>1. pc = 10
    BY <1>1, <1>4, BreakSteps
  <2>2. failed \/ ((\A b \in Addresses : page[b] # Unmapped => page[b].kind = "library")
                    /\ brk = ptr["got"])
    BY <1>1, <1>4, <2>1 DEF BreakPagesInv
  <2> QED BY <1>2, <1>4, <2>2 DEF NothingLeft
<1>5. CASE program \in Faulters
  <2>1. program = "mprotect_guard" /\ failed
    BY <1>1, <1>5, GuardSteps, SegfaultSteps, WXorXSteps DEF Faulters, StopInv
  <2> QED BY <1>2, <2>1 DEF NothingLeft
<1>6. CASE program \notin Printers /\ program \notin Faulters
  <2>1. Owns
    BY <1>0, <1>1, <1>6 DEF OwnInv
  <2>2. \A r \in Pointers : Have(r) = 0
    BY <1>1, <1>6, FitsNow DEF Fits, Step, Have
  <2>3. CASE Covered
    <3>1. \A b \in Addresses : page[b] = Unmapped
      BY <2>2, <2>3 DEF Covered, Holds
    <3> QED BY <1>2, <1>6, <3>1 DEF NothingLeft, Printers
  <2>4. CASE failed /\ program \in Resizers
    <3>1. program # "mremap"
      BY <1>0, <1>1, <2>4 DEF CarefulInv, Careful
    <3> QED BY <1>2, <2>4, <3>1 DEF NothingLeft, Resizers
  <2> QED BY <2>1, <2>3, <2>4 DEF Owns
<1> QED BY <1>3, <1>4, <1>5, <1>6 DEF Printers

(* A program that returns 0 has given back every mapping and every block,  *)
(* its file, and the break down to what sbrk() returned; only a failed     *)
(* realloc(), sbrk() or mprotect() of the programs named leaves something. *)
THEOREM NothingLeftCorrect == MCSpec => []NothingLeft
BY ReturnedEmpty, ProgramInit, ProgramStep, PTL DEF MCSpec
-----------------------------------------------------------------------------
(* A program that rests, and one that goes on with its next step. *)
Rests == /\ UNCHANGED <<program, pc, end, ptr, brk, kept, refused, file, fd, handler,
                        counter, faults, seen, failed>>
         /\ MCReclaim \/ page' = page
Goes == end = "running" /\ end' = "running" /\ pc' = pc + 1 /\ pc \in Nat

(* A program whose handler does not jump rests, stops or goes on. *)
LEMMA Ways ==
  ASSUME WhereInv, HandlerInv, [MCNext]_allVars, program \notin Jumpers, end' = "running"
  PROVE  program' = program /\ (Rests \/ Goes)
<1>0. program' = program
  BY GoesOn
<1>1. end = "running"
  <2>1. CASE end # "running"
    <3>1. end' = end
      BY <2>1, EndedStays
    <3> QED BY <2>1, <3>1
  <2> QED BY <2>1
<1>2. pc \in Nat
  BY StepFacts DEF WhereInv
<1>3. handler.how \in {"default", "exit"}
  BY DEF HandlerInv
<1>4. CASE Idle
  BY <1>0, <1>4, IdleIs DEF Rests, Idle, allVars, vars, memory
<1>5. CASE At("measure") /\ Measuring
  <2>1. CASE UNCHANGED vars
    BY <2>1 DEF Rests, vars, memory, files, log
  <2>2. CASE Advance
    BY <1>1, <1>2, <2>2 DEF Goes, Advance
  <2>3. CASE Segv(FALSE)
    BY <1>3, <2>3 DEF Segv
  <2> QED BY <1>5, <2>1, <2>2, <2>3 DEF Measuring
<1>6. CASE Process
  <2>1. CASE Advance
    BY <1>1, <1>2, <2>1 DEF Goes, Advance
  <2>2. CASE Leave("error") \/ Leave("killed") \/ Leave("returned")
    BY <2>2 DEF Leave
  <2>3. CASE Segv(FALSE) \/ Segv(TRUE)
    BY <1>3, <2>3 DEF Segv
  <2>4. CASE SigactionStep
    BY <1>1, <1>2, <2>4 DEF Goes, SigactionStep
  <2>5. CASE RecurseStep
    <3>1. Step.op = "recurse"
      BY <2>5, OpOf
    <3>2. program \in Printers => FALSE
      BY <3>1, PrinterOps
    <3>3. program \in Jumpers
      BY <3>1, <3>2, FitsNow DEF Fits, Step
    <3> QED BY <3>3
  <2> QED
    <3>1. Process => Advance \/ Leave("error") \/ Leave("killed") \/ Leave("returned")
                       \/ Segv(FALSE) \/ Segv(TRUE) \/ SigactionStep \/ RecurseStep
      <4>1. CASE GetMemory \/ MmapFileStep \/ MmapFixedStep \/ CheckStep \/ MunmapStep \/ FreeStep
        BY <4>1 DEF GetMemory, MmapFileStep, MmapFixedStep, CheckStep, MunmapStep, FreeStep
      <4>2. CASE ResizeStep \/ MprotectStep \/ DontneedStep \/ PageoutStep \/ MlockStep \/ MunlockStep
        BY <4>2 DEF ResizeStep, MprotectStep, DontneedStep, PageoutStep, MlockStep, MunlockStep
      <4>3. CASE SbrkStep \/ SbrkBackStep \/ PrintBreak \/ PrintfBuffer \/ Load \/ Store \/ PrintNull
        BY <4>3 DEF SbrkStep, SbrkBackStep, PrintBreak, PrintfBuffer, Load, Store, PrintNull
      <4>4. CASE BadAccess \/ LandedStep \/ OpenStep \/ WriteFileStep \/ FopenFails
        BY <4>4 DEF BadAccess, LandedStep, OpenStep, WriteFileStep, FopenFails
      <4>5. CASE ReadFileStep \/ UnlinkStep \/ RssStep \/ MapsStep \/ RusageStep
        BY <4>5 DEF ReadFileStep, UnlinkStep, RssStep, MapsStep, RusageStep
      <4>6. CASE PagemapStep \/ UnreachableStep \/ ReturnStep \/ TrimStep \/ OverflowStep
        BY <4>6 DEF PagemapStep, UnreachableStep, ReturnStep, TrimStep, OverflowStep
      <4> QED BY <4>1, <4>2, <4>3, <4>4, <4>5, <4>6, Zenon DEF Process, PlainStep
    <3> QED BY <1>6, <2>1, <2>2, <2>3, <2>4, <2>5, <3>1, Zenon
<1> QED BY <1>4, <1>5, <1>6, Zenon DEF MCNext, MCProcess, Idle

(* What a program does when it goes on. *)
LEMMA Does ==
  ASSUME WhereInv, [MCNext]_allVars, program \notin Jumpers, Goes
  PROVE  /\ Step.op = "get" => GetMemory
         /\ Step.op = "resize" => ResizeStep
         /\ Step.op = "munmap" => MunmapStep
         /\ Step.op = "check" => CheckStep
         /\ Step.op = "free" => FreeStep
         /\ Step.op = "trim" => TrimStep
         /\ Step.op = "overflow" => OverflowStep
         /\ Step.op = "mmap_file" => MmapFileStep
         /\ Step.op = "mmap_fixed" => MmapFixedStep
         /\ Step.op = "mprotect" => MprotectStep
         /\ Step.op = "dontneed" => DontneedStep
         /\ Step.op = "pageout" => PageoutStep
         /\ Step.op = "mlock" => MlockStep
         /\ Step.op = "munlock" => MunlockStep
         /\ Step.op = "brk" => PrintBreak
         /\ Step.op \in {"read", "touch", "exec"} => Load
         /\ Step.op = "str" => Load \/ PrintNull
         /\ Step.op = "write" => Store
         /\ Step.op = "open" => OpenStep
         /\ Step.op = "write_file" => WriteFileStep
         /\ Step.op = "read_file" => ReadFileStep
         /\ Step.op = "unlink" => UnlinkStep
         /\ Step.op = "rss" => RssStep
         /\ Step.op = "rusage" => RusageStep
         /\ Step.op = "pagemap" => PagemapStep
         /\ Step.op # "return"
<1>1. pc' # pc
  BY DEF Goes
<1>2. ~ Idle
  BY <1>1, IdleIs
<1>3. ~ BadAccess /\ ~ FopenFails
  <2>1. handler.how # "jump"
    BY DEF WhereInv
  <2>2. Segv(FALSE) => pc' = pc
    BY <2>1 DEF Segv
  <2> QED BY <1>1, <2>2, Zenon DEF BadAccess, FopenFails
<1>4. ~ ReturnStep
  BY <1>1 DEF ReturnStep, Leave
<1> QED BY <1>2, <1>3, <1>4, StepOf, ActionAt

(* What it prints when it goes on, if anything. *)
LEMMA Speaks ==
  ASSUME WhereInv, [MCNext]_allVars, program \notin Jumpers, Goes
  PROVE  /\ Step.op \notin Outputs => seen' = seen
         /\ Step.op \in {"read", "exec"} => seen' = Append(seen, Value)
         /\ Step.op = "str" => seen' = Append(seen, IF ptr[Step.p] = Nowhere THEN "(null)" ELSE Value)
         /\ Step.op = "brk" => seen' = Append(seen, brk)
         /\ Step.op = "rss" => \E k \in 0 .. kept : seen' = Append(seen,
              Cardinality({a \in Addresses : Resident(a) /\ page[a].kind # "library"}) + k)
         /\ Step.op = "overflow" => seen' = Append(seen, "(nil)")
         /\ Step.op = "rusage" => seen' = Append(seen, faults)
         /\ Step.op = "read_file" => seen' = Append(seen, file)
         /\ Step.op = "pagemap" => \E bits \in {"present", "swap", "none"} :
              /\ seen' = Append(seen, bits)
              /\ Step.p # "static" /\ page[ptr[Step.p]].at \in {"frame", "swap"} => bits # "none"
         /\ Step.op = "mmap_fixed" =>
              \/ seen' = Append(seen, "failed") \/ seen' = Append(seen, "EEXIST")
              \/ seen' = Append(seen, "mapped") /\ (Step.flag = "NOREPLACE" => page[ptr[Step.at]] = Unmapped)
<1>1. Step.op \in {"read", "exec"} => seen' = Append(seen, Value)
  <2>1. Step.op \in {"read", "exec"} => Load
    BY Does
  <2> QED BY <2>1 DEF Load
<1>2. Step.op = "str" => seen' = Append(seen, IF ptr[Step.p] = Nowhere THEN "(null)" ELSE Value)
  <2>1. Step.op = "str" => Load \/ PrintNull
    BY Does
  <2> QED BY <2>1 DEF Load, PrintNull, Shown, Accessible
<1>3. /\ Step.op = "brk" => seen' = Append(seen, brk)
      /\ Step.op = "rusage" => seen' = Append(seen, faults)
      /\ Step.op = "read_file" => seen' = Append(seen, file)
      /\ Step.op = "overflow" => seen' = Append(seen, "(nil)")
  BY Does DEF PrintBreak, RusageStep, ReadFileStep, OverflowStep, Shown
<1>4. Step.op = "rss" => \E k \in 0 .. kept : seen' = Append(seen,
              Cardinality({a \in Addresses : Resident(a) /\ page[a].kind # "library"}) + k)
  BY Does, Zenon DEF RssStep, Shown
<1>5. Step.op = "pagemap" => \E bits \in {"present", "swap", "none"} :
              /\ seen' = Append(seen, bits)
              /\ Step.p # "static" /\ page[ptr[Step.p]].at \in {"frame", "swap"} => bits # "none"
  <2> SUFFICES ASSUME Step.op = "pagemap"
               PROVE  \E bits \in {"present", "swap", "none"} :
                        /\ seen' = Append(seen, bits)
                        /\ Step.p # "static" /\ page[ptr[Step.p]].at \in {"frame", "swap"} => bits # "none"
    OBVIOUS
  <2>1. PagemapStep
    BY Does
  <2>2. ~ Leave("error")
    BY DEF Leave, Goes
  <2>3. PICK bits \in {"present", "swap", "none"} :
          /\ Step.p # "static" =>
                  bits = CASE page[ptr[Step.p]].at = "frame" -> "present"
                           [] page[ptr[Step.p]].at = "swap" -> "swap"
                           [] OTHER -> "none"
          /\ Shown(bits)
    BY <2>1, <2>2, Zenon DEF PagemapStep
  <2> QED BY <2>3 DEF Shown
<1>6. Step.op = "mmap_fixed" =>
              \/ seen' = Append(seen, "failed") \/ seen' = Append(seen, "EEXIST")
              \/ seen' = Append(seen, "mapped") /\ (Step.flag = "NOREPLACE" => page[ptr[Step.at]] = Unmapped)
  <2>1. Step.op = "mmap_fixed" => MmapFixedStep
    BY Does
  <2> QED BY <2>1, Zenon DEF MmapFixedStep, Shown
<1>7. Step.op \notin Outputs => seen' = seen
  <2>0. pc' # pc
    BY DEF Goes
  <2> SUFFICES ASSUME Step.op \notin Outputs PROVE seen' = seen
    OBVIOUS
  <2>1. CASE GetMemory \/ MmapFileStep \/ CheckStep \/ MunmapStep \/ FreeStep
    BY <2>1 DEF GetMemory, MmapFileStep, CheckStep, MunmapStep, FreeStep, log
  <2>2. CASE ResizeStep \/ MprotectStep \/ DontneedStep \/ PageoutStep \/ MlockStep \/ MunlockStep
    BY <2>2 DEF ResizeStep, MprotectStep, DontneedStep, PageoutStep, MlockStep, MunlockStep, log
  <2>3. CASE SbrkStep \/ SbrkBackStep \/ PrintfBuffer
    BY <2>3 DEF SbrkStep, SbrkBackStep, PrintfBuffer, log
  <2>4. CASE Load \/ Store
    <3>1. CASE Load
      <4>1. Step.op = "touch"
        BY <3>1, OpOf DEF Outputs
      <4> QED BY <3>1, <4>1 DEF Load
    <3> QED BY <2>4, <3>1 DEF Store
  <2>5. CASE BadAccess \/ RecurseStep \/ OpenStep \/ WriteFileStep \/ FopenFails \/ SigactionStep
    BY <2>5, Zenon DEF BadAccess, RecurseStep, OpenStep, WriteFileStep, FopenFails, SigactionStep, log
  <2>6. CASE UnlinkStep \/ MapsStep \/ UnreachableStep \/ ReturnStep \/ TrimStep
    BY <2>6 DEF UnlinkStep, MapsStep, UnreachableStep, ReturnStep, TrimStep, log
  <2>7. CASE MmapFixedStep \/ PrintBreak \/ PrintNull \/ LandedStep \/ ReadFileStep \/ RssStep
             \/ RusageStep \/ PagemapStep \/ OverflowStep
    BY <2>7, OpOf DEF Outputs
  <2>8. CASE At("measure") /\ Measuring
    BY <2>8 DEF Measuring, vars, log
  <2>9. CASE Idle
    BY <2>9, IdleIs
  <2> QED BY <2>1, <2>2, <2>3, <2>4, <2>5, <2>6, <2>7, <2>8, <2>9, Zenon
          DEF MCNext, MCProcess, Process, PlainStep, Idle
<1> QED BY <1>1, <1>2, <1>3, <1>4, <1>5, <1>6, <1>7, Zenon
-----------------------------------------------------------------------------
(* What can come of a page that is mapped and stays mapped. *)
Loads == {"read", "touch", "str", "exec"}
Turns(b) ==
  /\ page[b] # Unmapped /\ page'[b] # Unmapped /\ page'[b].kind = page[b].kind
  /\ \/ page'[b].val = page[b].val /\ page'[b].at = page[b].at
        /\ (Rests \/ Step.op # "munlock" => page'[b].locked = page[b].locked)
     \/ /\ Rests /\ page[b].at \in {"frame", "cache"} /\ ~ page[b].locked
        /\ page'[b].val = page[b].val
        /\ page'[b].at = IF page[b].at = "frame" THEN "swap" ELSE "none"
     \/ /\ Goes /\ Step.op \in Loads /\ b = Address /\ page'[b].val = page[b].val
        /\ page'[b].at = IF page[b].at = "none"
                         THEN IF page[b].kind \in {"private", "shared"} THEN "cache" ELSE "zero"
                         ELSE IF page[b].at = "swap" THEN "frame" ELSE page[b].at
     \/ /\ Goes /\ Step.op = "write" /\ b = Address
        /\ page[b].kind = "shared" => page'[b].at = "cache" /\ page'[b].val = page[b].val
        /\ page[b].kind # "shared" => page'[b].at = "frame" /\ page'[b].val = Step.v
     \/ Goes /\ Step.op = "dontneed" /\ page'[b].at = "none" /\ page'[b].val = "zero"
     \/ /\ Goes /\ Step.op = "pageout" /\ page[b].at = "frame" /\ page'[b].at = "swap"
        /\ page'[b].val = page[b].val
     \/ /\ Goes /\ Step.op = "mlock" /\ page'[b].at = "frame" /\ page'[b].val = page[b].val
        /\ page'[b].locked

(* A page is unmapped, is new, or stays. *)
LEMMA PageTurns ==
  ASSUME WhereInv, PagesInv, [MCNext]_allVars, program \notin Printers \cup Jumpers,
         Rests \/ (Goes /\ Step.op # "resize"), NEW b \in Addresses
  PROVE  \/ page'[b] = Unmapped
         \/ /\ Goes /\ Step.op \in {"get", "mmap_file"} /\ page[b] = Unmapped
            /\ page'[b].at = IF Step.op = "get" /\ Step.touched THEN "frame" ELSE "none"
         \/ Turns(b)
<1> DEFINE Same == page'[b] = page[b]
<1>0. Same => page'[b] = Unmapped \/ Turns(b)
  BY Zenon DEF Turns
<1>1. CASE Rests
  <2>1. CASE page' = page
    BY <1>0, <2>1
  <2>2. CASE MCReclaim
    <3>1. Same \/ (/\ page[b] # Unmapped /\ page[b].at \in {"frame", "cache"} /\ ~ page[b].locked
                   /\ page'[b] # Unmapped /\ page'[b].base = page[b].base
                   /\ page'[b].kind = page[b].kind /\ page'[b].prot = page[b].prot
                   /\ page'[b].val = page[b].val /\ page'[b].locked = page[b].locked
                   /\ page'[b].at = IF page[b].at = "frame" THEN "swap" ELSE "none")
      BY <2>2, ReclaimPage
    <3> QED BY <1>0, <1>1, <3>1, Zenon DEF Turns
  <2> QED BY <1>1, <2>1, <2>2 DEF Rests
<1>2. CASE Goes /\ Step.op # "resize"
  <2>0. pc' # pc /\ end' = "running"
    BY <1>2 DEF Goes
  <2>1. CASE Step.op = "get"
    <3>1. GetMemory
      BY <1>2, <2>1, Does
    <3>2. CASE Fails(Step.p)
      BY <1>0, <3>2 DEF Fails
    <3>3. CASE ~ Fails(Step.p)
      <4>1. PICK a \in Room(Step.n) :
              /\ b \notin Span(a, Step.n) => page'[b] = page[b]
              /\ b \in Span(a, Step.n) =>
                   /\ page'[b] # Unmapped
                   /\ page'[b].at = IF Step.touched THEN "frame" ELSE "none"
        BY <3>1, <3>3, GetPages
      <4>2. b \in Span(a, Step.n) => page[b] = Unmapped
        BY DEF Room
      <4> QED BY <1>0, <1>2, <2>1, <4>1, <4>2, Zenon
    <3> QED BY <3>2, <3>3
  <2>2. CASE Step.op = "mmap_file"
    <3>1. MmapFileStep
      BY <1>2, <2>2, Does
    <3>2. CASE Fails(Step.p)
      BY <1>0, <3>2 DEF Fails
    <3>3. CASE ~ Fails(Step.p)
      <4>1. PICK a \in Room(1) :
              /\ b # a => page'[b] = page[b]
              /\ page'[a].at = "none"
        BY <3>1, <3>3, MapFilePages
      <4>2. page[a] = Unmapped
        BY AddressesAre DEF Room, Span
      <4>3. CASE b = a
        BY <1>2, <2>2, <4>1, <4>2, <4>3
      <4> QED BY <1>0, <4>1, <4>3
    <3> QED BY <3>2, <3>3
  <2>3. CASE Step.op \in {"munmap", "free"}
    <3>1. MunmapStep \/ FreeStep
      BY <1>2, <2>3, Does
    <3>2. page' = page \/ \E S : page' = Drop(S)
      BY <3>1, Zenon DEF MunmapStep, FreeStep
    <3>3. (\E S : page' = Drop(S)) => Same \/ page'[b] = Unmapped
      BY DEF Drop
    <3> QED BY <1>0, <3>2, <3>3
  <2>4. CASE Step.op = "mprotect"
    <3>1. MprotectStep
      BY <1>2, <2>4, Does
    <3>2. /\ page[b] = Unmapped => page'[b] = page[b]
          /\ page[b] # Unmapped =>
               /\ page'[b] # Unmapped
               /\ page'[b].kind = page[b].kind /\ page'[b].val = page[b].val
               /\ page'[b].at = page[b].at /\ page'[b].locked = page[b].locked
      BY <3>1, MprotectPage
    <3> QED BY <3>2, <1>0, Zenon DEF Turns
  <2>5. CASE Step.op = "dontneed"
    <3>1. DontneedStep
      BY <1>2, <2>5, Does
    <3>2. Same \/ (/\ page[b] # Unmapped /\ page'[b] # Unmapped /\ page'[b].kind = page[b].kind
                   /\ page'[b].val = "zero" /\ page'[b].at = "none")
      BY <3>1, DontneedPages
    <3> QED BY <3>2, <1>0, <1>2, <2>5, Zenon DEF Turns
  <2>6. CASE Step.op = "pageout"
    <3>1. PageoutStep
      BY <1>2, <2>6, Does
    <3>2. Same \/ (/\ page[b] # Unmapped /\ page'[b] # Unmapped /\ page'[b].kind = page[b].kind
                   /\ page'[b].val = page[b].val /\ page[b].at = "frame" /\ page'[b].at = "swap")
      BY <3>1, PageoutPages
    <3> QED BY <3>2, <1>0, <1>2, <2>6, Zenon DEF Turns
  <2>7. CASE Step.op = "mlock"
    <3>1. MlockStep
      BY <1>2, <2>7, Does
    <3>2. Same \/ (/\ page[b] # Unmapped /\ page'[b] # Unmapped /\ page'[b].kind = page[b].kind
                   /\ page'[b].val = page[b].val /\ page'[b].locked /\ page'[b].at = "frame")
      BY <2>0, <3>1, MlockPages
    <3> QED BY <3>2, <1>0, <1>2, <2>7, Zenon DEF Turns
  <2>8. CASE Step.op = "munlock"
    <3>1. MunlockStep
      BY <1>2, <2>8, Does
    <3>2. Same \/ (/\ page[b] # Unmapped /\ page'[b] # Unmapped /\ page'[b].kind = page[b].kind
                   /\ page'[b].val = page[b].val /\ page'[b].at = page[b].at)
      BY <3>1, MunlockPages
    <3>3. ~ Rests
      BY <2>0 DEF Rests
    <3> QED BY <3>2, <3>3, <1>0, <2>8, Zenon DEF Turns
  <2>9. CASE Step.op \in Loads
    <3>1. Load \/ PrintNull
      BY <1>2, <2>9, Does DEF Loads
    <3>2. PrintNull => Same
      BY DEF PrintNull, memory
    <3>3. Load => Same \/ (/\ page[b] # Unmapped /\ page'[b] # Unmapped /\ page'[b].kind = page[b].kind
                           /\ page'[b].val = page[b].val /\ b = Address
                           /\ page'[b].at = IF page[b].at = "none"
                                THEN IF page[b].kind \in {"private", "shared"} THEN "cache" ELSE "zero"
                                ELSE IF page[b].at = "swap" THEN "frame" ELSE page[b].at)
      BY LoadPage
    <3> QED BY <3>1, <3>2, <3>3, <1>0, <1>2, <2>9, Zenon DEF Turns
  <2>10. CASE Step.op = "write"
    <3>1. Store
      BY <1>2, <2>10, Does
    <3>3. Same \/ (/\ page[b] # Unmapped /\ page'[b] # Unmapped /\ page'[b].kind = page[b].kind
                   /\ b = Address
                   /\ page[b].kind = "shared" => page'[b].at = "cache" /\ page'[b].val = page[b].val
                   /\ page[b].kind # "shared" => page'[b].at = "frame" /\ page'[b].val = Step.v)
      BY <3>1, StorePage
    <3> QED BY <3>3, <1>0, <1>2, <2>10, Zenon DEF Turns
  <2>11. CASE Step.op \notin {"get", "mmap_file", "munmap", "free", "mprotect", "dontneed", "pageout",
                              "mlock", "munlock", "write"} \cup Loads
    <3>1. page' = page
      <4>0. Step.op \notin {"mmap_fixed", "sbrk", "sbrk_back", "printf", "brk"}
        BY FitsNow DEF Fits, Step
      <4> USE OpOf
      <4>1. CASE GetMemory \/ MmapFileStep \/ MmapFixedStep \/ MunmapStep \/ FreeStep \/ ResizeStep
                 \/ MprotectStep \/ DontneedStep \/ PageoutStep \/ MlockStep \/ MunlockStep
        BY <4>1, <1>2, <2>11, <4>0
      <4>2. CASE SbrkStep \/ SbrkBackStep \/ PrintBreak \/ PrintfBuffer \/ Load \/ Store \/ PrintNull
                \/ BadAccess
        BY <4>2, <1>2, <2>11, <4>0 DEF Loads
      <4>3. CASE CheckStep \/ RecurseStep \/ LandedStep \/ SigactionStep \/ OpenStep \/ WriteFileStep
                \/ FopenFails
        BY <4>3, Zenon DEF CheckStep, RecurseStep, LandedStep, SigactionStep, OpenStep, WriteFileStep,
              FopenFails, memory
      <4>4. CASE ReadFileStep \/ UnlinkStep \/ RssStep \/ MapsStep \/ RusageStep \/ PagemapStep
                 \/ UnreachableStep \/ ReturnStep \/ TrimStep \/ OverflowStep
        BY <4>4, Zenon DEF ReadFileStep, UnlinkStep, RssStep, MapsStep, RusageStep, PagemapStep,
              UnreachableStep, ReturnStep, TrimStep, OverflowStep, memory
      <4>5. CASE At("measure") /\ Measuring
        BY <4>5 DEF Measuring, vars, memory
      <4>6. CASE Idle
        BY <2>0, <4>6, IdleIs
      <4> QED BY <4>1, <4>2, <4>3, <4>4, <4>5, <4>6, Zenon DEF MCNext, MCProcess, Process, PlainStep, Idle
    <3> QED BY <1>0, <3>1
  <2> QED BY <1>2, <2>1, <2>2, <2>3, <2>4, <2>5, <2>6, <2>7, <2>8, <2>9, <2>10, <2>11
<1> QED BY <1>1, <1>2
-----------------------------------------------------------------------------
(* Pointers change only when they are given something. *)
LEMMA PointerStays ==
  ASSUME PagesInv, WhereInv, [MCNext]_allVars, program \notin Printers \cup Jumpers, Rests \/ Goes,
         NEW r \in Pointers,
         Goes => /\ Step.op \in {"get", "mmap_file"} => Step.p # r
                 /\ Step.op = "resize" => Step.q # r
  PROVE  ptr'[r] = ptr[r]
<1>1. CASE Rests
  BY <1>1 DEF Rests
<1>2. CASE Goes
  <2>0. pc' # pc
    BY <1>2 DEF Goes
  <2>1. CASE Step.op \in {"get", "mmap_file", "resize"}
    <3>1. GetMemory \/ MmapFileStep \/ ResizeStep
      BY <1>2, <2>1, Does
    <3>2. PICK p : p # r /\ \E a : ptr' = [ptr EXCEPT ![p] = a]
      <4>1. CASE GetMemory \/ MmapFileStep
        <5>1. \E a : ptr' = [ptr EXCEPT ![Step.p] = a]
          BY <4>1, Zenon DEF GetMemory, MmapFileStep, Fails, Grants
        <5> QED BY <1>2, <4>1, <5>1, OpOf
      <4>2. CASE ResizeStep
        <5>1. \E a : ptr' = [ptr EXCEPT ![Step.q] = a]
          BY <4>2, Zenon DEF ResizeStep, Fails
        <5> QED BY <1>2, <4>2, <5>1, OpOf
      <4> QED BY <3>1, <4>1, <4>2
    <3> QED BY <3>2 DEF PagesInv
  <2>2. CASE Step.op \notin {"get", "mmap_file", "resize"}
    <3>1. ptr' = ptr
      <4>0. Step.op \notin {"mmap_fixed", "sbrk", "sbrk_back", "printf", "brk"}
        BY FitsNow DEF Fits, Step
      <4> USE OpOf
      <4>1. CASE GetMemory \/ MmapFileStep \/ MmapFixedStep \/ ResizeStep \/ SbrkStep \/ SbrkBackStep
                 \/ PrintBreak \/ PrintfBuffer
        BY <4>1, <2>2, <4>0
      <4>2. CASE MunmapStep \/ FreeStep \/ MprotectStep \/ DontneedStep \/ PageoutStep \/ MlockStep
                 \/ MunlockStep \/ Load \/ Store \/ PrintNull \/ BadAccess
        BY <4>2, Zenon DEF MunmapStep, FreeStep, MprotectStep, DontneedStep, PageoutStep, MlockStep,
           MunlockStep, Load, Store, PrintNull, BadAccess, memory
      <4>3. CASE CheckStep \/ RecurseStep \/ LandedStep \/ SigactionStep \/ OpenStep \/ WriteFileStep
                \/ FopenFails
        BY <4>3, Zenon DEF CheckStep, RecurseStep, LandedStep, SigactionStep, OpenStep, WriteFileStep,
              FopenFails, memory
      <4>4. CASE ReadFileStep \/ UnlinkStep \/ RssStep \/ MapsStep \/ RusageStep \/ PagemapStep
                 \/ UnreachableStep \/ ReturnStep \/ TrimStep \/ OverflowStep
        BY <4>4, Zenon DEF ReadFileStep, UnlinkStep, RssStep, MapsStep, RusageStep, PagemapStep,
              UnreachableStep, ReturnStep, TrimStep, OverflowStep, memory
      <4>5. CASE At("measure") /\ Measuring
        BY <4>5 DEF Measuring, vars, memory
      <4>6. CASE Idle
        BY <2>0, <4>6, IdleIs
      <4> QED BY <4>1, <4>2, <4>3, <4>4, <4>5, <4>6, Zenon DEF MCNext, MCProcess, Process, PlainStep, Idle
    <3> QED BY <3>1
  <2> QED BY <2>1, <2>2
<1> QED BY <1>1, <1>2

(* Whatever a step does, the pages that r holds stay unless it is to r's   *)
(* region.                                                                 *)
LEMMA HeldStays ==
  ASSUME MemoryInv, OwnInv, [MCNext]_allVars, program \notin Printers \cup Jumpers,
         end' = "running", Rests \/ Goes, NEW r \in Pointers, Have(r) > 0, ptr[r] # Nowhere,
         Goes => /\ Step.op \in {"get", "mmap_file", "munmap", "free"} => Step.p # r
                 /\ Step.op # "resize"
  PROVE  /\ ptr'[r] = ptr[r]
         /\ \A b \in Span(ptr[r], Have(r)) : b \in Addresses /\ Turns(b)
<1>0. WhereInv /\ PagesInv
  BY DEF MemoryInv
<1>1. ptr'[r] = ptr[r]
  BY <1>0, PointerStays
<1>2. end = "running"
  BY DEF Rests, Goes
<1>3. program' = program
  BY <1>0, GoesOn
<1>4. Have(r)' = Have(r)
  <2>1. CASE Rests
    BY <1>0, <2>1, HaveKept DEF Rests
  <2>2. CASE Goes
    <3>1. Step.op # "return"
      BY <1>0, <2>2, Does
    <3>2. Have(r)' = Leaves(Step, r, Have(r))
      BY <1>0, <1>3, <2>2, <3>1, HaveNext DEF Goes
    <3> QED BY <2>2, <3>2 DEF Leaves
  <2> QED BY <2>1, <2>2
<1>5. Owns /\ Owns'
  <2>1. OwnInv'
    BY <1>0, OwnStep
  <2> QED BY <1>2, <1>3, <2>1 DEF OwnInv
<1>6. \A b \in Span(ptr[r], Have(r)) : b \in Addresses /\ page[b] # Unmapped
  BY <1>5 DEF Owns, Holds, Whole
<1>7. \A b \in Span(ptr[r], Have(r)) : page'[b] # Unmapped
  <2>1. Have(r)' > 0 /\ ptr'[r] # Nowhere
    BY <1>1, <1>4
  <2>2. Whole(r)'
    BY <1>5, <2>1 DEF Owns, Holds
  <2> QED BY <1>1, <1>4, <2>2 DEF Whole
<1>8. \A b \in Span(ptr[r], Have(r)) : Turns(b)
  BY <1>0, <1>6, <1>7, PageTurns
<1> QED BY <1>1, <1>6, <1>8
-----------------------------------------------------------------------------
(* What a program accesses when it goes on is a page of its own. *)
LEMMA Accessed ==
  ASSUME MemoryInv, OwnInv, [MCNext]_allVars, program \notin Printers \cup Jumpers \cup Faulters, Goes,
         Step.op \in {"read", "touch", "exec", "write"} \/ (Step.op = "str" /\ ptr[Step.p] # Nowhere)
  PROVE  /\ Step.p \in Pointers /\ ptr[Step.p] # Nowhere /\ Have(Step.p) \in Nat
         /\ Step.k \in 0 .. Have(Step.p) - 1
         /\ Address \in Span(ptr[Step.p], Have(Step.p)) /\ Address \in Addresses
         /\ page[Address] # Unmapped /\ page[Address].kind = KindOf(program, Step.p)
         /\ ptr' = ptr /\ (Step.op = "write" => Store) /\ (Step.op # "write" => Load)
<1>0. WhereInv /\ end = "running" /\ Step.op \in {"read", "touch", "str", "write", "exec"}
  BY DEF MemoryInv, Goes
<1>1. (Step.op = "write" => Store) /\ (Step.op # "write" => Load)
  BY <1>0, Does DEF PrintNull
<1>2. ptr[Step.p] # Nowhere
  BY <1>1 DEF Load, Store, Accessible
<1>3. program # "segfault_handler"
  BY DEF Faulters
<1>4. /\ Step.p \in Pointers
      /\ Address \in Addresses /\ page[Address] # Unmapped
      /\ Address \in Span(ptr[Step.p], Have(Step.p))
      /\ page[Address].kind = KindOf(program, Step.p)
  BY <1>0, <1>2, <1>3, HeldAccess
<1>5. Step.k \in 0 .. Have(Step.p) - 1 /\ Have(Step.p) \in Nat
  BY <1>0, <1>3, <1>4, FitsNow DEF Fits, Step, Have
<1>6. ptr' = ptr
  BY <1>1 DEF Load, Store
<1> QED BY <1>1, <1>2, <1>4, <1>5, <1>6

(* What it finds there, *)
LEMMA ValueIs ==
  ASSUME MemoryInv, OwnInv, [MCNext]_allVars, program \notin Printers \cup Jumpers \cup Faulters, Goes,
         Step.op \in {"read", "exec"} \/ (Step.op = "str" /\ ptr[Step.p] # Nowhere)
  PROVE  /\ program \notin {"file_mmap", "file_share_write"} => Value = page[ptr[Step.p] + Step.k].val
         /\ program = "file_share_write" => Value = file
         /\ program = "file_mmap" =>
              Value = IF page[ptr[Step.p] + Step.k].at \in {"none", "cache"} THEN file
                      ELSE page[ptr[Step.p] + Step.k].val
<1>1. page[Address].kind = KindOf(program, Step.p)
  BY Accessed
<1> QED BY <1>1 DEF Value, KindOf, Address

(* and what it leaves there. *)
LEMMA Written ==
  ASSUME MemoryInv, OwnInv, [MCNext]_allVars, program \notin Printers \cup Jumpers \cup Faulters, Goes,
         Step.op = "write"
  PROVE  /\ ptr[Step.p] # Nowhere /\ ptr' = ptr
         /\ program # "file_share_write" =>
              /\ page'[ptr[Step.p] + Step.k].val = Step.v
              /\ page'[ptr[Step.p] + Step.k].at = "frame"
         /\ program = "file_share_write" => file' = Step.v
<1>1. /\ page[Address].kind = KindOf(program, Step.p) /\ Address \in Addresses
      /\ ptr' = ptr /\ ptr[Step.p] # Nowhere /\ Store
  BY Accessed
<1>2. /\ page[Address].kind # "shared" => page'[Address].at = "frame" /\ page'[Address].val = Step.v
  BY <1>1, StorePage DEF MemoryInv
<1>3. page[Address].kind = "shared" => file' = Step.v
  BY <1>1 DEF Store
<1> QED BY <1>1, <1>2, <1>3 DEF KindOf, Address

(* New pages are what was asked for. *)
LEMMA Fresh ==
  ASSUME MemoryInv, OwnInv, [MCNext]_allVars, program \notin Printers \cup Jumpers, Goes,
         Step.op = "get", NEW p, p = Step.p, ptr'[p] # Nowhere, NEW k \in 0 .. Step.n - 1
  PROVE  /\ page'[ptr'[p] + k].val = Step.val
         /\ ~ Step.touched => page'[ptr'[p] + k].at = "none"
<1>0. WhereInv /\ PagesInv
  BY DEF MemoryInv
<1>1. GetMemory /\ p \in Pointers /\ Step.n \in Nat
  BY <1>0, Does, FitsNow DEF Fits, Step
<1>2. ~ Fails(p)
  BY <1>0, <1>1 DEF Fails, PagesInv
<1>3. PICK a \in Room(Step.n) :
        /\ ptr' = [ptr EXCEPT ![Step.p] = a]
        /\ \A b \in Addresses : b \in Span(a, Step.n) =>
             /\ page'[b].val = Step.val
             /\ page'[b].at = IF Step.touched THEN "frame" ELSE "none"
  BY <1>0, <1>1, <1>2, GetPages
<1>4. ptr'[p] = a
  BY <1>0, <1>1, <1>3 DEF PagesInv
<1>5. a \in Int
  BY AddressesAre DEF Room
<1>6. a + k \in Span(a, Step.n)
  BY <1>1, <1>5 DEF Span
<1>7. a + k \in Addresses
  BY <1>6, AddressesAre DEF Room
<1> QED BY <1>3, <1>4, <1>6, <1>7

(* Pages that realloc() or mremap() moves hold what they did. *)
LEMMA Moved ==
  ASSUME MemoryInv, OwnInv, [MCNext]_allVars, program \notin Printers \cup Jumpers, Goes,
         Step.op = "resize", NEW q, q = Step.q, ptr'[q] # Nowhere,
         NEW k \in Nat, k < Step.n, k < Step.m
  PROVE  /\ ptr[Step.p] # Nowhere => page'[ptr'[q] + k].val = page[ptr[Step.p] + k].val
         /\ ptr[Step.p] = Nowhere =>
              page'[ptr'[q] + k].val = IF Step.kind = "map" THEN "zero" ELSE "junk"
<1>0. WhereInv /\ PagesInv /\ Owns
  BY DEF MemoryInv, OwnInv, Goes
<1>1. ResizeStep /\ q \in Pointers /\ Step.n \in Nat /\ Step.m \in Nat /\ Step.p \in Pointers
  BY <1>0, Does, FitsNow DEF Fits, Step
<1>2. ~ Fails(q)
  BY <1>0, <1>1 DEF Fails, PagesInv
<1>3. PICK c \in MapArea :
            /\ ptr' = [ptr EXCEPT ![Step.q] = c]
            /\ \A b \in Span(c, Step.m) :
                 \/ /\ ptr[Step.p] # Nowhere
                    /\ page'[b].val = page[ptr[Step.p] + b - c].val
                 \/ /\ ptr[Step.p] = Nowhere \/ b - c >= Step.n
                    /\ page'[b].val = IF Step.kind = "map" THEN "zero" ELSE "junk"
  BY <1>0, <1>1, <1>2, ResizePages
<1>4. ptr'[q] = c
  BY <1>0, <1>1, <1>3 DEF PagesInv
<1>5. c \in Int /\ (ptr[Step.p] # Nowhere => ptr[Step.p] \in Int)
  BY <1>0, <1>1, AddressesAre DEF PagesInv
<1>6. c + k \in Span(c, Step.m) /\ (c + k) - c = k
  BY <1>1, <1>5 DEF Span
<1>7. CASE ptr[Step.p] # Nowhere
  <2>1. page'[c + k].val = page[ptr[Step.p] + (c + k) - c].val
    BY <1>1, <1>3, <1>6, <1>7
  <2>2. ptr[Step.p] + (c + k) - c = ptr[Step.p] + k
    BY <1>5, <1>7
  <2> QED BY <1>4, <1>7, <2>1, <2>2
<1>8. CASE ptr[Step.p] = Nowhere
  <2>1. page'[c + k].val = IF Step.kind = "map" THEN "zero" ELSE "junk"
    BY <1>3, <1>6, <1>8
  <2> QED BY <1>4, <1>8, <2>1
<1> QED BY <1>7, <1>8

(* A page of r holds what it did until something is written to it or its   *)
(* region is dropped, moved or replaced.                                   *)
LEMMA FindsStays ==
  ASSUME MemoryInv, OwnInv, [MCNext]_allVars, program \notin Printers \cup Jumpers \cup Faulters,
         end' = "running", Rests \/ Goes, NEW r \in Pointers, NEW k \in Nat, k < Have(r),
         Have(r) \in Nat, NEW v,
         Goes => /\ Step.op \in {"get", "mmap_file", "munmap", "free"} => Step.p # r
                 /\ Step.op \notin {"resize", "dontneed"}
                 /\ Step.op = "write" => Step.p # r \/ Step.k # k,
         Finds(r, k, v)
  PROVE  Finds(r, k, v)'
<1>0. WhereInv /\ PagesInv /\ Owns
  BY DEF MemoryInv, OwnInv, Goes, Rests
<1>1. ptr'[r] = ptr[r]
  BY <1>0, PointerStays
<1>2. CASE ptr[r] = Nowhere
  BY <1>1, <1>2 DEF Finds
<1>3. CASE ptr[r] # Nowhere
  <2>0. ptr[r] \in Int
    BY <1>0, <1>3, AddressesAre DEF PagesInv
  <2> DEFINE b == ptr[r] + k
  <2>1. b \in Span(ptr[r], Have(r))
    BY <2>0 DEF Span
  <2> HIDE DEF b
  <2>2. Turns(b) /\ b \in Addresses
    BY <1>3, <2>1, HeldStays
  <2>3. page[b].val = v
    BY <1>3 DEF Finds, b
  <2>4. ~ (Goes /\ Step.op = "write" /\ b = Address)
    <3> SUFFICES ASSUME Goes, Step.op = "write", b = Address PROVE FALSE
      OBVIOUS
    <3>1. /\ Step.p \in Pointers /\ ptr[Step.p] # Nowhere /\ Have(Step.p) \in Nat
          /\ Step.k \in 0 .. Have(Step.p) - 1
          /\ Address \in Span(ptr[Step.p], Have(Step.p))
      BY Accessed
    <3>2. CASE Step.p = r
      BY <1>3, <2>0, <3>1, <3>2 DEF b, Address
    <3>3. CASE Step.p # r
      <4>1. Holds(r) /\ Holds(Step.p)
        BY <1>3, <3>1 DEF Holds
      <4>2. b \notin Span(ptr[Step.p], Have(Step.p))
        BY <1>0, <2>1, <3>1, <3>3, <4>1, OwnersDiffer
      <4> QED BY <3>1, <4>2
    <3> QED BY <3>2, <3>3
  <2>5. page'[b].val = v
    BY <2>2, <2>3, <2>4 DEF Turns
  <2> QED BY <1>1, <1>3, <2>5 DEF Finds, b
<1> QED BY <1>2, <1>3
-----------------------------------------------------------------------------
(* Nothing but a write, mlock() or a file makes a dry page anything else.  *)
LEMMA DryStays ==
  ASSUME MemoryInv, OwnInv, [MCNext]_allVars, program \notin Printers \cup Jumpers \cup Faulters,
         program \notin {"file_mmap", "file_share_write"},
         Rests \/ Goes, NEW a, DryBut(a),
         Goes => /\ Step.op \notin {"resize", "mlock", "mmap_file", "str"}
                 /\ Step.op = "get" => ~ Step.touched
                 /\ Step.op = "write" => Address = a
  PROVE  \A b \in Addresses : page'[b] # Unmapped /\ b # a => page'[b].at \in {"none", "zero"}
<1> SUFFICES ASSUME NEW b \in Addresses, page'[b] # Unmapped, b # a
             PROVE  page'[b].at \in {"none", "zero"}
  OBVIOUS
<1>0. WhereInv /\ PagesInv
  BY DEF MemoryInv
<1>1. page'[b].at = "none" \/ Turns(b)
  BY <1>0, PageTurns
<1>2. page[b] # Unmapped => page[b].at \in {"none", "zero"}
  BY DEF DryBut
<1>3. Goes /\ Step.op \in Loads /\ b = Address => page[b].kind \notin {"private", "shared"}
  <2> SUFFICES ASSUME Goes, Step.op \in Loads PROVE page[Address].kind \notin {"private", "shared"}
    OBVIOUS
  <2>1. page[Address].kind = KindOf(program, Step.p)
    BY Accessed DEF Loads
  <2> QED BY <2>1 DEF KindOf
<1> QED BY <1>1, <1>2, <1>3 DEF Turns

(* A page that is not used stays so until it is accessed or locked. *)
LEMMA UnusedStays ==
  ASSUME MemoryInv, OwnInv, [MCNext]_allVars, program \notin Printers \cup Jumpers \cup Faulters,
         end' = "running", Rests \/ Goes, NEW r \in Pointers, Have(r) = Large,
         NEW k \in Nat, NEW j \in Nat, k <= j, Unused(r, k),
         Goes => /\ Step.op \in {"get", "mmap_file", "munmap", "free"} => Step.p # r
                 /\ Step.op \notin {"resize", "mlock", "str"}
                 /\ Step.op \in {"read", "touch", "exec", "write"} => Step.p = r /\ Step.k < j
  PROVE  Unused(r, j)'
<1>0. WhereInv /\ PagesInv /\ Large \in Nat /\ Large > 0
  BY LargeIs DEF MemoryInv
<1>1. ptr'[r] = ptr[r]
  BY <1>0, PointerStays
<1>2. CASE ptr[r] = Nowhere
  BY <1>1, <1>2 DEF Unused
<1>3. CASE ptr[r] # Nowhere
  <2>0. ptr[r] \in Int
    BY <1>0, <1>3, AddressesAre DEF PagesInv
  <2> SUFFICES ASSUME NEW i \in j .. Large - 1 PROVE page'[ptr[r] + i].at = "none"
    BY <1>1 DEF Unused
  <2> DEFINE b == ptr[r] + i
  <2>1. b \in Span(ptr[r], Have(r))
    BY <1>0, <2>0 DEF Span
  <2>3. page[b].at = "none"
    BY <1>3 DEF Unused
  <2>4. Goes /\ Step.op \in {"read", "touch", "exec", "write"} => b # Address
    <3> SUFFICES ASSUME Goes, Step.op \in {"read", "touch", "exec", "write"} PROVE b # Address
      OBVIOUS
    <3>1. Step.k \in 0 .. Have(r) - 1
      BY Accessed
    <3> QED BY <1>0, <2>0, <3>1 DEF Address
  <2> HIDE DEF b
  <2>2. Turns(b) /\ b \in Addresses
    BY <1>0, <1>3, <2>1, HeldStays
  <2>5. page'[b].at = "none"
    BY <2>2, <2>3, <2>4 DEF Turns, Loads
  <2> QED BY <2>5 DEF b
<1> QED BY <1>2, <1>3

(* A page that has been written stays in memory or in swap. *)
LEMMA WrittenStays ==
  ASSUME MemoryInv, OwnInv, [MCNext]_allVars, program \notin Printers \cup Jumpers \cup Faulters,
         program # "file_share_write",
         end' = "running", Rests \/ Goes, NEW r \in Pointers, Have(r) > 0, Have(r) \in Nat, ptr[r] # Nowhere,
         Goes => /\ Step.op \in {"get", "mmap_file", "munmap", "free"} => Step.p # r
                 /\ Step.op \notin {"resize", "dontneed"},
         page[ptr[r]].at \in {"frame", "swap"}
  PROVE  ptr'[r] = ptr[r] /\ page'[ptr[r]].at \in {"frame", "swap"}
<1>0. WhereInv /\ PagesInv /\ Owns
  BY DEF MemoryInv, OwnInv, Goes, Rests
<1>1. ptr'[r] = ptr[r]
  BY <1>0, PointerStays
<1>2. ptr[r] \in Int
  BY <1>0, AddressesAre DEF PagesInv
<1> DEFINE b == ptr[r]
<1>3. b \in Span(ptr[r], Have(r))
  BY <1>2 DEF Span
<1>4. page[b].kind # "shared"
  BY <1>0, <1>3 DEF Owns, Whole, KindOf
<1> HIDE DEF b
<1>5. Turns(b) /\ b \in Addresses
  BY <1>0, <1>3, HeldStays
<1>6. page[b].at \in {"frame", "swap"}
  BY DEF b
<1>7. page'[b].at \in {"frame", "swap"}
  BY <1>4, <1>5, <1>6 DEF Turns
<1> QED BY <1>1, <1>7 DEF b

(* Page faults are counted by accesses and by nothing else. *)
LEMMA FaultsCounted ==
  ASSUME MemoryInv, OwnInv, [MCNext]_allVars, program \notin Printers \cup Jumpers \cup Faulters,
         program \notin {"file_mmap", "file_share_write"}, Rests \/ Goes
  PROVE  /\ Rests => faults' = faults
         /\ Goes /\ Step.op \notin {"read", "touch", "str", "exec", "write", "rusage"} => faults' = faults
         /\ Goes /\ Step.op = "rusage" => faults' = IF Step.total THEN faults ELSE 0
         /\ Goes /\ Step.op \in {"read", "touch", "exec", "write"} =>
              /\ faults' \in {faults, faults + 1}
              /\ page[ptr[Step.p] + Step.k].at = "none" => faults' = faults + 1
<1>0. WhereInv
  BY DEF MemoryInv
<1>1. Rests => faults' = faults
  BY DEF Rests
<1>2. Goes /\ Step.op = "rusage" => faults' = IF Step.total THEN faults ELSE 0
  BY <1>0, Does DEF RusageStep
<1>3. Goes /\ Step.op \in {"read", "touch", "exec", "write"} =>
              /\ faults' \in {faults, faults + 1}
              /\ page[ptr[Step.p] + Step.k].at = "none" => faults' = faults + 1
  <2>1. CASE Goes /\ Step.op \in {"read", "touch", "exec"}
    <3>1. Load
      BY <1>0, <2>1, Does
    <3>2. faults' = IF page[Address].at \in {"none", "swap"} THEN faults + 1 ELSE faults
      BY <3>1, Zenon DEF Load, Faulted
    <3> QED BY <3>2 DEF Address
  <2>2. CASE Goes /\ Step.op = "write"
    <3>1. Store
      BY <1>0, <2>2, Does
    <3>2. PICK ats : faults' = (IF page[Address].at \in {"none", "zero", "swap"} \cup ats THEN faults + 1
              ELSE faults)
      BY <3>1, Zenon DEF Store, Faulted
    <3> QED BY <3>2 DEF Address
  <2> QED BY <2>1, <2>2
<1>4. Goes /\ Step.op \notin {"read", "touch", "str", "exec", "write", "rusage"} => faults' = faults
  <2> SUFFICES ASSUME Goes, Step.op \notin {"read", "touch", "str", "exec", "write", "rusage"}
               PROVE  faults' = faults
    OBVIOUS
  <2> USE OpOf
  <2>1. CASE GetMemory \/ MmapFileStep \/ CheckStep \/ MunmapStep \/ FreeStep
    BY <2>1 DEF GetMemory, MmapFileStep, CheckStep, MunmapStep, FreeStep, log
  <2>2. CASE ResizeStep \/ MprotectStep \/ DontneedStep \/ PageoutStep \/ MlockStep \/ MunlockStep
    BY <2>2 DEF ResizeStep, MprotectStep, DontneedStep, PageoutStep, MlockStep, MunlockStep, log
  <2>3. CASE SbrkStep \/ SbrkBackStep \/ PrintfBuffer
    BY <2>3 DEF SbrkStep, SbrkBackStep, PrintfBuffer, log
  <2>4. CASE Load \/ Store \/ BadAccess \/ PrintNull \/ RusageStep
    BY <2>4
  <2>5. CASE RecurseStep \/ OpenStep \/ WriteFileStep \/ FopenFails \/ SigactionStep
    BY <2>5, Zenon DEF RecurseStep, OpenStep, WriteFileStep, FopenFails, SigactionStep, log
  <2>6. CASE UnlinkStep \/ MapsStep \/ UnreachableStep \/ ReturnStep \/ TrimStep
    BY <2>6 DEF UnlinkStep, MapsStep, UnreachableStep, ReturnStep, TrimStep, log
  <2>7. CASE MmapFixedStep \/ PrintBreak \/ LandedStep \/ ReadFileStep \/ RssStep
             \/ PagemapStep \/ OverflowStep
    BY <2>7, Zenon DEF MmapFixedStep, PrintBreak, LandedStep, ReadFileStep, RssStep, PagemapStep,
                       OverflowStep, Shown, log
  <2>8. CASE At("measure") /\ Measuring
    BY <2>8 DEF Measuring, vars, log
  <2>9. CASE Idle
    BY <2>9, IdleIs
  <2> QED BY <2>1, <2>2, <2>3, <2>4, <2>5, <2>6, <2>7, <2>8, <2>9, Zenon
          DEF MCNext, MCProcess, Process, PlainStep, Idle
<1> QED BY <1>1, <1>2, <1>3, <1>4
-----------------------------------------------------------------------------
(* How many pages there are at n addresses, and among a few of them. *)
LEMMA CountPages ==
  ASSUME NEW S, NEW a \in Int, NEW n \in Nat
  PROVE  /\ S \subseteq Span(a, n) => Cardinality(S) \in 0 .. n
         /\ S = Span(a, n) => Cardinality(S) = n
<1>1. IsFiniteSet(Span(a, n)) /\ Cardinality(Span(a, n)) = n
  <2>1. /\ IsFiniteSet(a .. a + n - 1)
        /\ Cardinality(a .. a + n - 1) = IF a > a + n - 1 THEN 0 ELSE (a + n - 1) - a + 1
    BY FS_Interval
  <2> QED BY <2>1 DEF Span
<1>2. S \subseteq Span(a, n) => IsFiniteSet(S) /\ Cardinality(S) <= n
  BY <1>1, FS_Subset
<1>3. S \subseteq Span(a, n) => Cardinality(S) \in Nat
  BY <1>2, FS_CardinalityType
<1> QED BY <1>1, <1>2, <1>3

(* How many there are among a few. *)
LEMMA CountFew ==
  ASSUME NEW S, NEW x, NEW y
  PROVE  /\ S = {} => Cardinality(S) = 0
         /\ S \subseteq {x} => Cardinality(S) \in 0 .. 1
         /\ S \subseteq {x, y} => Cardinality(S) \in 0 .. 2
<1>1. IsFiniteSet({x}) /\ Cardinality({x}) = 1
  BY FS_Singleton
<1>2. IsFiniteSet({x, y}) /\ Cardinality({x, y}) <= 2
  <2>1. IsFiniteSet({x} \cup {y}) /\ Cardinality({x} \cup {y}) \in {1, 2}
    BY <1>1, FS_AddElement
  <2>2. {x} \cup {y} = {x, y}
    OBVIOUS
  <2> QED BY <2>1, <2>2
<1>3. \A T : IsFiniteSet(T) /\ S \subseteq T => Cardinality(S) \in Nat /\ Cardinality(S) <= Cardinality(T)
  BY FS_Subset, FS_CardinalityType
<1>4. S = {} => Cardinality(S) = 0
  BY FS_EmptySet
<1>5. Cardinality({x}) \in Nat /\ Cardinality({x, y}) \in Nat
  BY <1>1, <1>2, FS_CardinalityType
<1> QED BY <1>1, <1>2, <1>3, <1>4, <1>5

(* The pages that VmRSS counts. *)
Counted == {a \in Addresses : Resident(a) /\ page[a].kind # "library"}

(* None of the dry ones, *)
LEMMA DryCounts ==
  ASSUME NEW a, DryBut(a)
  PROVE  Cardinality(Counted) \in 0 .. 1 /\ (a = Nowhere => Cardinality(Counted) = 0)
<1>1. Counted \subseteq {a}
  BY DEF Counted, Resident, DryBut
<1>2. a = Nowhere => Counted = {}
  BY <1>1, AddressesAre DEF Counted
<1> QED BY <1>1, <1>2, CountFew

(* and no more than the program holds. *)
LEMMA HeldCounts ==
  ASSUME MemoryInv, Owns, program \notin Resizers \cup Printers, NEW r \in Pointers, Have(r) \in Nat,
         \A s \in Pointers : s # r => Have(s) = 0
  PROVE  /\ Cardinality(Counted) \in 0 .. Have(r)
         /\ Holds(r) /\ (\A b \in Span(ptr[r], Have(r)) : page[b].at = "frame") =>
              Cardinality(Counted) = Have(r)
<1>0. Covered /\ PagesInv
  BY DEF Owns, MemoryInv
<1>1. CASE Holds(r)
  <2>1. ptr[r] \in Int
    BY <1>0, <1>1, AddressesAre DEF PagesInv, Holds
  <2>2. Counted \subseteq Span(ptr[r], Have(r))
    BY <1>0 DEF Counted, Resident, Covered, Holds
  <2>3. (\A b \in Span(ptr[r], Have(r)) : page[b].at = "frame") => Span(ptr[r], Have(r)) \subseteq Counted
    <3>1. \A b \in Span(ptr[r], Have(r)) : b \in Addresses /\ page[b] # Unmapped
      BY <1>1 DEF Owns, Holds, Whole
    <3>2. \A b \in Addresses : page[b].kind # "library"
      BY DEF MemoryInv, NoLibrary
    <3> QED BY <3>1, <3>2 DEF Counted, Resident
  <2> HIDE DEF Counted
  <2>4. (\A b \in Span(ptr[r], Have(r)) : page[b].at = "frame") => Counted = Span(ptr[r], Have(r))
    BY <2>2, <2>3
  <2> QED BY <2>1, <2>2, <2>4, CountPages
<1>2. CASE ~ Holds(r)
  <2>1. Counted = {}
    BY <1>0, <1>2 DEF Counted, Resident, Covered, Holds
  <2> QED BY <1>2, <2>1, CountFew
<1> QED BY <1>1, <1>2

(* What it holds of two blocks of a page each is two pages at most. *)
LEMMA PairCounts ==
  ASSUME MemoryInv, Owns, program \notin Resizers \cup Printers,
         NEW r \in Pointers, NEW s \in Pointers, Have(r) \in 0 .. 1, Have(s) \in 0 .. 1,
         \A t \in Pointers : t # r /\ t # s => Have(t) = 0
  PROVE  Cardinality(Counted) \in 0 .. 2
<1>0. Covered /\ PagesInv
  BY DEF Owns, MemoryInv
<1>1. ptr[r] \in Int /\ ptr[s] \in Int
  BY <1>0, AddressesAre DEF PagesInv, Nowhere
<1>2. Counted \subseteq {ptr[r], ptr[s]}
  <2> SUFFICES ASSUME NEW b \in Addresses, page[b] # Unmapped PROVE b \in {ptr[r], ptr[s]}
    BY DEF Counted, Resident
  <2>1. PICK t \in Pointers : Holds(t) /\ b \in Span(ptr[t], Have(t))
    BY <1>0 DEF Covered
  <2>2. t = r \/ t = s
    BY <2>1 DEF Holds
  <2> QED BY <1>1, <2>1, <2>2, AddressesAre DEF Span, Holds
<1> QED BY <1>2, CountFew

(* A program that holds nothing has no page but dry ones, before its step  *)
(* and after it.                                                           *)
LEMMA NothingHeld ==
  /\ Owns /\ program \notin Resizers /\ (\A r \in Pointers : Have(r) = 0) => Dry
  /\ Owns' /\ program' \notin Resizers /\ (\A r \in Pointers : Have(r)' = 0) => Dry'
<1>1. Owns /\ program \notin Resizers /\ (\A r \in Pointers : Have(r) = 0) => Dry
  BY DEF Owns, Covered, Holds, Dry, DryBut
<1>2. Owns' /\ program' \notin Resizers /\ (\A r \in Pointers : Have(r)' = 0) => Dry'
  BY DEF Owns, Covered, Holds, Dry, DryBut
<1> QED BY <1>1, <1>2

(* A program that knows what a page holds prints that when it reads it. *)
LEMMA ReadPrints ==
  ASSUME MemoryInv, OwnInv, [MCNext]_allVars, program \notin Printers \cup Jumpers \cup Faulters, Goes,
         Step.op \in {"read", "exec"}, program \notin {"file_mmap", "file_share_write"},
         NEW v, Finds(Step.p, Step.k, v)
  PROVE  seen' = Append(seen, v) /\ ptr[Step.p] # Nowhere
<1>1. ptr[Step.p] # Nowhere
  BY Accessed
<1>2. Value = page[ptr[Step.p] + Step.k].val
  BY ValueIs
<1>3. Value = v
  BY <1>1, <1>2 DEF Finds
<1>4. seen' = Append(seen, Value)
  BY Speaks DEF MemoryInv
<1> QED BY <1>1, <1>3, <1>4

(* VmRSS is what it counts, and no more than what glibc has kept; a        *)
(* program that has freed nothing yet gets the one number.                 *)
LEMMA RssPrints ==
  ASSUME ProgramInv, [MCNext]_allVars, program \notin Jumpers, Goes, Step.op = "rss"
  PROVE  /\ \E k \in 0 .. kept : seen' = Append(seen, Cardinality(Counted) + k)
         /\ program \notin Mallocers \/ program = "mlock" =>
              seen' = Append(seen, Cardinality(Counted))
<1>1. WhereInv /\ KeptInv
  BY DEF ProgramInv, MemoryInv
<1>2. \E k \in 0 .. kept : seen' = Append(seen, Cardinality(Counted) + k)
  BY <1>1, Speaks, Zenon DEF Counted
<1>3. Cardinality(Counted) \in Nat
  <2>1. IsFiniteSet(Addresses) /\ Counted \subseteq Addresses
    BY MemoryAssumption, FS_Interval DEF AddressAssumption, LargeAssumption, Addresses, Counted
  <2> QED BY <2>1, FS_Subset, FS_CardinalityType
<1>4. program \notin Mallocers \/ program = "mlock" => kept = 0
  BY <1>1, MlockSteps, LargeIs DEF KeptInv
<1>5. PICK n : n = Cardinality(Counted)
  OBVIOUS
<1>6. kept = 0 => seen' = Append(seen, n)
  <2> SUFFICES ASSUME kept = 0 PROVE seen' = Append(seen, n)
    OBVIOUS
  <2>1. PICK k \in 0 .. 0 : seen' = Append(seen, n + k)
    BY <1>2, <1>5
  <2>2. n + k = n
    BY <1>3, <1>5, <2>1
  <2> QED BY <2>1, <2>2
<1> QED BY <1>2, <1>4, <1>5, <1>6

(* A program that goes on prints nothing, or the next of what it promises. *)
Tells ==
  \/ seen' = seen /\ Said(program, pc + 1) = Said(program, pc)
  \/ /\ Said(program, pc + 1) = Said(program, pc) + 1
     /\ \E x \in Promised[program][Said(program, pc) + 1] : seen' = Append(seen, x)
-----------------------------------------------------------------------------
(* Of a step after which the program is still running. *)
LEMMA TalkFacts ==
  ASSUME ProgramInv, [MCNext]_allVars, end' = "running", Rests \/ Goes, program \notin Printers \cup Jumpers
  PROVE  /\ MemoryInv /\ WhereInv /\ PagesInv /\ OwnInv /\ Owns /\ Owns'
         /\ end = "running" /\ program' = program /\ pc \in Nat
         /\ (Rests => pc' = pc) /\ (Goes => pc' = pc + 1)
<1>1. MemoryInv /\ WhereInv /\ PagesInv /\ OwnInv
  BY DEF ProgramInv, MemoryInv
<1>2. program' = program
  BY <1>1, GoesOn
<1>3. end = "running" /\ (Rests => pc' = pc) /\ (Goes => pc' = pc + 1)
  BY DEF Rests, Goes
<1>4. pc \in Nat
  BY <1>1, StepFacts DEF WhereInv
<1>5. OwnInv'
  BY <1>1, OwnStep
<1> QED BY <1>1, <1>2, <1>3, <1>4, <1>5 DEF OwnInv

(* 01_virtual_memory/01_pagesize.c *)
LEMMA PagesizeTells ==
  ASSUME ProgramInv, program = "pagesize", PagesizeKnows, [MCNext]_allVars, end' = "running", Rests \/ Goes
  PROVE  PagesizeKnows' /\ (Goes => Tells)
<1>1. program \notin Printers \cup Jumpers \cup Faulters
  BY DEF Printers, Jumpers, Faulters
<1>2. /\ MemoryInv /\ WhereInv /\ PagesInv /\ OwnInv /\ Owns /\ Owns'
      /\ program' = program /\ pc \in Nat /\ (Rests => pc' = pc) /\ (Goes => pc' = pc + 1)
      /\ Large \in Nat /\ Large >= 2
  BY <1>1, TalkFacts, LargeIs
<1>3. \A r \in Pointers : Have(r) = IF r = "p" THEN From(2, 5, 1, pc) ELSE 0
  <2>1. \A k \in Nat, r \in Pointers : Holdings["pagesize"][k][r] = IF r = "p" THEN From(2, 5, 1, k) ELSE 0
    BY DEF Holdings, Only
  <2> QED BY <1>2, <2>1 DEF Have
<1>4. {"p", "q", "r", "a", "b", "heap", "anon"} \subseteq Pointers
  BY PointersAre
<1>5. pc' = 4 => Finds("p", 0, "a..z")'
  <2> SUFFICES ASSUME pc' = 4 PROVE Finds("p", 0, "a..z")'
    OBVIOUS
  <2>1. CASE Goes /\ pc = 3
    <3>1. Step.op = "write" /\ Step.p = "p" /\ Step.k = 0 /\ Step.v = "a..z"
      BY <1>2, <2>1, PagesizeSteps
    <3>2. ptr' = ptr /\ page'[ptr["p"] + 0].val = "a..z"
      BY <1>1, <1>2, <2>1, <3>1, Written
    <3> QED BY <3>2 DEF Finds
  <2>2. CASE ~ (Goes /\ pc = 3)
    <3>1. pc = 4
      BY <1>2, <2>2
    <3>2. Finds("p", 0, "a..z")
      BY <3>1 DEF PagesizeKnows
    <3>3. Have("p") \in Nat /\ 0 < Have("p") /\ 0 \in Nat
      BY <1>2, <1>3, <1>4, <3>1 DEF From
    <3>4. Goes => /\ Step.op \in {"get", "mmap_file", "munmap", "free"} => Step.p # "p"
                  /\ Step.op \notin {"resize", "dontneed"}
                  /\ Step.op = "write" => Step.p # "p" \/ Step.k # 0
      BY <1>2, <2>2, <3>1, PagesizeSteps
    <3> QED BY <1>1, <1>2, <1>4, <3>2, <3>3, <3>4, FindsStays
  <2> QED BY <2>1, <2>2
<1>6. Goes => Tells
  <2> SUFFICES ASSUME Goes PROVE Tells
    OBVIOUS
  <2>1. /\ Said(program, pc) = Past(4, pc)
        /\ Said(program, pc + 1) = Past(4, pc + 1)
    BY <1>2, SaidIs
  <2>2. CASE pc = 4
    <3>1. Finds("p", 0, "a..z") /\ Step.op \in {"read", "exec"} /\ Step.p = "p" /\ Step.k = 0
      BY <1>2, <2>2, PagesizeSteps DEF PagesizeKnows
    <3>2. seen' = Append(seen, "a..z")
      BY <1>1, <1>2, <3>1, ReadPrints
    <3>9. \E x \in Promised[program][1] : seen' = Append(seen, x)
      BY <3>2, PromisedIs DEF PromisesAre
    <3>8. Said(program, pc) = 0 /\ Said(program, pc + 1) = 1
      BY <1>2, <2>1, <2>2 DEF Past
    <3> QED BY <3>8, <3>9 DEF Tells
  <2>3. CASE pc # 4
    <3>1. seen' = seen
      <4>1. Step.op \notin Outputs
        BY <1>2, <2>3, PagesizeSteps DEF Outputs
      <4> QED BY <1>1, <1>2, <4>1, Speaks
    <3>2. Said(program, pc + 1) = Said(program, pc)
      <4>1. Past(4, pc + 1) = Past(4, pc)
        BY <1>2, <2>3 DEF Past
      <4> QED BY <2>1, <4>1
    <3> QED BY <3>1, <3>2 DEF Tells
  <2> QED BY <2>2, <2>3
<1> QED BY <1>2, <1>5, <1>6 DEF PagesizeKnows

(* 04_heap_malloc/01_malloc_basics.c *)
LEMMA BasicsTells ==
  ASSUME ProgramInv, program = "malloc_basics", BasicsKnows, [MCNext]_allVars, end' = "running", Rests \/ Goes
  PROVE  BasicsKnows' /\ (Goes => Tells)
<1>1. program \notin Printers \cup Jumpers \cup Faulters
  BY DEF Printers, Jumpers, Faulters
<1>2. /\ MemoryInv /\ WhereInv /\ PagesInv /\ OwnInv /\ Owns /\ Owns'
      /\ program' = program /\ pc \in Nat /\ (Rests => pc' = pc) /\ (Goes => pc' = pc + 1)
      /\ Large \in Nat /\ Large >= 2
  BY <1>1, TalkFacts, LargeIs
<1>3. \A r \in Pointers : Have(r) = IF r = "a" THEN From(2, 5, 1, pc) + From(6, 8, 2, pc)
          + From(9, 9, Large, pc)
      ELSE IF r = "b" THEN From(4, 10, 1, pc) ELSE IF r = "r" THEN From(13, 13, 1, pc) ELSE 0
  <2>1. \A k \in Nat, r \in Pointers :
            Holdings["malloc_basics"][k][r] = IF r = "a" THEN From(2, 5, 1, k) + From(6, 8, 2, k)
            + From(9, 9, Large, k)
      ELSE IF r = "b" THEN From(4, 10, 1, k) ELSE IF r = "r" THEN From(13, 13, 1, k) ELSE 0
    BY DEF Holdings
  <2> QED BY <1>2, <2>1 DEF Have
<1>4. {"p", "q", "r", "a", "b", "heap", "anon"} \subseteq Pointers
  BY PointersAre
<1>5. pc' = 2 => Finds("a", 0, "junk")'
  <2> SUFFICES ASSUME pc' = 2 PROVE Finds("a", 0, "junk")'
    OBVIOUS
  <2>1. CASE Goes /\ pc = 1
    <3>1. Step.op = "get" /\ Step.p = "a" /\ Step.n = 1 /\ Step.val = "junk"
      BY <1>2, <2>1, BasicsSteps
    <3>2. 0 \in 0 .. Step.n - 1
      BY <1>2, <3>1
    <3>3. ptr'["a"] # Nowhere => page'[ptr'["a"] + 0].val = "junk"
      BY <1>1, <1>2, <2>1, <3>1, <3>2, Fresh
    <3> QED BY <3>3 DEF Finds
  <2>2. CASE ~ (Goes /\ pc = 1)
    <3>1. pc = 2
      BY <1>2, <2>2
    <3>2. Finds("a", 0, "junk")
      BY <3>1 DEF BasicsKnows
    <3>3. Have("a") \in Nat /\ 0 < Have("a") /\ 0 \in Nat
      BY <1>2, <1>3, <1>4, <3>1 DEF From
    <3>4. Goes => /\ Step.op \in {"get", "mmap_file", "munmap", "free"} => Step.p # "a"
                  /\ Step.op \notin {"resize", "dontneed"}
                  /\ Step.op = "write" => Step.p # "a" \/ Step.k # 0
      BY <1>2, <2>2, <3>1, BasicsSteps
    <3> QED BY <1>1, <1>2, <1>4, <3>2, <3>3, <3>4, FindsStays
  <2> QED BY <2>1, <2>2
<1>6. pc' = 4 => Finds("b", 0, "zero")'
  <2> SUFFICES ASSUME pc' = 4 PROVE Finds("b", 0, "zero")'
    OBVIOUS
  <2>1. CASE Goes /\ pc = 3
    <3>1. Step.op = "get" /\ Step.p = "b" /\ Step.n = 1 /\ Step.val = "zero"
      BY <1>2, <2>1, BasicsSteps
    <3>2. 0 \in 0 .. Step.n - 1
      BY <1>2, <3>1
    <3>3. ptr'["b"] # Nowhere => page'[ptr'["b"] + 0].val = "zero"
      BY <1>1, <1>2, <2>1, <3>1, <3>2, Fresh
    <3> QED BY <3>3 DEF Finds
  <2>2. CASE ~ (Goes /\ pc = 3)
    <3>1. pc = 4
      BY <1>2, <2>2
    <3>2. Finds("b", 0, "zero")
      BY <3>1 DEF BasicsKnows
    <3>3. Have("b") \in Nat /\ 0 < Have("b") /\ 0 \in Nat
      BY <1>2, <1>3, <1>4, <3>1 DEF From
    <3>4. Goes => /\ Step.op \in {"get", "mmap_file", "munmap", "free"} => Step.p # "b"
                  /\ Step.op \notin {"resize", "dontneed"}
                  /\ Step.op = "write" => Step.p # "b" \/ Step.k # 0
      BY <1>2, <2>2, <3>1, BasicsSteps
    <3> QED BY <1>1, <1>2, <1>4, <3>2, <3>3, <3>4, FindsStays
  <2> QED BY <2>1, <2>2
<1>7. Goes => Tells
  <2> SUFFICES ASSUME Goes PROVE Tells
    OBVIOUS
  <2>1. /\ Said(program, pc) = Past(2, pc) + Past(4, pc)
        /\ Said(program, pc + 1) = Past(2, pc + 1) + Past(4, pc + 1)
    BY <1>2, SaidIs
  <2>2. CASE pc = 2
    <3>1. Finds("a", 0, "junk") /\ Step.op \in {"read", "exec"} /\ Step.p = "a" /\ Step.k = 0
      BY <1>2, <2>2, BasicsSteps DEF BasicsKnows
    <3>2. seen' = Append(seen, "junk")
      BY <1>1, <1>2, <3>1, ReadPrints
    <3>9. \E x \in Promised[program][1] : seen' = Append(seen, x)
      BY <3>2, PromisedIs DEF PromisesAre
    <3>8. Said(program, pc) = 0 /\ Said(program, pc + 1) = 1
      BY <1>2, <2>1, <2>2 DEF Past
    <3> QED BY <3>8, <3>9 DEF Tells
  <2>3. CASE pc = 4
    <3>1. Finds("b", 0, "zero") /\ Step.op \in {"read", "exec"} /\ Step.p = "b" /\ Step.k = 0
      BY <1>2, <2>3, BasicsSteps DEF BasicsKnows
    <3>2. seen' = Append(seen, "zero")
      BY <1>1, <1>2, <3>1, ReadPrints
    <3>9. \E x \in Promised[program][2] : seen' = Append(seen, x)
      BY <3>2, PromisedIs DEF PromisesAre
    <3>8. Said(program, pc) = 1 /\ Said(program, pc + 1) = 2
      BY <1>2, <2>1, <2>3 DEF Past
    <3> QED BY <3>8, <3>9 DEF Tells
  <2>4. CASE pc # 2 /\ pc # 4
    <3>1. seen' = seen
      <4>1. Step.op \notin Outputs
        BY <1>2, <2>4, BasicsSteps DEF Outputs
      <4> QED BY <1>1, <1>2, <4>1, Speaks
    <3>2. Said(program, pc + 1) = Said(program, pc)
      <4>1. /\ Past(2, pc + 1) = Past(2, pc)
            /\ Past(4, pc + 1) = Past(4, pc)
        BY <1>2, <2>4 DEF Past
      <4> QED BY <2>1, <4>1
    <3> QED BY <3>1, <3>2 DEF Tells
  <2> QED BY <2>2, <2>3, <2>4
<1> QED BY <1>2, <1>5, <1>6, <1>7 DEF BasicsKnows

(* 11_memory_protection/02_mprotect_jit.c *)
LEMMA JitTells ==
  ASSUME ProgramInv, program = "mprotect_jit", JitKnows, [MCNext]_allVars, end' = "running", Rests \/ Goes
  PROVE  JitKnows' /\ (Goes => Tells)
<1>1. program \notin Printers \cup Jumpers \cup Faulters
  BY DEF Printers, Jumpers, Faulters
<1>2. /\ MemoryInv /\ WhereInv /\ PagesInv /\ OwnInv /\ Owns /\ Owns'
      /\ program' = program /\ pc \in Nat /\ (Rests => pc' = pc) /\ (Goes => pc' = pc + 1)
      /\ Large \in Nat /\ Large >= 2
  BY <1>1, TalkFacts, LargeIs
<1>3. \A r \in Pointers : Have(r) = IF r = "p" THEN From(2, 6, 1, pc) ELSE 0
  <2>1. \A k \in Nat, r \in Pointers :
            Holdings["mprotect_jit"][k][r] = IF r = "p" THEN From(2, 6, 1, k) ELSE 0
    BY DEF Holdings, Only
  <2> QED BY <1>2, <2>1 DEF Have
<1>4. {"p", "q", "r", "a", "b", "heap", "anon"} \subseteq Pointers
  BY PointersAre
<1>5. pc' \in 4 .. 5 => Finds("p", 0, "code")'
  <2> SUFFICES ASSUME pc' \in 4 .. 5 PROVE Finds("p", 0, "code")'
    OBVIOUS
  <2>1. CASE Goes /\ pc = 3
    <3>1. Step.op = "write" /\ Step.p = "p" /\ Step.k = 0 /\ Step.v = "code"
      BY <1>2, <2>1, JitSteps
    <3>2. ptr' = ptr /\ page'[ptr["p"] + 0].val = "code"
      BY <1>1, <1>2, <2>1, <3>1, Written
    <3> QED BY <3>2 DEF Finds
  <2>2. CASE ~ (Goes /\ pc = 3)
    <3>1. pc \in 4 .. 5
      BY <1>2, <2>2
    <3>2. Finds("p", 0, "code")
      BY <3>1 DEF JitKnows
    <3>3. Have("p") \in Nat /\ 0 < Have("p") /\ 0 \in Nat
      BY <1>2, <1>3, <1>4, <3>1 DEF From
    <3>4. Goes => /\ Step.op \in {"get", "mmap_file", "munmap", "free"} => Step.p # "p"
                  /\ Step.op \notin {"resize", "dontneed"}
                  /\ Step.op = "write" => Step.p # "p" \/ Step.k # 0
      BY <1>2, <2>2, <3>1, JitSteps
    <3> QED BY <1>1, <1>2, <1>4, <3>2, <3>3, <3>4, FindsStays
  <2> QED BY <2>1, <2>2
<1>6. Goes => Tells
  <2> SUFFICES ASSUME Goes PROVE Tells
    OBVIOUS
  <2>1. /\ Said(program, pc) = Past(5, pc)
        /\ Said(program, pc + 1) = Past(5, pc + 1)
    BY <1>2, SaidIs
  <2>2. CASE pc = 5
    <3>1. Finds("p", 0, "code") /\ Step.op \in {"read", "exec"} /\ Step.p = "p" /\ Step.k = 0
      BY <1>2, <2>2, JitSteps DEF JitKnows
    <3>2. seen' = Append(seen, "code")
      BY <1>1, <1>2, <3>1, ReadPrints
    <3>9. \E x \in Promised[program][1] : seen' = Append(seen, x)
      BY <3>2, PromisedIs DEF PromisesAre
    <3>8. Said(program, pc) = 0 /\ Said(program, pc + 1) = 1
      BY <1>2, <2>1, <2>2 DEF Past
    <3> QED BY <3>8, <3>9 DEF Tells
  <2>3. CASE pc # 5
    <3>1. seen' = seen
      <4>1. Step.op \notin Outputs
        BY <1>2, <2>3, JitSteps DEF Outputs
      <4> QED BY <1>1, <1>2, <4>1, Speaks
    <3>2. Said(program, pc + 1) = Said(program, pc)
      <4>1. Past(5, pc + 1) = Past(5, pc)
        BY <1>2, <2>3 DEF Past
      <4> QED BY <2>1, <4>1
    <3> QED BY <3>1, <3>2 DEF Tells
  <2> QED BY <2>2, <2>3
<1> QED BY <1>2, <1>5, <1>6 DEF JitKnows

(* 07_paging_swapping/03_madvise_pageout.c *)
LEMMA MadvisePageoutTells ==
  ASSUME ProgramInv, program = "madvise_pageout", MadvisePageoutKnows, [MCNext]_allVars, end' = "running",
         Rests \/ Goes
  PROVE  MadvisePageoutKnows' /\ (Goes => Tells)
<1>1. program \notin Printers \cup Jumpers \cup Faulters
  BY DEF Printers, Jumpers, Faulters
<1>2. /\ MemoryInv /\ WhereInv /\ PagesInv /\ OwnInv /\ Owns /\ Owns'
      /\ program' = program /\ pc \in Nat /\ (Rests => pc' = pc) /\ (Goes => pc' = pc + 1)
      /\ Large \in Nat /\ Large >= 2
  BY <1>1, TalkFacts, LargeIs
<1>3. \A r \in Pointers : Have(r) = IF r = "p" THEN From(2, Large + 7, Large, pc) ELSE 0
  <2>1. \A k \in Nat, r \in Pointers :
            Holdings["madvise_pageout"][k][r] = IF r = "p" THEN From(2, Large + 7, Large, k) ELSE 0
    BY DEF Holdings, Only
  <2> QED BY <1>2, <2>1 DEF Have
<1>4. {"p", "q", "r", "a", "b", "heap", "anon"} \subseteq Pointers
  BY PointersAre
<1>5. pc' \in 4 .. Large + 5 => Finds("p", 1, "0xAA")'
  <2> SUFFICES ASSUME pc' \in 4 .. Large + 5 PROVE Finds("p", 1, "0xAA")'
    OBVIOUS
  <2>1. CASE Goes /\ pc = 3
    <3>1. Step.op = "write" /\ Step.p = "p" /\ Step.k = 1 /\ Step.v = "0xAA"
      BY <1>2, <2>1, MadvisePageoutSteps
    <3>2. ptr' = ptr /\ page'[ptr["p"] + 1].val = "0xAA"
      BY <1>1, <1>2, <2>1, <3>1, Written
    <3> QED BY <3>2 DEF Finds
  <2>2. CASE ~ (Goes /\ pc = 3)
    <3>1. pc \in 4 .. Large + 5
      BY <1>2, <2>2
    <3>2. Finds("p", 1, "0xAA")
      BY <3>1 DEF MadvisePageoutKnows
    <3>3. Have("p") \in Nat /\ 1 < Have("p") /\ 1 \in Nat
      BY <1>2, <1>3, <1>4, <3>1 DEF From
    <3>4. Goes => /\ Step.op \in {"get", "mmap_file", "munmap", "free"} => Step.p # "p"
                  /\ Step.op \notin {"resize", "dontneed"}
                  /\ Step.op = "write" => Step.p # "p" \/ Step.k # 1
      BY <1>2, <2>2, <3>1, MadvisePageoutSteps
    <3> QED BY <1>1, <1>2, <1>4, <3>2, <3>3, <3>4, FindsStays
  <2> QED BY <2>1, <2>2
<1>6. Goes => Tells
  <2> SUFFICES ASSUME Goes PROVE Tells
    OBVIOUS
  <2>1. /\ Said(program, pc) = Past(Large + 2, pc) + Past(Large + 4, pc) + Past(Large + 5, pc)
               + Past(Large + 6, pc)
        /\ Said(program, pc + 1) = Past(Large + 2, pc + 1) + Past(Large + 4, pc + 1)
               + Past(Large + 5, pc + 1) + Past(Large + 6, pc + 1)
    BY <1>2, SaidIs
  <2>2. CASE pc = Large + 2
    <3>1. Step.op = "rss"
      BY <1>2, <2>2, MadvisePageoutSteps
    <3>2. seen' = Append(seen, Cardinality(Counted))
      BY <1>1, <1>2, <3>1, RssPrints DEF Mallocers
    <3>3. Have("p") = Large /\ \A s \in Pointers : s # "p" => Have(s) = 0
      BY <1>2, <1>3, <1>4, <2>2 DEF From
    <3>4. Cardinality(Counted) \in 0 .. Large
      BY <1>1, <1>2, <1>4, <3>3, HeldCounts DEF Resizers
    <3>9. \E x \in Promised[program][1] : seen' = Append(seen, x)
      BY <3>2, <3>4, PromisedIs DEF PromisesAre
    <3>8. Said(program, pc) = 0 /\ Said(program, pc + 1) = 1
      BY <1>2, <2>1, <2>2 DEF Past
    <3> QED BY <3>8, <3>9 DEF Tells
  <2>3. CASE pc = Large + 4
    <3>1. Step.op = "rss"
      BY <1>2, <2>3, MadvisePageoutSteps
    <3>2. seen' = Append(seen, Cardinality(Counted))
      BY <1>1, <1>2, <3>1, RssPrints DEF Mallocers
    <3>3. Have("p") = Large /\ \A s \in Pointers : s # "p" => Have(s) = 0
      BY <1>2, <1>3, <1>4, <2>3 DEF From
    <3>4. Cardinality(Counted) \in 0 .. Large
      BY <1>1, <1>2, <1>4, <3>3, HeldCounts DEF Resizers
    <3>9. \E x \in Promised[program][2] : seen' = Append(seen, x)
      BY <3>2, <3>4, PromisedIs DEF PromisesAre
    <3>8. Said(program, pc) = 1 /\ Said(program, pc + 1) = 2
      BY <1>2, <2>1, <2>3 DEF Past
    <3> QED BY <3>8, <3>9 DEF Tells
  <2>4. CASE pc = Large + 5
    <3>1. Finds("p", 1, "0xAA") /\ Step.op \in {"read", "exec"} /\ Step.p = "p" /\ Step.k = 1
      BY <1>2, <2>4, MadvisePageoutSteps DEF MadvisePageoutKnows
    <3>2. seen' = Append(seen, "0xAA")
      BY <1>1, <1>2, <3>1, ReadPrints
    <3>9. \E x \in Promised[program][3] : seen' = Append(seen, x)
      BY <3>2, PromisedIs DEF PromisesAre
    <3>8. Said(program, pc) = 2 /\ Said(program, pc + 1) = 3
      BY <1>2, <2>1, <2>4 DEF Past
    <3> QED BY <3>8, <3>9 DEF Tells
  <2>5. CASE pc = Large + 6
    <3>1. Step.op = "rss"
      BY <1>2, <2>5, MadvisePageoutSteps
    <3>2. seen' = Append(seen, Cardinality(Counted))
      BY <1>1, <1>2, <3>1, RssPrints DEF Mallocers
    <3>3. Have("p") = Large /\ \A s \in Pointers : s # "p" => Have(s) = 0
      BY <1>2, <1>3, <1>4, <2>5 DEF From
    <3>4. Cardinality(Counted) \in 0 .. Large
      BY <1>1, <1>2, <1>4, <3>3, HeldCounts DEF Resizers
    <3>9. \E x \in Promised[program][4] : seen' = Append(seen, x)
      BY <3>2, <3>4, PromisedIs DEF PromisesAre
    <3>8. Said(program, pc) = 3 /\ Said(program, pc + 1) = 4
      BY <1>2, <2>1, <2>5 DEF Past
    <3> QED BY <3>8, <3>9 DEF Tells
  <2>6. CASE pc # Large + 2 /\ pc # Large + 4 /\ pc # Large + 5 /\ pc # Large + 6
    <3>1. seen' = seen
      <4>1. Step.op \notin Outputs
        BY <1>2, <2>6, MadvisePageoutSteps DEF Outputs
      <4> QED BY <1>1, <1>2, <4>1, Speaks
    <3>2. Said(program, pc + 1) = Said(program, pc)
      <4>1. /\ Past(Large + 2, pc + 1) = Past(Large + 2, pc)
            /\ Past(Large + 4, pc + 1) = Past(Large + 4, pc)
            /\ Past(Large + 5, pc + 1) = Past(Large + 5, pc)
            /\ Past(Large + 6, pc + 1) = Past(Large + 6, pc)
        BY <1>2, <2>6 DEF Past
      <4> QED BY <2>1, <4>1
    <3> QED BY <3>1, <3>2 DEF Tells
  <2> QED BY <2>2, <2>3, <2>4, <2>5, <2>6
<1> QED BY <1>2, <1>5, <1>6 DEF MadvisePageoutKnows

(* 01_virtual_memory/04_pagemap.c *)
LEMMA PagemapTells ==
  ASSUME ProgramInv, program = "pagemap", PagemapKnows, [MCNext]_allVars, end' = "running", Rests \/ Goes
  PROVE  PagemapKnows' /\ (Goes => Tells)
<1>1. program \notin Printers \cup Jumpers \cup Faulters
  BY DEF Printers, Jumpers, Faulters
<1>2. /\ MemoryInv /\ WhereInv /\ PagesInv /\ OwnInv /\ Owns /\ Owns'
      /\ program' = program /\ pc \in Nat /\ (Rests => pc' = pc) /\ (Goes => pc' = pc + 1)
      /\ Large \in Nat /\ Large >= 2
  BY <1>1, TalkFacts, LargeIs
<1>3. \A r \in Pointers : Have(r) = IF r = "heap" THEN From(2, 11, 1, pc)
          ELSE IF r = "anon" THEN From(4, 12, 1, pc) ELSE 0
  <2>1. \A k \in Nat, r \in Pointers :
            Holdings["pagemap"][k][r] = IF r = "heap" THEN From(2, 11, 1, k)
            ELSE IF r = "anon" THEN From(4, 12, 1, k) ELSE 0
    BY DEF Holdings
  <2> QED BY <1>2, <2>1 DEF Have
<1>4. {"p", "q", "r", "a", "b", "heap", "anon"} \subseteq Pointers
  BY PointersAre
<1>5. pc' \in 3 .. 11 => ptr'["heap"] # Nowhere /\ page'[ptr'["heap"]].at \in {"frame", "swap"}
  <2> SUFFICES ASSUME pc' \in 3 .. 11
               PROVE  ptr'["heap"] # Nowhere /\ page'[ptr'["heap"]].at \in {"frame", "swap"}
    OBVIOUS
  <2>1. CASE Goes /\ pc = 2
    <3>1. Step.op = "write" /\ Step.p = "heap" /\ Step.k = 0
      BY <1>2, <2>1, PagemapSteps
    <3>2. ptr["heap"] # Nowhere /\ ptr' = ptr /\ page'[ptr["heap"] + 0].at = "frame"
      BY <1>1, <1>2, <2>1, <3>1, Written
    <3>3. ptr["heap"] \in Int
      BY <1>2, <1>4, <3>2, AddressesAre DEF PagesInv
    <3> QED BY <3>2, <3>3
  <2>2. CASE ~ (Goes /\ pc = 2)
    <3>1. pc \in 3 .. 11
      BY <1>2, <2>2
    <3>2. ptr["heap"] # Nowhere /\ page[ptr["heap"]].at \in {"frame", "swap"}
      BY <3>1 DEF PagemapKnows
    <3>3. Have("heap") \in Nat /\ Have("heap") > 0
      BY <1>2, <1>3, <1>4, <3>1 DEF From
    <3>4. Goes => /\ Step.op \in {"get", "mmap_file", "munmap", "free"} => Step.p # "heap"
                  /\ Step.op \notin {"resize", "dontneed"}
      BY <1>2, <2>2, <3>1, PagemapSteps
    <3> QED BY <1>1, <1>2, <1>4, <3>2, <3>3, <3>4, WrittenStays
  <2> QED BY <2>1, <2>2
<1>6. pc' \in 5 .. 12 => ptr'["anon"] # Nowhere /\ page'[ptr'["anon"]].at \in {"frame", "swap"}
  <2> SUFFICES ASSUME pc' \in 5 .. 12
               PROVE  ptr'["anon"] # Nowhere /\ page'[ptr'["anon"]].at \in {"frame", "swap"}
    OBVIOUS
  <2>1. CASE Goes /\ pc = 4
    <3>1. Step.op = "write" /\ Step.p = "anon" /\ Step.k = 0
      BY <1>2, <2>1, PagemapSteps
    <3>2. ptr["anon"] # Nowhere /\ ptr' = ptr /\ page'[ptr["anon"] + 0].at = "frame"
      BY <1>1, <1>2, <2>1, <3>1, Written
    <3>3. ptr["anon"] \in Int
      BY <1>2, <1>4, <3>2, AddressesAre DEF PagesInv
    <3> QED BY <3>2, <3>3
  <2>2. CASE ~ (Goes /\ pc = 4)
    <3>1. pc \in 5 .. 12
      BY <1>2, <2>2
    <3>2. ptr["anon"] # Nowhere /\ page[ptr["anon"]].at \in {"frame", "swap"}
      BY <3>1 DEF PagemapKnows
    <3>3. Have("anon") \in Nat /\ Have("anon") > 0
      BY <1>2, <1>3, <1>4, <3>1 DEF From
    <3>4. Goes => /\ Step.op \in {"get", "mmap_file", "munmap", "free"} => Step.p # "anon"
                  /\ Step.op \notin {"resize", "dontneed"}
      BY <1>2, <2>2, <3>1, PagemapSteps
    <3> QED BY <1>1, <1>2, <1>4, <3>2, <3>3, <3>4, WrittenStays
  <2> QED BY <2>1, <2>2
<1>7. Goes => Tells
  <2> SUFFICES ASSUME Goes PROVE Tells
    OBVIOUS
  <2>1. /\ Said(program, pc) = IF pc <= 5 THEN 0 ELSE IF pc <= 10 THEN pc - 5 ELSE 6
        /\ Said(program, pc + 1) = IF pc + 1 <= 5 THEN 0 ELSE IF pc + 1 <= 10 THEN pc + 1 - 5 ELSE 6
    BY <1>2, SaidIs
  <2>2. CASE pc = 5
    <3>1. Step.op = "pagemap"
      BY <1>2, <2>2, PagemapSteps
    <3>9. \E x \in Promised[program][1] : seen' = Append(seen, x)
      <4>1. \E bits \in {"present", "swap", "none"} : seen' = Append(seen, bits)
        BY <1>1, <1>2, <3>1, Speaks
      <4> QED BY <4>1, PromisedIs DEF PromisesAre
    <3>8. Said(program, pc) = 0 /\ Said(program, pc + 1) = 1
      BY <1>2, <2>1, <2>2 DEF Past
    <3> QED BY <3>8, <3>9 DEF Tells
  <2>3. CASE pc = 6
    <3>1. Step.op = "pagemap"
      BY <1>2, <2>3, PagemapSteps
    <3>9. \E x \in Promised[program][2] : seen' = Append(seen, x)
      <4>1. \E bits \in {"present", "swap", "none"} : seen' = Append(seen, bits)
        BY <1>1, <1>2, <3>1, Speaks
      <4> QED BY <4>1, PromisedIs DEF PromisesAre
    <3>8. Said(program, pc) = 1 /\ Said(program, pc + 1) = 2
      BY <1>2, <2>1, <2>3 DEF Past
    <3> QED BY <3>8, <3>9 DEF Tells
  <2>4. CASE pc = 7
    <3>1. Step.op = "pagemap"
      BY <1>2, <2>4, PagemapSteps
    <3>9. \E x \in Promised[program][3] : seen' = Append(seen, x)
      <4>1. \E bits \in {"present", "swap", "none"} : seen' = Append(seen, bits)
        BY <1>1, <1>2, <3>1, Speaks
      <4> QED BY <4>1, PromisedIs DEF PromisesAre
    <3>8. Said(program, pc) = 2 /\ Said(program, pc + 1) = 3
      BY <1>2, <2>1, <2>4 DEF Past
    <3> QED BY <3>8, <3>9 DEF Tells
  <2>5. CASE pc = 8
    <3>1. Step.op = "pagemap" /\ Step.p = "heap" /\ page[ptr[Step.p]].at \in {"frame", "swap"}
      BY <1>2, <2>5, PagemapSteps DEF PagemapKnows
    <3>9. \E x \in Promised[program][4] : seen' = Append(seen, x)
      <4>1. \E bits \in {"present", "swap", "none"} : seen' = Append(seen, bits) /\ bits # "none"
        <5>1. Step.p # "static"
          BY <3>1
        <5> QED BY <1>1, <1>2, <3>1, <5>1, Speaks
      <4> QED BY <4>1, PromisedIs DEF PromisesAre
    <3>8. Said(program, pc) = 3 /\ Said(program, pc + 1) = 4
      BY <1>2, <2>1, <2>5 DEF Past
    <3> QED BY <3>8, <3>9 DEF Tells
  <2>6. CASE pc = 9
    <3>1. Step.op = "pagemap" /\ Step.p = "anon" /\ page[ptr[Step.p]].at \in {"frame", "swap"}
      BY <1>2, <2>6, PagemapSteps DEF PagemapKnows
    <3>9. \E x \in Promised[program][5] : seen' = Append(seen, x)
      <4>1. \E bits \in {"present", "swap", "none"} : seen' = Append(seen, bits) /\ bits # "none"
        <5>1. Step.p # "static"
          BY <3>1
        <5> QED BY <1>1, <1>2, <3>1, <5>1, Speaks
      <4> QED BY <4>1, PromisedIs DEF PromisesAre
    <3>8. Said(program, pc) = 4 /\ Said(program, pc + 1) = 5
      BY <1>2, <2>1, <2>6 DEF Past
    <3> QED BY <3>8, <3>9 DEF Tells
  <2>7. CASE pc = 10
    <3>1. Step.op = "pagemap"
      BY <1>2, <2>7, PagemapSteps
    <3>9. \E x \in Promised[program][6] : seen' = Append(seen, x)
      <4>1. \E bits \in {"present", "swap", "none"} : seen' = Append(seen, bits)
        BY <1>1, <1>2, <3>1, Speaks
      <4> QED BY <4>1, PromisedIs DEF PromisesAre
    <3>8. Said(program, pc) = 5 /\ Said(program, pc + 1) = 6
      BY <1>2, <2>1, <2>7 DEF Past
    <3> QED BY <3>8, <3>9 DEF Tells
  <2>8. CASE pc # 5 /\ pc # 6 /\ pc # 7 /\ pc # 8 /\ pc # 9 /\ pc # 10
    <3>1. seen' = seen
      <4>1. Step.op \notin Outputs
        BY <1>2, <2>8, PagemapSteps DEF Outputs
      <4> QED BY <1>1, <1>2, <4>1, Speaks
    <3>2. Said(program, pc + 1) = Said(program, pc)
      BY <1>2, <2>1, <2>8
    <3> QED BY <3>1, <3>2 DEF Tells
  <2> QED BY <2>2, <2>3, <2>4, <2>5, <2>6, <2>7, <2>8
<1> QED BY <1>2, <1>5, <1>6, <1>7 DEF PagemapKnows
-----------------------------------------------------------------------------
(* No other step than a refused MADV_DONTNEED marks one as refused. *)
LEMMA RefusedStays ==
  ASSUME [MCNext]_allVars, Rests \/ (Goes /\ Step.op # "dontneed")
  PROVE  refused' = refused
<1>1. Rests => refused' = refused
  BY DEF Rests
<1>2. DontneedStep => Step.op = "dontneed"
  BY OpOf
<1> QED BY <1>1, <1>2, KeptSteps, Zenon

(* MADV_DONTNEED over all that a program holds leaves it no page but fresh *)
(* ones, or everything as it was when it is refused.                       *)
LEMMA DropsAll ==
  ASSUME MemoryInv, Owns, [MCNext]_allVars, program \notin Printers \cup Jumpers \cup Resizers, Goes,
         Step.op = "dontneed", NEW r \in Pointers, r = Step.p, Step.n = Have(r),
         \A s \in Pointers : s # r => Have(s) = 0, ~ (refused' = TRUE /\ page' = page)
  PROVE  /\ ptr' = ptr /\ refused' = refused
         /\ \A b \in Addresses : page'[b] # Unmapped => page'[b].at = "none"
         /\ ptr[r] # Nowhere => \A b \in Span(ptr[r], Have(r)) : page'[b].at = "none" /\ page'[b].val = "zero"
<1>0. WhereInv /\ PagesInv
  BY DEF MemoryInv
<1>1. DontneedStep
  BY <1>0, Does
<1>2. ptr' = ptr
  BY <1>1 DEF DontneedStep
<1>3. refused' = refused /\ \A b \in Addresses :
        /\ b \notin Span(ptr[r], Have(r)) \/ page[b] = Unmapped => page'[b] = page[b]
        /\ b \in Span(ptr[r], Have(r)) /\ page[b] # Unmapped => page'[b].val = "zero" /\ page'[b].at = "none"
  BY <1>0, <1>1, DontneedPages
<1>4. Covered
  BY DEF Owns
<1>5. \A b \in Addresses : page[b] # Unmapped => b \in Span(ptr[r], Have(r))
  BY <1>4 DEF Covered, Holds
<1>6. ptr[r] # Nowhere => \A b \in Span(ptr[r], Have(r)) : b \in Addresses /\ page[b] # Unmapped
  <2>1. CASE Have(r) > 0
    BY <2>1 DEF Owns, Whole
  <2>2. CASE ~ (Have(r) > 0)
    <3>1. Have(r) \in Nat
      BY <1>0, FitsNow DEF Fits, Have
    <3> QED BY <1>0, <2>2, <3>1, AddressesAre DEF Span, PagesInv
  <2> QED BY <2>1, <2>2
<1> QED BY <1>2, <1>3, <1>5, <1>6

(* 01_virtual_memory/02_lazy_allocation.c *)
LEMMA LazyAllocationTells ==
  ASSUME ProgramInv, program = "lazy_allocation", LazyAllocationKnows, [MCNext]_allVars, end' = "running",
         Rests \/ Goes
  PROVE  LazyAllocationKnows' /\ (Goes => Tells)
<1>1. program \notin Printers \cup Jumpers \cup Faulters
  BY DEF Printers, Jumpers, Faulters
<1>2. /\ MemoryInv /\ WhereInv /\ PagesInv /\ OwnInv /\ Owns /\ Owns'
      /\ program' = program /\ pc \in Nat /\ (Rests => pc' = pc) /\ (Goes => pc' = pc + 1)
      /\ Large \in Nat /\ Large >= 2
  BY <1>1, TalkFacts, LargeIs
<1>3. \A r \in Pointers : Have(r) = IF r = "p" THEN From(3, 2 * Large + 9, Large, pc) ELSE 0
  <2>1. \A k \in Nat, r \in Pointers :
            Holdings["lazy_allocation"][k][r] = IF r = "p" THEN From(3, 2 * Large + 9, Large, k) ELSE 0
    BY DEF Holdings, Only
  <2> QED BY <1>2, <2>1 DEF Have
<1>4. {"p", "q", "r", "a", "b", "heap", "anon"} \subseteq Pointers
  BY PointersAre
<1>5. pc' \in 1 .. Large + 6 => Dry'
  <2> SUFFICES ASSUME pc' \in 1 .. Large + 6 PROVE Dry'
    OBVIOUS
  <2>1. pc \in 1 .. Large + 6
    BY <1>2, LazyAllocationSteps
  <2>2. Dry
    BY <2>1 DEF LazyAllocationKnows
  <2>3. Goes => /\ Step.op \notin {"resize", "mlock", "mmap_file", "str", "write"}
                /\ Step.op = "get" => ~ Step.touched
    BY <1>2, <2>1, LazyAllocationSteps
  <2> QED BY <1>1, <1>2, <2>2, <2>3, DryStays DEF Dry, DryBut
<1>7. pc' \in 2 * Large + 8 .. 2 * Large + 9 => refused' \/ Dry'
  <2> SUFFICES ASSUME pc' \in 2 * Large + 8 .. 2 * Large + 9, ~ refused' PROVE Dry'
    OBVIOUS
  <2>1. CASE Goes /\ pc = 2 * Large + 7
    <3>1. Step.op = "dontneed" /\ Step.p = "p" /\ Step.n = Large
      BY <1>2, <2>1, LazyAllocationSteps
    <3>2. Have("p") = Large /\ \A s \in Pointers : s # "p" => Have(s) = 0
      BY <1>2, <1>3, <1>4, <2>1 DEF From
    <3>3. \A b \in Addresses : page'[b] # Unmapped => page'[b].at = "none"
      BY <1>1, <1>2, <1>4, <2>1, <3>1, <3>2, DropsAll DEF Resizers
    <3> QED BY <3>3 DEF Dry, DryBut
  <2>2. CASE ~ (Goes /\ pc = 2 * Large + 7)
    <3>1. pc \in 2 * Large + 8 .. 2 * Large + 9
      BY <1>2, <2>2, LazyAllocationSteps
    <3>2. Goes => Step.op \in {"rss", "munmap"}
      BY <1>2, <3>1, LazyAllocationSteps
    <3>3. ~ refused
      BY <3>2, RefusedStays, Zenon
    <3>4. Dry
      BY <3>1, <3>3 DEF LazyAllocationKnows
    <3> QED BY <1>1, <1>2, <3>2, <3>4, DryStays DEF Dry, DryBut
  <2> QED BY <2>1, <2>2
<1>6. Goes => Tells
  <2> SUFFICES ASSUME Goes PROVE Tells
    OBVIOUS
  <2>1. /\ Said(program, pc) = Past(1, pc) + Past(4, pc) + Past(Large + 5, pc) + Past(2 * Large + 6, pc)
               + Past(2 * Large + 8, pc) + Past(2 * Large + 10, pc)
        /\ Said(program, pc + 1) = Past(1, pc + 1) + Past(4, pc + 1) + Past(Large + 5, pc + 1)
               + Past(2 * Large + 6, pc + 1) + Past(2 * Large + 8, pc + 1) + Past(2 * Large + 10, pc + 1)
    BY <1>2, SaidIs
  <2>2. CASE pc = 1
    <3>1. Step.op = "rss"
      BY <1>2, <2>2, LazyAllocationSteps
    <3>2. seen' = Append(seen, Cardinality(Counted))
      BY <1>1, <1>2, <3>1, RssPrints DEF Mallocers
    <3>3. Dry
      BY <1>2, <2>2, LazyAllocationSteps DEF LazyAllocationKnows
    <3>4. Cardinality(Counted) = 0
      BY <3>3, DryCounts DEF Dry
    <3>9. \E x \in Promised[program][1] : seen' = Append(seen, x)
      BY <3>2, <3>4, PromisedIs DEF PromisesAre
    <3>8. Said(program, pc) = 0 /\ Said(program, pc + 1) = 1
      BY <1>2, <2>1, <2>2 DEF Past
    <3> QED BY <3>8, <3>9 DEF Tells
  <2>3. CASE pc = 4
    <3>1. Step.op = "rss"
      BY <1>2, <2>3, LazyAllocationSteps
    <3>2. seen' = Append(seen, Cardinality(Counted))
      BY <1>1, <1>2, <3>1, RssPrints DEF Mallocers
    <3>3. Dry
      BY <1>2, <2>3, LazyAllocationSteps DEF LazyAllocationKnows
    <3>4. Cardinality(Counted) = 0
      BY <3>3, DryCounts DEF Dry
    <3>9. \E x \in Promised[program][2] : seen' = Append(seen, x)
      BY <3>2, <3>4, PromisedIs DEF PromisesAre
    <3>8. Said(program, pc) = 1 /\ Said(program, pc + 1) = 2
      BY <1>2, <2>1, <2>3 DEF Past
    <3> QED BY <3>8, <3>9 DEF Tells
  <2>4. CASE pc = Large + 5
    <3>1. Step.op = "rss"
      BY <1>2, <2>4, LazyAllocationSteps
    <3>2. seen' = Append(seen, Cardinality(Counted))
      BY <1>1, <1>2, <3>1, RssPrints DEF Mallocers
    <3>3. Dry
      BY <1>2, <2>4, LazyAllocationSteps DEF LazyAllocationKnows
    <3>4. Cardinality(Counted) = 0
      BY <3>3, DryCounts DEF Dry
    <3>9. \E x \in Promised[program][3] : seen' = Append(seen, x)
      BY <3>2, <3>4, PromisedIs DEF PromisesAre
    <3>8. Said(program, pc) = 2 /\ Said(program, pc + 1) = 3
      BY <1>2, <2>1, <2>4 DEF Past
    <3> QED BY <3>8, <3>9 DEF Tells
  <2>5. CASE pc = 2 * Large + 6
    <3>1. Step.op = "rss"
      BY <1>2, <2>5, LazyAllocationSteps
    <3>2. seen' = Append(seen, Cardinality(Counted))
      BY <1>1, <1>2, <3>1, RssPrints DEF Mallocers
    <3>3. Have("p") = Large /\ \A s \in Pointers : s # "p" => Have(s) = 0
      BY <1>2, <1>3, <1>4, <2>5 DEF From
    <3>4. Cardinality(Counted) \in 0 .. Large
      BY <1>1, <1>2, <1>4, <3>3, HeldCounts DEF Resizers
    <3>9. \E x \in Promised[program][4] : seen' = Append(seen, x)
      BY <3>2, <3>4, PromisedIs DEF PromisesAre
    <3>8. Said(program, pc) = 3 /\ Said(program, pc + 1) = 4
      BY <1>2, <2>1, <2>5 DEF Past
    <3> QED BY <3>8, <3>9 DEF Tells
  <2>6. CASE pc = 2 * Large + 8
    <3>1. Step.op = "rss"
      BY <1>2, <2>6, LazyAllocationSteps
    <3>2. seen' = Append(seen, Cardinality(Counted))
      BY <1>1, <1>2, <3>1, RssPrints DEF Mallocers
    <3>3. Have("p") = Large /\ \A s \in Pointers : s # "p" => Have(s) = 0
      BY <1>2, <1>3, <1>4, <2>6 DEF From
    <3>4. Cardinality(Counted) \in 0 .. Large
      BY <1>1, <1>2, <1>4, <3>3, HeldCounts DEF Resizers
    <3>5. ~ refused => Dry
      BY <1>2, <2>6, LazyAllocationSteps DEF LazyAllocationKnows
    <3>6. ~ refused => Cardinality(Counted) = 0
      BY <3>5, DryCounts DEF Dry
    <3>7. Cardinality(Counted) \in Dropped(0)
      BY <3>4, <3>6 DEF Dropped, Some
    <3>9. \E x \in Promised[program][5] : seen' = Append(seen, x)
      BY <3>2, <3>7, PromisedIs DEF PromisesAre
    <3>8. Said(program, pc) = 4 /\ Said(program, pc + 1) = 5
      BY <1>2, <2>1, <2>6 DEF Past
    <3> QED BY <3>8, <3>9 DEF Tells
  <2>7. CASE pc = 2 * Large + 10
    <3>1. Step.op = "rss"
      BY <1>2, <2>7, LazyAllocationSteps
    <3>2. seen' = Append(seen, Cardinality(Counted))
      BY <1>1, <1>2, <3>1, RssPrints DEF Mallocers
    <3>3. Dry
      <4>1. \A r \in Pointers : Have(r) = 0
        BY <1>2, <1>3, <2>7 DEF From
      <4> QED BY <1>2, <4>1, NothingHeld DEF Resizers
    <3>4. Cardinality(Counted) = 0
      BY <3>3, DryCounts DEF Dry
    <3>9. \E x \in Promised[program][6] : seen' = Append(seen, x)
      BY <3>2, <3>4, PromisedIs DEF PromisesAre
    <3>8. Said(program, pc) = 5 /\ Said(program, pc + 1) = 6
      BY <1>2, <2>1, <2>7 DEF Past
    <3> QED BY <3>8, <3>9 DEF Tells
  <2>8. CASE pc # 1 /\ pc # 4 /\ pc # Large + 5 /\ pc # 2 * Large + 6 /\ pc # 2 * Large + 8
            /\ pc # 2 * Large + 10
    <3>1. seen' = seen
      <4>1. Step.op \notin Outputs
        BY <1>2, <2>8, LazyAllocationSteps DEF Outputs
      <4> QED BY <1>1, <1>2, <4>1, Speaks
    <3>2. Said(program, pc + 1) = Said(program, pc)
      <4>1. /\ Past(1, pc + 1) = Past(1, pc)
            /\ Past(4, pc + 1) = Past(4, pc)
            /\ Past(Large + 5, pc + 1) = Past(Large + 5, pc)
            /\ Past(2 * Large + 6, pc + 1) = Past(2 * Large + 6, pc)
            /\ Past(2 * Large + 8, pc + 1) = Past(2 * Large + 8, pc)
            /\ Past(2 * Large + 10, pc + 1) = Past(2 * Large + 10, pc)
        BY <1>2, <2>8 DEF Past
      <4> QED BY <2>1, <4>1
    <3> QED BY <3>1, <3>2 DEF Tells
  <2> QED BY <2>2, <2>3, <2>4, <2>5, <2>6, <2>7, <2>8
<1> QED BY <1>2, <1>5, <1>6, <1>7 DEF LazyAllocationKnows

(* 05_mmap/06_madvise_dontneed.c *)
LEMMA MadviseDontneedTells ==
  ASSUME ProgramInv, program = "madvise_dontneed", MadviseDontneedKnows, [MCNext]_allVars,
         end' = "running", Rests \/ Goes
  PROVE  MadviseDontneedKnows' /\ (Goes => Tells)
<1>1. program \notin Printers \cup Jumpers \cup Faulters
  BY DEF Printers, Jumpers, Faulters
<1>2. /\ MemoryInv /\ WhereInv /\ PagesInv /\ OwnInv /\ Owns /\ Owns'
      /\ program' = program /\ pc \in Nat /\ (Rests => pc' = pc) /\ (Goes => pc' = pc + 1)
      /\ Large \in Nat /\ Large >= 2
  BY <1>1, TalkFacts, LargeIs
<1>3. \A r \in Pointers : Have(r) = IF r = "p" THEN From(2, Large + 10, Large, pc) ELSE 0
  <2>1. \A k \in Nat, r \in Pointers :
            Holdings["madvise_dontneed"][k][r] = IF r = "p" THEN From(2, Large + 10, Large, k) ELSE 0
    BY DEF Holdings, Only
  <2> QED BY <1>2, <2>1 DEF Have
<1>4. {"p", "q", "r", "a", "b", "heap", "anon"} \subseteq Pointers
  BY PointersAre
<1>5. /\ pc' <= Large + 5 => ~ refused'
      /\ pc' \in 1 .. 4 => Dry'
  <2> SUFFICES ASSUME pc' <= Large + 5 PROVE ~ refused' /\ (pc' \in 1 .. 4 => Dry')
    BY <1>2
  <2>1. ~ (Goes /\ pc = Large + 5) /\ pc <= Large + 5 /\ pc >= 1
    BY <1>2, MadviseDontneedSteps
  <2>2. Goes => Step.op # "dontneed"
    BY <1>2, <2>1, MadviseDontneedSteps
  <2>3. ~ refused
    BY <2>1 DEF MadviseDontneedKnows
  <2>4. ~ refused'
    BY <2>2, <2>3, RefusedStays, Zenon
  <2>5. ASSUME pc' \in 1 .. 4 PROVE Dry'
    <3>1. pc \in 1 .. 4
      BY <1>2, <2>1, <2>5
    <3>2. Goes => pc \in 1 .. 3
      BY <1>2, <2>5, <3>1
    <3>3. Dry
      BY <3>1 DEF MadviseDontneedKnows
    <3>4. Goes => /\ Step.op \notin {"resize", "mlock", "mmap_file", "str", "write"}
                  /\ Step.op = "get" => ~ Step.touched
      BY <1>2, <3>2, MadviseDontneedSteps
    <3> QED BY <1>1, <1>2, <3>3, <3>4, DryStays DEF Dry, DryBut
  <2> QED BY <2>4, <2>5
<1>6. Goes /\ pc = Large + 5 =>
        /\ ptr' = ptr
        /\ (refused' = TRUE /\ page' = page) \/ ~ refused'
        /\ refused' \/ \A b \in Addresses : page'[b] # Unmapped => page'[b].at = "none"
        /\ refused' \/ (ptr["p"] # Nowhere => \A b \in Span(ptr["p"], Large) : page'[b].val = "zero")
  <2> SUFFICES ASSUME Goes, pc = Large + 5
               PROVE  /\ ptr' = ptr
                      /\ (refused' = TRUE /\ page' = page) \/ ~ refused'
                      /\ refused' \/ \A b \in Addresses : page'[b] # Unmapped => page'[b].at = "none"
                      /\ refused' \/ (ptr["p"] # Nowhere =>
                                         \A b \in Span(ptr["p"], Large) : page'[b].val = "zero")
    OBVIOUS
  <2>1. Step.op = "dontneed" /\ Step.p = "p" /\ Step.n = Large
    BY <1>2, MadviseDontneedSteps
  <2>2. Have("p") = Large /\ \A s \in Pointers : s # "p" => Have(s) = 0
    BY <1>2, <1>3, <1>4 DEF From
  <2>3. ptr' = ptr
    <3>1. DontneedStep
      BY <1>1, <1>2, <2>1, Does
    <3> QED BY <3>1, Zenon DEF DontneedStep
  <2>4. ~ refused
    BY <1>2 DEF MadviseDontneedKnows
  <2>5. CASE refused' = TRUE /\ page' = page
    BY <2>3, <2>5
  <2>6. CASE ~ (refused' = TRUE /\ page' = page)
    <3>1. /\ refused' = refused
          /\ \A b \in Addresses : page'[b] # Unmapped => page'[b].at = "none"
          /\ ptr["p"] # Nowhere => \A b \in Span(ptr["p"], Large) :
                 page'[b].at = "none" /\ page'[b].val = "zero"
      BY <1>1, <1>2, <1>4, <2>1, <2>2, <2>6, DropsAll DEF Resizers
    <3>2. ~ refused'
      BY <2>4, <3>1, Zenon
    <3> QED BY <2>3, <3>1, <3>2
  <2> QED BY <2>5, <2>6
<1>7. pc' \in Large + 6 .. Large + 9 => refused' \/ Dry'
  <2> SUFFICES ASSUME pc' \in Large + 6 .. Large + 9, ~ refused' PROVE Dry'
    OBVIOUS
  <2>1. CASE Goes /\ pc = Large + 5
    BY <1>6, <2>1 DEF Dry, DryBut
  <2>2. CASE ~ (Goes /\ pc = Large + 5)
    <3>1. pc \in Large + 6 .. Large + 9
      BY <1>2, <2>2
    <3>2. Goes => Step.op \in {"rss", "read"}
      BY <1>2, <2>2, <3>1, MadviseDontneedSteps
    <3>3. ~ refused
      BY <3>2, RefusedStays, Zenon
    <3>4. Dry
      BY <3>1, <3>3 DEF MadviseDontneedKnows
    <3> QED BY <1>1, <1>2, <3>2, <3>4, DryStays DEF Dry, DryBut
  <2> QED BY <2>1, <2>2
<1>9. \A k \in {0, 1} : pc' \in 5 + k .. Large + 7 + k => Finds("p", k, Found)'
  <2> SUFFICES ASSUME NEW k \in {0, 1}, pc' \in 5 + k .. Large + 7 + k PROVE Finds("p", k, Found)'
    OBVIOUS
  <2>0. Found' = (IF refused' \/ pc' <= Large + 5 THEN "1" ELSE "zero")
    BY DEF Found
  <2>1. CASE Goes /\ pc = 4 + k
    <3>1. Step.op = "write" /\ Step.p = "p" /\ Step.k = k /\ Step.v = "1"
      BY <1>2, <2>1, MadviseDontneedSteps
    <3>2. ptr' = ptr /\ page'[ptr["p"] + k].val = "1"
      BY <1>1, <1>2, <2>1, <3>1, Written
    <3>3. pc' <= Large + 5
      BY <1>2, <2>1
    <3> QED BY <2>0, <3>2, <3>3 DEF Finds
  <2>2. CASE Goes /\ pc = Large + 5
    <3>1. Finds("p", k, "1")
      BY <1>2, <2>2 DEF MadviseDontneedKnows, Found
    <3>2. CASE refused'
      <4>1. ptr' = ptr /\ page' = page
        BY <1>6, <2>2, <3>2
      <4>2. Found' = "1"
        BY <2>0, <3>2, Zenon
      <4> QED BY <3>1, <4>1, <4>2 DEF Finds
    <3>3. CASE ~ refused'
      <4>1. ptr["p"] # Nowhere => ptr["p"] + k \in Span(ptr["p"], Large)
        BY <1>2, <1>4, AddressesAre DEF Span, PagesInv
      <4>2. ~ (pc' <= Large + 5)
        BY <1>2, <2>2
      <4>3. Found' = "zero"
        BY <2>0, <3>3, <4>2, Zenon
      <4>4. ptr["p"] # Nowhere => page'[ptr["p"] + k].val = "zero"
        <5>1. ptr["p"] # Nowhere => \A b \in Span(ptr["p"], Large) : page'[b].val = "zero"
          BY <1>6, <2>2, <3>3, Zenon
        <5> QED BY <4>1, <5>1, Zenon
      <4>5. ptr' = ptr
        BY <1>6, <2>2
      <4> QED BY <4>3, <4>4, <4>5 DEF Finds
    <3> QED BY <3>2, <3>3
  <2>3. CASE ~ (Goes /\ pc = 4 + k) /\ ~ (Goes /\ pc = Large + 5)
    <3>1. pc \in 5 + k .. Large + 7 + k
      BY <1>2, <2>3
    <3>2. PICK v : v = Found
      OBVIOUS
    <3>3. Finds("p", k, v)
      <4>1. CASE k = 0
        BY <1>2, <3>1, <3>2, <4>1 DEF MadviseDontneedKnows
      <4>2. CASE k = 1
        BY <1>2, <3>1, <3>2, <4>2 DEF MadviseDontneedKnows
      <4> QED BY <4>1, <4>2
    <3>4. Have("p") \in Nat /\ k < Have("p") /\ k \in Nat
      BY <1>2, <1>3, <1>4, <3>1 DEF From
    <3>5. Goes => /\ Step.op \in {"get", "mmap_file", "munmap", "free"} => Step.p # "p"
                  /\ Step.op \notin {"resize", "dontneed"}
                  /\ Step.op = "write" => Step.p # "p" \/ Step.k # k
      BY <1>2, <2>3, <3>1, MadviseDontneedSteps
    <3>6. Finds("p", k, v)'
      BY <1>1, <1>2, <1>4, <3>3, <3>4, <3>5, FindsStays
    <3>7. refused' = refused
      BY <3>5, RefusedStays, Zenon
    <3>8. pc' <= Large + 5 <=> pc <= Large + 5
      BY <1>2, <2>3, <3>1
    <3>9. Found' = v
      BY <2>0, <3>2, <3>7, <3>8, Zenon DEF Found
    <3> QED BY <3>6, <3>9 DEF Finds
  <2> QED BY <2>1, <2>2, <2>3
<1>8. Goes => Tells
  <2> SUFFICES ASSUME Goes PROVE Tells
    OBVIOUS
  <2>1. /\ Said(program, pc) = Past(3, pc) + Past(Large + 4, pc) + Past(Large + 6, pc)
               + Past(Large + 7, pc) + Past(Large + 8, pc) + Past(Large + 9, pc)
        /\ Said(program, pc + 1) = Past(3, pc + 1) + Past(Large + 4, pc + 1) + Past(Large + 6, pc + 1)
               + Past(Large + 7, pc + 1) + Past(Large + 8, pc + 1) + Past(Large + 9, pc + 1)
    BY <1>2, SaidIs
  <2>2. CASE pc = 3
    <3>1. Step.op = "rss"
      BY <1>2, <2>2, MadviseDontneedSteps
    <3>2. seen' = Append(seen, Cardinality(Counted))
      BY <1>1, <1>2, <3>1, RssPrints DEF Mallocers
    <3>3. Dry
      BY <1>2, <2>2, MadviseDontneedSteps DEF MadviseDontneedKnows
    <3>4. Cardinality(Counted) = 0
      BY <3>3, DryCounts DEF Dry
    <3>9. \E x \in Promised[program][1] : seen' = Append(seen, x)
      BY <3>2, <3>4, PromisedIs DEF PromisesAre
    <3>8. Said(program, pc) = 0 /\ Said(program, pc + 1) = 1
      BY <1>2, <2>1, <2>2 DEF Past
    <3> QED BY <3>8, <3>9 DEF Tells
  <2>3. CASE pc = Large + 4
    <3>1. Step.op = "rss"
      BY <1>2, <2>3, MadviseDontneedSteps
    <3>2. seen' = Append(seen, Cardinality(Counted))
      BY <1>1, <1>2, <3>1, RssPrints DEF Mallocers
    <3>3. Have("p") = Large /\ \A s \in Pointers : s # "p" => Have(s) = 0
      BY <1>2, <1>3, <1>4, <2>3 DEF From
    <3>4. Cardinality(Counted) \in 0 .. Large
      BY <1>1, <1>2, <1>4, <3>3, HeldCounts DEF Resizers
    <3>9. \E x \in Promised[program][2] : seen' = Append(seen, x)
      BY <3>2, <3>4, PromisedIs DEF PromisesAre
    <3>8. Said(program, pc) = 1 /\ Said(program, pc + 1) = 2
      BY <1>2, <2>1, <2>3 DEF Past
    <3> QED BY <3>8, <3>9 DEF Tells
  <2>4. CASE pc = Large + 6
    <3>1. Step.op = "rss"
      BY <1>2, <2>4, MadviseDontneedSteps
    <3>2. seen' = Append(seen, Cardinality(Counted))
      BY <1>1, <1>2, <3>1, RssPrints DEF Mallocers
    <3>3. Have("p") = Large /\ \A s \in Pointers : s # "p" => Have(s) = 0
      BY <1>2, <1>3, <1>4, <2>4 DEF From
    <3>4. Cardinality(Counted) \in 0 .. Large
      BY <1>1, <1>2, <1>4, <3>3, HeldCounts DEF Resizers
    <3>5. ~ refused => Dry
      BY <1>2, <2>4, MadviseDontneedSteps DEF MadviseDontneedKnows
    <3>6. ~ refused => Cardinality(Counted) = 0
      BY <3>5, DryCounts DEF Dry
    <3>7. Cardinality(Counted) \in Dropped(0)
      BY <3>4, <3>6 DEF Dropped, Some
    <3>9. \E x \in Promised[program][3] : seen' = Append(seen, x)
      BY <3>2, <3>7, PromisedIs DEF PromisesAre
    <3>8. Said(program, pc) = 2 /\ Said(program, pc + 1) = 3
      BY <1>2, <2>1, <2>4 DEF Past
    <3> QED BY <3>8, <3>9 DEF Tells
  <2>5. CASE pc = Large + 7
    <3>0. PICK v : v = Found
      OBVIOUS
    <3>1. Finds("p", 0, v) /\ Step.op \in {"read", "exec"} /\ Step.p = "p" /\ Step.k = 0
      BY <1>2, <2>5, <3>0, MadviseDontneedSteps DEF MadviseDontneedKnows
    <3>2. seen' = Append(seen, v)
      BY <1>1, <1>2, <3>1, ReadPrints
    <3>3. ~ (pc <= Large + 5)
      BY <1>2, <2>5
    <3>4. v \in Blank
      BY <3>0, <3>3, Zenon DEF Found, Blank
    <3>9. \E x \in Promised[program][4] : seen' = Append(seen, x)
      BY <3>2, <3>4, PromisedIs DEF PromisesAre
    <3>8. Said(program, pc) = 3 /\ Said(program, pc + 1) = 4
      BY <1>2, <2>1, <2>5 DEF Past
    <3> QED BY <3>8, <3>9 DEF Tells
  <2>6. CASE pc = Large + 8
    <3>0. PICK v : v = Found
      OBVIOUS
    <3>1. Finds("p", 1, v) /\ Step.op \in {"read", "exec"} /\ Step.p = "p" /\ Step.k = 1
      BY <1>2, <2>6, <3>0, MadviseDontneedSteps DEF MadviseDontneedKnows
    <3>2. seen' = Append(seen, v)
      BY <1>1, <1>2, <3>1, ReadPrints
    <3>3. ~ (pc <= Large + 5)
      BY <1>2, <2>6
    <3>4. v \in Blank
      BY <3>0, <3>3, Zenon DEF Found, Blank
    <3>9. \E x \in Promised[program][5] : seen' = Append(seen, x)
      BY <3>2, <3>4, PromisedIs DEF PromisesAre
    <3>8. Said(program, pc) = 4 /\ Said(program, pc + 1) = 5
      BY <1>2, <2>1, <2>6 DEF Past
    <3> QED BY <3>8, <3>9 DEF Tells
  <2>7. CASE pc = Large + 9
    <3>1. Step.op = "rss"
      BY <1>2, <2>7, MadviseDontneedSteps
    <3>2. seen' = Append(seen, Cardinality(Counted))
      BY <1>1, <1>2, <3>1, RssPrints DEF Mallocers
    <3>3. Have("p") = Large /\ \A s \in Pointers : s # "p" => Have(s) = 0
      BY <1>2, <1>3, <1>4, <2>7 DEF From
    <3>4. Cardinality(Counted) \in 0 .. Large
      BY <1>1, <1>2, <1>4, <3>3, HeldCounts DEF Resizers
    <3>5. ~ refused => Dry
      BY <1>2, <2>7, MadviseDontneedSteps DEF MadviseDontneedKnows
    <3>6. ~ refused => Cardinality(Counted) = 0
      BY <3>5, DryCounts DEF Dry
    <3>7. Cardinality(Counted) \in Dropped(0)
      BY <3>4, <3>6 DEF Dropped, Some
    <3>9. \E x \in Promised[program][6] : seen' = Append(seen, x)
      BY <3>2, <3>7, PromisedIs DEF PromisesAre
    <3>8. Said(program, pc) = 5 /\ Said(program, pc + 1) = 6
      BY <1>2, <2>1, <2>7 DEF Past
    <3> QED BY <3>8, <3>9 DEF Tells
  <2>8. CASE pc # 3 /\ pc # Large + 4 /\ pc # Large + 6 /\ pc # Large + 7 /\ pc # Large + 8 /\ pc # Large + 9
    <3>1. seen' = seen
      <4>1. Step.op \notin Outputs
        BY <1>2, <2>8, MadviseDontneedSteps DEF Outputs
      <4> QED BY <1>1, <1>2, <4>1, Speaks
    <3>2. Said(program, pc + 1) = Said(program, pc)
      <4>1. /\ Past(3, pc + 1) = Past(3, pc)
            /\ Past(Large + 4, pc + 1) = Past(Large + 4, pc)
            /\ Past(Large + 6, pc + 1) = Past(Large + 6, pc)
            /\ Past(Large + 7, pc + 1) = Past(Large + 7, pc)
            /\ Past(Large + 8, pc + 1) = Past(Large + 8, pc)
            /\ Past(Large + 9, pc + 1) = Past(Large + 9, pc)
        BY <1>2, <2>8 DEF Past
      <4> QED BY <2>1, <4>1
    <3> QED BY <3>1, <3>2 DEF Tells
  <2> QED BY <2>2, <2>3, <2>4, <2>5, <2>6, <2>7, <2>8
<1>10. pc' \in 5 .. Large + 7 => Finds("p", 0, Found)'
  BY <1>2, <1>9
<1>11. pc' \in 6 .. Large + 8 => Finds("p", 1, Found)'
  BY <1>2, <1>9
<1> QED BY <1>2, <1>5, <1>7, <1>8, <1>10, <1>11 DEF MadviseDontneedKnows

(* 04_heap_malloc/13_malloc_trim.c *)
LEMMA MallocTrimTells ==
  ASSUME ProgramInv, program = "malloc_trim", MallocTrimKnows, [MCNext]_allVars, end' = "running",
         Rests \/ Goes
  PROVE  MallocTrimKnows' /\ (Goes => Tells)
<1>1. program \notin Printers \cup Jumpers \cup Faulters
  BY DEF Printers, Jumpers, Faulters
<1>2. /\ MemoryInv /\ WhereInv /\ PagesInv /\ OwnInv /\ Owns /\ Owns'
      /\ program' = program /\ pc \in Nat /\ (Rests => pc' = pc) /\ (Goes => pc' = pc + 1)
      /\ Large \in Nat /\ Large >= 2
  BY <1>1, TalkFacts, LargeIs
<1>3. \A r \in Pointers : Have(r) = IF r = "big[0]" THEN From(3, 7, 1, pc)
          ELSE IF r = "big[1]" THEN From(4, 8, 1, pc) ELSE 0
  <2>1. \A k \in Nat, r \in Pointers :
            Holdings["malloc_trim"][k][r] = IF r = "big[0]" THEN From(3, 7, 1, k)
            ELSE IF r = "big[1]" THEN From(4, 8, 1, k) ELSE 0
    BY DEF Holdings
  <2> QED BY <1>2, <2>1 DEF Have
<1>4. {"p", "q", "r", "a", "b", "heap", "anon"} \subseteq Pointers
  BY PointersAre
<1>5. pc' <= 4 => Dry'
  <2> SUFFICES ASSUME pc' <= 4 PROVE Dry'
    OBVIOUS
  <2>1. pc <= 4
    BY <1>2, MallocTrimSteps
  <2>2. Dry
    BY <2>1 DEF MallocTrimKnows
  <2>3. Goes => /\ Step.op \notin {"resize", "mlock", "mmap_file", "str", "write"}
                /\ Step.op = "get" => ~ Step.touched
    BY <1>2, <2>1, MallocTrimSteps
  <2> QED BY <1>1, <1>2, <2>2, <2>3, DryStays DEF Dry, DryBut
<1>7. kept = 0 \/ (pc \in 8 .. 10 /\ kept \in 0 .. 2)
  BY <1>2, MallocTrimSteps DEF ProgramInv, KeptInv
<1>6. Goes => Tells
  <2> SUFFICES ASSUME Goes PROVE Tells
    OBVIOUS
  <2>1. /\ Said(program, pc) = Past(1, pc) + Past(6, pc) + Past(9, pc) + Past(11, pc)
        /\ Said(program, pc + 1) = Past(1, pc + 1) + Past(6, pc + 1) + Past(9, pc + 1) + Past(11, pc + 1)
    BY <1>2, SaidIs
  <2>2. CASE pc = 1
    <3>1. Step.op = "rss"
      BY <1>2, <2>2, MallocTrimSteps
    <3>2. \E k \in 0 .. kept : seen' = Append(seen, Cardinality(Counted) + k)
      BY <1>1, <1>2, <3>1, RssPrints
    <3>0. kept = 0
      BY <2>2, <1>7
    <3>3. Dry
      BY <1>2, <2>2, MallocTrimSteps DEF MallocTrimKnows
    <3>4. Cardinality(Counted) = 0
      BY <3>3, DryCounts DEF Dry
    <3>7. PICK n : n = Cardinality(Counted)
      OBVIOUS
    <3>6. PICK k \in 0 .. kept : seen' = Append(seen, n + k)
      BY <3>2, <3>7
    <3>10. n + k \in {0}
      BY <3>0, <3>4, <3>6, <3>7
    <3>9. \E x \in Promised[program][1] : seen' = Append(seen, x)
      BY <3>6, <3>10, PromisedIs DEF PromisesAre
    <3>8. Said(program, pc) = 0 /\ Said(program, pc + 1) = 1
      BY <1>2, <2>1, <2>2 DEF Past
    <3> QED BY <3>8, <3>9 DEF Tells
  <2>3. CASE pc = 6
    <3>1. Step.op = "rss"
      BY <1>2, <2>3, MallocTrimSteps
    <3>2. \E k \in 0 .. kept : seen' = Append(seen, Cardinality(Counted) + k)
      BY <1>1, <1>2, <3>1, RssPrints
    <3>0. kept = 0
      BY <2>3, <1>7
    <3>3. {"big[0]", "big[1]"} \subseteq Pointers
      BY PointersAre
    <3>4. /\ Have("big[0]") \in 0 .. 1 /\ Have("big[1]") \in 0 .. 1
          /\ \A t \in Pointers : t # "big[0]" /\ t # "big[1]" => Have(t) = 0
      BY <1>2, <1>3, <3>3, <2>3 DEF From
    <3>5. Cardinality(Counted) \in 0 .. 2
      BY <1>1, <1>2, <3>3, <3>4, PairCounts DEF Resizers
    <3>7. PICK n : n = Cardinality(Counted)
      OBVIOUS
    <3>6. PICK k \in 0 .. kept : seen' = Append(seen, n + k)
      BY <3>2, <3>7
    <3>10. n + k \in 0 .. 2
      BY <3>0, <3>5, <3>6, <3>7
    <3>9. \E x \in Promised[program][2] : seen' = Append(seen, x)
      BY <3>6, <3>10, PromisedIs DEF PromisesAre
    <3>8. Said(program, pc) = 1 /\ Said(program, pc + 1) = 2
      BY <1>2, <2>1, <2>3 DEF Past
    <3> QED BY <3>8, <3>9 DEF Tells
  <2>4. CASE pc = 9
    <3>1. Step.op = "rss"
      BY <1>2, <2>4, MallocTrimSteps
    <3>2. \E k \in 0 .. kept : seen' = Append(seen, Cardinality(Counted) + k)
      BY <1>1, <1>2, <3>1, RssPrints
    <3>0. kept \in 0 .. 2
      BY <2>4, <1>7
    <3>3. \A r \in Pointers : Have(r) = 0
      BY <1>2, <1>3, <2>4 DEF From
    <3>4. Dry
      BY <1>2, <3>3, NothingHeld DEF Resizers
    <3>5. Cardinality(Counted) = 0
      BY <3>4, DryCounts DEF Dry
    <3>7. PICK n : n = Cardinality(Counted)
      OBVIOUS
    <3>6. PICK k \in 0 .. kept : seen' = Append(seen, n + k)
      BY <3>2, <3>7
    <3>10. n + k \in 0 .. 2
      BY <3>0, <3>5, <3>6, <3>7
    <3>9. \E x \in Promised[program][3] : seen' = Append(seen, x)
      BY <3>6, <3>10, PromisedIs DEF PromisesAre
    <3>8. Said(program, pc) = 2 /\ Said(program, pc + 1) = 3
      BY <1>2, <2>1, <2>4 DEF Past
    <3> QED BY <3>8, <3>9 DEF Tells
  <2>5. CASE pc = 11
    <3>1. Step.op = "rss"
      BY <1>2, <2>5, MallocTrimSteps
    <3>2. \E k \in 0 .. kept : seen' = Append(seen, Cardinality(Counted) + k)
      BY <1>1, <1>2, <3>1, RssPrints
    <3>0. kept = 0
      BY <2>5, <1>7
    <3>3. \A r \in Pointers : Have(r) = 0
      BY <1>2, <1>3, <2>5 DEF From
    <3>4. Dry
      BY <1>2, <3>3, NothingHeld DEF Resizers
    <3>5. Cardinality(Counted) = 0
      BY <3>4, DryCounts DEF Dry
    <3>7. PICK n : n = Cardinality(Counted)
      OBVIOUS
    <3>6. PICK k \in 0 .. kept : seen' = Append(seen, n + k)
      BY <3>2, <3>7
    <3>10. n + k \in {0}
      BY <3>0, <3>5, <3>6, <3>7
    <3>9. \E x \in Promised[program][4] : seen' = Append(seen, x)
      BY <3>6, <3>10, PromisedIs DEF PromisesAre
    <3>8. Said(program, pc) = 3 /\ Said(program, pc + 1) = 4
      BY <1>2, <2>1, <2>5 DEF Past
    <3> QED BY <3>8, <3>9 DEF Tells
  <2>6. CASE pc # 1 /\ pc # 6 /\ pc # 9 /\ pc # 11
    <3>1. seen' = seen
      <4>1. Step.op \notin Outputs
        BY <1>2, <2>6, MallocTrimSteps DEF Outputs
      <4> QED BY <1>1, <1>2, <4>1, Speaks
    <3>2. Said(program, pc + 1) = Said(program, pc)
      <4>1. /\ Past(1, pc + 1) = Past(1, pc)
            /\ Past(6, pc + 1) = Past(6, pc)
            /\ Past(9, pc + 1) = Past(9, pc)
            /\ Past(11, pc + 1) = Past(11, pc)
        BY <1>2, <2>6 DEF Past
      <4> QED BY <2>1, <4>1
    <3> QED BY <3>1, <3>2 DEF Tells
  <2> QED BY <2>2, <2>3, <2>4, <2>5, <2>6
<1> QED BY <1>2, <1>5, <1>6 DEF MallocTrimKnows

(* 05_mmap/01_anon_mmap.c *)
LEMMA AnonMmapTells ==
  ASSUME ProgramInv, program = "anon_mmap", AnonMmapKnows, [MCNext]_allVars, end' = "running", Rests \/ Goes
  PROVE  AnonMmapKnows' /\ (Goes => Tells)
<1>1. program \notin Printers \cup Jumpers \cup Faulters
  BY DEF Printers, Jumpers, Faulters
<1>2. /\ MemoryInv /\ WhereInv /\ PagesInv /\ OwnInv /\ Owns /\ Owns'
      /\ program' = program /\ pc \in Nat /\ (Rests => pc' = pc) /\ (Goes => pc' = pc + 1)
      /\ Large \in Nat /\ Large >= 2
  BY <1>1, TalkFacts, LargeIs
<1>3. \A r \in Pointers : Have(r) = IF r = "p" THEN From(2, 7, Large, pc) ELSE 0
  <2>1. \A k \in Nat, r \in Pointers :
            Holdings["anon_mmap"][k][r] = IF r = "p" THEN From(2, 7, Large, k) ELSE 0
    BY DEF Holdings, Only
  <2> QED BY <1>2, <2>1 DEF Have
<1>4. {"p", "q", "r", "a", "b", "heap", "anon"} \subseteq Pointers
  BY PointersAre
<1>5. pc' \in 2 .. 3 => Finds("p", 0, "zero")'
  <2> SUFFICES ASSUME pc' \in 2 .. 3 PROVE Finds("p", 0, "zero")'
    OBVIOUS
  <2>1. CASE Goes /\ pc = 1
    <3>1. Step.op = "get" /\ Step.p = "p" /\ Step.n = Large /\ Step.val = "zero"
      BY <1>2, <2>1, AnonMmapSteps
    <3>2. 0 \in 0 .. Step.n - 1
      BY <1>2, <3>1
    <3>3. ptr'["p"] # Nowhere => page'[ptr'["p"] + 0].val = "zero"
      BY <1>1, <1>2, <2>1, <3>1, <3>2, Fresh
    <3> QED BY <3>3 DEF Finds
  <2>2. CASE ~ (Goes /\ pc = 1)
    <3>1. pc \in 2 .. 3
      BY <1>2, <2>2
    <3>2. Finds("p", 0, "zero")
      BY <3>1 DEF AnonMmapKnows
    <3>3. Have("p") \in Nat /\ 0 < Have("p") /\ 0 \in Nat
      BY <1>2, <1>3, <1>4, <3>1 DEF From
    <3>4. Goes => /\ Step.op \in {"get", "mmap_file", "munmap", "free"} => Step.p # "p"
                  /\ Step.op \notin {"resize", "dontneed"}
                  /\ Step.op = "write" => Step.p # "p" \/ Step.k # 0
      BY <1>2, <2>2, <3>1, AnonMmapSteps
    <3> QED BY <1>1, <1>2, <1>4, <3>2, <3>3, <3>4, FindsStays
  <2> QED BY <2>1, <2>2
<1>6. pc' \in 2 .. 4 => Finds("p", Large - 1, "zero")'
  <2> SUFFICES ASSUME pc' \in 2 .. 4 PROVE Finds("p", Large - 1, "zero")'
    OBVIOUS
  <2>1. CASE Goes /\ pc = 1
    <3>1. Step.op = "get" /\ Step.p = "p" /\ Step.n = Large /\ Step.val = "zero"
      BY <1>2, <2>1, AnonMmapSteps
    <3>2. Large - 1 \in 0 .. Step.n - 1
      BY <1>2, <3>1
    <3>3. ptr'["p"] # Nowhere => page'[ptr'["p"] + Large - 1].val = "zero"
      BY <1>1, <1>2, <2>1, <3>1, <3>2, Fresh
    <3> QED BY <3>3 DEF Finds
  <2>2. CASE ~ (Goes /\ pc = 1)
    <3>1. pc \in 2 .. 4
      BY <1>2, <2>2
    <3>2. Finds("p", Large - 1, "zero")
      BY <3>1 DEF AnonMmapKnows
    <3>3. Have("p") \in Nat /\ Large - 1 < Have("p") /\ Large - 1 \in Nat
      BY <1>2, <1>3, <1>4, <3>1 DEF From
    <3>4. Goes => /\ Step.op \in {"get", "mmap_file", "munmap", "free"} => Step.p # "p"
                  /\ Step.op \notin {"resize", "dontneed"}
                  /\ Step.op = "write" => Step.p # "p" \/ Step.k # Large - 1
      BY <1>2, <2>2, <3>1, AnonMmapSteps
    <3> QED BY <1>1, <1>2, <1>4, <3>2, <3>3, <3>4, FindsStays
  <2> QED BY <2>1, <2>2
<1>7. pc' = 6 => Finds("p", 0, Greeting)'
  <2> SUFFICES ASSUME pc' = 6 PROVE Finds("p", 0, Greeting)'
    OBVIOUS
  <2>1. CASE Goes /\ pc = 5
    <3>1. Step.op = "write" /\ Step.p = "p" /\ Step.k = 0 /\ Step.v = Greeting
      BY <1>2, <2>1, AnonMmapSteps
    <3>2. ptr' = ptr /\ page'[ptr["p"] + 0].val = Greeting
      BY <1>1, <1>2, <2>1, <3>1, Written
    <3> QED BY <3>2 DEF Finds
  <2>2. CASE ~ (Goes /\ pc = 5)
    <3>1. pc = 6
      BY <1>2, <2>2
    <3>2. Finds("p", 0, Greeting)
      BY <3>1 DEF AnonMmapKnows
    <3>3. Have("p") \in Nat /\ 0 < Have("p") /\ 0 \in Nat
      BY <1>2, <1>3, <1>4, <3>1 DEF From
    <3>4. Goes => /\ Step.op \in {"get", "mmap_file", "munmap", "free"} => Step.p # "p"
                  /\ Step.op \notin {"resize", "dontneed"}
                  /\ Step.op = "write" => Step.p # "p" \/ Step.k # 0
      BY <1>2, <2>2, <3>1, AnonMmapSteps
    <3> QED BY <1>1, <1>2, <1>4, <3>2, <3>3, <3>4, FindsStays
  <2> QED BY <2>1, <2>2
<1>8. Goes => Tells
  <2> SUFFICES ASSUME Goes PROVE Tells
    OBVIOUS
  <2>1. /\ Said(program, pc) = Past(3, pc) + Past(4, pc) + Past(6, pc)
        /\ Said(program, pc + 1) = Past(3, pc + 1) + Past(4, pc + 1) + Past(6, pc + 1)
    BY <1>2, SaidIs
  <2>2. CASE pc = 3
    <3>1. Finds("p", 0, "zero") /\ Step.op \in {"read", "exec"} /\ Step.p = "p" /\ Step.k = 0
      BY <1>2, <2>2, AnonMmapSteps DEF AnonMmapKnows
    <3>2. seen' = Append(seen, "zero")
      BY <1>1, <1>2, <3>1, ReadPrints
    <3>9. \E x \in Promised[program][1] : seen' = Append(seen, x)
      BY <3>2, PromisedIs DEF PromisesAre
    <3>8. Said(program, pc) = 0 /\ Said(program, pc + 1) = 1
      BY <1>2, <2>1, <2>2 DEF Past
    <3> QED BY <3>8, <3>9 DEF Tells
  <2>3. CASE pc = 4
    <3>1. Finds("p", Large - 1, "zero") /\ Step.op \in {"read", "exec"} /\ Step.p = "p" /\ Step.k = Large - 1
      BY <1>2, <2>3, AnonMmapSteps DEF AnonMmapKnows
    <3>2. seen' = Append(seen, "zero")
      BY <1>1, <1>2, <3>1, ReadPrints
    <3>9. \E x \in Promised[program][2] : seen' = Append(seen, x)
      BY <3>2, PromisedIs DEF PromisesAre
    <3>8. Said(program, pc) = 1 /\ Said(program, pc + 1) = 2
      BY <1>2, <2>1, <2>3 DEF Past
    <3> QED BY <3>8, <3>9 DEF Tells
  <2>4. CASE pc = 6
    <3>1. Finds("p", 0, Greeting) /\ Step.op \in {"read", "exec"} /\ Step.p = "p" /\ Step.k = 0
      BY <1>2, <2>4, AnonMmapSteps DEF AnonMmapKnows
    <3>2. seen' = Append(seen, Greeting)
      BY <1>1, <1>2, <3>1, ReadPrints
    <3>9. \E x \in Promised[program][3] : seen' = Append(seen, x)
      BY <3>2, PromisedIs DEF PromisesAre
    <3>8. Said(program, pc) = 2 /\ Said(program, pc + 1) = 3
      BY <1>2, <2>1, <2>4 DEF Past
    <3> QED BY <3>8, <3>9 DEF Tells
  <2>5. CASE pc # 3 /\ pc # 4 /\ pc # 6
    <3>1. seen' = seen
      <4>1. Step.op \notin Outputs
        BY <1>2, <2>5, AnonMmapSteps DEF Outputs
      <4> QED BY <1>1, <1>2, <4>1, Speaks
    <3>2. Said(program, pc + 1) = Said(program, pc)
      <4>1. /\ Past(3, pc + 1) = Past(3, pc)
            /\ Past(4, pc + 1) = Past(4, pc)
            /\ Past(6, pc + 1) = Past(6, pc)
        BY <1>2, <2>5 DEF Past
      <4> QED BY <2>1, <4>1
    <3> QED BY <3>1, <3>2 DEF Tells
  <2> QED BY <2>2, <2>3, <2>4, <2>5
<1> QED BY <1>2, <1>5, <1>6, <1>7, <1>8 DEF AnonMmapKnows

(* 07_paging_swapping/05_overcommit.c *)
LEMMA OvercommitTells ==
  ASSUME ProgramInv, program = "overcommit", OvercommitKnows, [MCNext]_allVars, end' = "running",
         Rests \/ Goes
  PROVE  OvercommitKnows' /\ (Goes => Tells)
<1>1. program \notin Printers \cup Jumpers \cup Faulters
  BY DEF Printers, Jumpers, Faulters
<1>2. /\ MemoryInv /\ WhereInv /\ PagesInv /\ OwnInv /\ Owns /\ Owns'
      /\ program' = program /\ pc \in Nat /\ (Rests => pc' = pc) /\ (Goes => pc' = pc + 1)
      /\ Large \in Nat /\ Large >= 2
  BY <1>1, TalkFacts, LargeIs
<1>3. \A r \in Pointers : Have(r) = IF r = "p" THEN From(2, 6, Large, pc) ELSE 0
  <2>1. \A k \in Nat, r \in Pointers :
            Holdings["overcommit"][k][r] = IF r = "p" THEN From(2, 6, Large, k) ELSE 0
    BY DEF Holdings, Only
  <2> QED BY <1>2, <2>1 DEF Have
<1>4. {"p", "q", "r", "a", "b", "heap", "anon"} \subseteq Pointers
  BY PointersAre
<1>5. pc' <= 4 => Dry'
  <2> SUFFICES ASSUME pc' <= 4 PROVE Dry'
    OBVIOUS
  <2>1. pc <= 4
    BY <1>2, OvercommitSteps
  <2>2. Dry
    BY <2>1 DEF OvercommitKnows
  <2>3. Goes => /\ Step.op \notin {"resize", "mlock", "mmap_file", "str", "write"}
                /\ Step.op = "get" => ~ Step.touched
    BY <1>2, <2>1, OvercommitSteps
  <2> QED BY <1>1, <1>2, <2>2, <2>3, DryStays DEF Dry, DryBut
<1>6. pc' = 5 => ptr'["p"] # Nowhere
  <2> SUFFICES ASSUME pc' = 5 PROVE ptr'["p"] # Nowhere
    OBVIOUS
  <2>1. CASE Goes /\ pc = 4
    <3>1. Step.op = "write" /\ Step.p = "p"
      BY <1>2, <2>1, OvercommitSteps
    <3> QED BY <1>1, <1>2, <2>1, <3>1, Written
  <2>2. CASE Rests /\ pc = 5
    BY <2>2 DEF Rests, OvercommitKnows
  <2> QED BY <1>2, <2>1, <2>2
<1>7. DryBut(ptr["p"])'
  <2>1. CASE Goes /\ pc = 1
    <3>1. Dry'
      BY <1>5, <2>1, <1>2
    <3> QED BY <3>1, AddressesAre DEF Dry, DryBut
  <2>2. CASE ~ (Goes /\ pc = 1)
    <3>1. Goes => /\ Step.op \notin {"resize", "mlock", "mmap_file", "str", "get"}
                  /\ Step.op = "write" => Step.p = "p" /\ Step.k = 0
      BY <1>2, <2>2, OvercommitSteps
    <3>2. ptr'["p"] = ptr["p"]
      BY <1>1, <1>2, <1>4, <3>1, PointerStays
    <3>3. DryBut(ptr["p"])
      BY DEF OvercommitKnows
    <3>4. ptr["p"] \in Int
      BY <1>2, <1>4, AddressesAre DEF PagesInv, Nowhere
    <3>5. Goes /\ Step.op = "write" => Address = ptr["p"]
      BY <3>1, <3>4 DEF Address
    <3>6. \A b \in Addresses : page'[b] # Unmapped /\ b # ptr["p"] => page'[b].at \in {"none", "zero"}
      BY <1>1, <1>2, <3>1, <3>3, <3>5, DryStays
    <3> QED BY <3>2, <3>6 DEF DryBut
  <2> QED BY <2>1, <2>2
<1>8. Goes => Tells
  <2> SUFFICES ASSUME Goes PROVE Tells
    OBVIOUS
  <2>1. /\ Said(program, pc) = Past(3, pc) + Past(5, pc)
        /\ Said(program, pc + 1) = Past(3, pc + 1) + Past(5, pc + 1)
    BY <1>2, SaidIs
  <2>2. CASE pc = 3
    <3>1. Step.op = "rss"
      BY <1>2, <2>2, OvercommitSteps
    <3>2. seen' = Append(seen, Cardinality(Counted))
      BY <1>1, <1>2, <3>1, RssPrints DEF Mallocers
    <3>3. Dry
      BY <1>2, <2>2, OvercommitSteps DEF OvercommitKnows
    <3>4. Cardinality(Counted) = 0
      BY <3>3, DryCounts DEF Dry
    <3>9. \E x \in Promised[program][1] : seen' = Append(seen, x)
      BY <3>2, <3>4, PromisedIs DEF PromisesAre
    <3>8. Said(program, pc) = 0 /\ Said(program, pc + 1) = 1
      BY <1>2, <2>1, <2>2 DEF Past
    <3> QED BY <3>8, <3>9 DEF Tells
  <2>3. CASE pc = 5
    <3>1. Step.op = "rss"
      BY <1>2, <2>3, OvercommitSteps
    <3>2. seen' = Append(seen, Cardinality(Counted))
      BY <1>1, <1>2, <3>1, RssPrints DEF Mallocers
    <3>3. Cardinality(Counted) \in 0 .. 1
      BY DryCounts DEF OvercommitKnows
    <3>9. \E x \in Promised[program][2] : seen' = Append(seen, x)
      BY <3>2, <3>3, PromisedIs DEF PromisesAre
    <3>8. Said(program, pc) = 1 /\ Said(program, pc + 1) = 2
      BY <1>2, <2>1, <2>3 DEF Past
    <3> QED BY <3>8, <3>9 DEF Tells
  <2>4. CASE pc # 3 /\ pc # 5
    <3>1. seen' = seen
      <4>1. Step.op \notin Outputs
        BY <1>2, <2>4, OvercommitSteps DEF Outputs
      <4> QED BY <1>1, <1>2, <4>1, Speaks
    <3>2. Said(program, pc + 1) = Said(program, pc)
      <4>1. /\ Past(3, pc + 1) = Past(3, pc)
            /\ Past(5, pc + 1) = Past(5, pc)
        BY <1>2, <2>4 DEF Past
      <4> QED BY <2>1, <4>1
    <3> QED BY <3>1, <3>2 DEF Tells
  <2> QED BY <2>2, <2>3, <2>4
<1> QED BY <1>2, <1>5, <1>6, <1>7, <1>8 DEF OvercommitKnows
-----------------------------------------------------------------------------
(* The first access to a page that is not used is a page fault. *)
LEMMA UnusedFaults ==
  ASSUME MemoryInv, OwnInv, [MCNext]_allVars, program \notin Printers \cup Jumpers \cup Faulters,
         program \notin {"file_mmap", "file_share_write"}, Goes,
         Step.op \in {"read", "touch", "exec", "write"}, NEW r, r = Step.p, NEW k, k = Step.k,
         k \in 0 .. Large - 1, Unused(r, k)
  PROVE  faults' = faults + 1
<1>1. ptr[r] # Nowhere
  BY Accessed
<1>2. page[ptr[r] + k].at = "none"
  BY <1>1, LargeIs DEF Unused
<1> QED BY <1>2, FaultsCounted

(* None of the pages that mmap() or malloc() has just given is used. *)
LEMMA FreshUnused ==
  ASSUME MemoryInv, OwnInv, [MCNext]_allVars, program \notin Printers \cup Jumpers, Goes,
         Step.op = "get", NEW r, r = Step.p, Step.n = Large, ~ Step.touched
  PROVE  ptr'[r] # Nowhere => \A i \in 0 .. Large - 1 : page'[ptr'[r] + i].at = "none"
BY Fresh

(* 01_virtual_memory/03_count_page_faults.c *)
LEMMA CountPageFaultsTells ==
  ASSUME ProgramInv, program = "count_page_faults", CountPageFaultsKnows, [MCNext]_allVars,
         end' = "running", Rests \/ Goes
  PROVE  CountPageFaultsKnows' /\ (Goes => Tells)
<1>1. program \notin Printers \cup Jumpers \cup Faulters
  BY DEF Printers, Jumpers, Faulters
<1>2. /\ MemoryInv /\ WhereInv /\ PagesInv /\ OwnInv /\ Owns /\ Owns'
      /\ program' = program /\ pc \in Nat /\ (Rests => pc' = pc) /\ (Goes => pc' = pc + 1)
      /\ Large \in Nat /\ Large >= 2
  BY <1>1, TalkFacts, LargeIs
<1>3. \A r \in Pointers : Have(r) = IF r = "p" THEN From(2, 3 * Large + 8, Large, pc) ELSE 0
  <2>1. \A k \in Nat, r \in Pointers :
            Holdings["count_page_faults"][k][r] = IF r = "p" THEN From(2, 3 * Large + 8, Large, k) ELSE 0
    BY DEF Holdings, Only
  <2> QED BY <1>2, <2>1 DEF Have
<1>4. {"p", "q", "r", "a", "b", "heap", "anon"} \subseteq Pointers
  BY PointersAre
<1>5. pc' <= 4 => faults' = 0
  <2> SUFFICES ASSUME pc' <= 4 PROVE faults' = 0
    OBVIOUS
  <2>1. faults = 0
    BY <1>2 DEF CountPageFaultsKnows
  <2>2. Goes => Step.op \notin {"read", "touch", "str", "exec", "write"}
    BY <1>2, CountPageFaultsSteps
  <2> QED BY <1>1, <1>2, <2>1, <2>2, FaultsCounted
<1>6. pc' \in 2 .. 4 => Unused("p", 0)'
  <2> SUFFICES ASSUME pc' \in 2 .. 4 PROVE Unused("p", 0)'
    OBVIOUS
  <2>1. CASE Goes /\ pc = 1
    <3>1. Step.op = "get" /\ Step.p = "p" /\ Step.n = Large /\ ~ Step.touched
      BY <1>2, <2>1, CountPageFaultsSteps
    <3>2. ptr'["p"] # Nowhere => \A i \in 0 .. Large - 1 : page'[ptr'["p"] + i].at = "none"
      BY <1>1, <1>2, <2>1, <3>1, FreshUnused
    <3> QED BY <3>2 DEF Unused
  <2>2. CASE ~ (Goes /\ pc = 1)
    <3>1. pc \in 2 .. 4 /\ Unused("p", 0)
      BY <1>2, <2>2 DEF CountPageFaultsKnows
    <3>2. Have("p") = Large
      BY <1>2, <1>3, <1>4, <3>1 DEF From
    <3>3. Goes => Step.op \in {"check", "rusage"}
      BY <1>2, <2>2, <3>1, CountPageFaultsSteps
    <3> QED BY <1>1, <1>2, <1>4, <3>1, <3>2, <3>3, UnusedStays
  <2> QED BY <2>1, <2>2
<1>7. pc' \in 4 .. Large + 4 => faults' = pc' - 4 /\ Unused("p", pc - 4)'
  <2> SUFFICES ASSUME pc' \in 4 .. Large + 4
               PROVE  faults' = pc' - 4 /\ Unused("p", pc - 4)'
    OBVIOUS
  <2>2. CASE Goes /\ pc = 3
    <3>1. pc' = 4
      BY <1>2, <2>2
    <3> QED BY <3>1, <1>5, <1>6 DEF Unused
  <2>3. CASE ~ (Goes /\ pc = 3)
    <3>1. pc \in 4 .. Large + 4
      BY <1>2, <2>3
    <3>2. PICK m \in Nat : m = pc - 4
      BY <1>2, <3>1
    <3>3. faults = m /\ Unused("p", m)
      BY <3>1, <3>2 DEF CountPageFaultsKnows, Unused
    <3>4. Have("p") = Large
      BY <1>2, <1>3, <1>4, <3>1 DEF From
    <3>5. Goes => Step.op = "write" /\ Step.p = "p" /\ Step.k = m /\ m \in 0 .. Large - 1
      BY <1>2, <2>3, <3>1, <3>2, CountPageFaultsSteps
    <3>6. CASE Rests
      <4>1. faults' = m
        BY <1>1, <1>2, <3>3, <3>6, FaultsCounted
      <4>2. ~ Goes
        BY <1>2, <3>6
      <4>3. Unused("p", m)'
        <5>1. m <= m
          BY <3>2
        <5> QED BY <1>1, <1>2, <1>4, <3>3, <3>4, <3>6, <4>2, <5>1, UnusedStays
      <4>4. pc' - 4 = m
        BY <1>2, <3>2, <3>6
      <4> QED BY <4>1, <4>3, <4>4 DEF Unused
    <3>7. CASE Goes
      <4>1. faults' = m + 1
        BY <1>1, <1>2, <3>3, <3>5, <3>7, UnusedFaults
      <4>2. Unused("p", m + 1)'
        <5>1. m <= m + 1 /\ m + 1 \in Nat /\ Step.k < m + 1
          BY <3>5, <3>7
        <5> QED BY <1>1, <1>2, <1>4, <3>3, <3>4, <3>5, <3>7, <5>1, UnusedStays
      <4>3. pc' - 4 = m + 1
        BY <1>2, <3>2, <3>7
      <4> QED BY <4>1, <4>2, <4>3 DEF Unused
    <3> QED BY <3>6, <3>7
  <2> QED BY <2>2, <2>3
<1>8. pc' \in Large + 5 .. 2 * Large + 5 => faults' \in 0 .. pc' - Large - 5
  <2> SUFFICES ASSUME pc' \in Large + 5 .. 2 * Large + 5 PROVE faults' \in 0 .. pc' - Large - 5
    OBVIOUS
  <2>1. CASE Goes /\ pc = Large + 4
    <3>1. Step.op = "rusage" /\ ~ Step.total
      BY <1>2, <2>1, CountPageFaultsSteps
    <3>2. faults' = 0
      BY <1>1, <1>2, <2>1, <3>1, FaultsCounted
    <3> QED BY <1>2, <2>1, <3>2 DEF CountPageFaultsKnows
  <2>2. CASE ~ (Goes /\ pc = Large + 4)
    <3>1. pc \in Large + 5 .. 2 * Large + 5
      BY <1>2, <2>2
    <3>2. faults \in 0 .. pc - Large - 5
      BY <3>1 DEF CountPageFaultsKnows
    <3>3. Rests => faults' = faults
      BY <1>1, <1>2, FaultsCounted
    <3>4. Goes => faults' \in {faults, faults + 1}
      <4>1. Goes => Step.op \in {"touch"}
        BY <1>2, <2>2, <3>1, CountPageFaultsSteps
      <4> QED BY <1>1, <1>2, <4>1, FaultsCounted
    <3> QED BY <1>2, <3>1, <3>2, <3>3, <3>4
  <2> QED BY <2>1, <2>2
<1>9. pc' = 2 * Large + 6 => faults' = 0
  <2> SUFFICES ASSUME pc' = 2 * Large + 6 PROVE faults' = 0
    OBVIOUS
  <2>1. CASE Goes
    <3>1. Step.op = "rusage" /\ ~ Step.total
      BY <1>2, <2>1, CountPageFaultsSteps
    <3> QED BY <1>1, <1>2, <2>1, <3>1, FaultsCounted
  <2>2. CASE Rests
    <3>1. faults = 0
      BY <1>2, <2>2 DEF CountPageFaultsKnows
    <3> QED BY <1>1, <1>2, <2>2, <3>1, FaultsCounted
  <2> QED BY <2>1, <2>2
<1>10. pc' \in 2 * Large + 7 .. 3 * Large + 7 =>
         IF refused' THEN faults' \in 0 .. pc' - 2 * Large - 7
         ELSE faults' = pc' - 2 * Large - 7 /\ Unused("p", pc - 2 * Large - 7)'
  <2> SUFFICES ASSUME pc' \in 2 * Large + 7 .. 3 * Large + 7
               PROVE  IF refused' THEN faults' \in 0 .. pc' - 2 * Large - 7
                      ELSE faults' = pc' - 2 * Large - 7 /\ Unused("p", pc - 2 * Large - 7)'
    OBVIOUS
  <2>2. CASE Goes /\ pc = 2 * Large + 6
    <3>1. Step.op = "dontneed" /\ Step.p = "p" /\ Step.n = Large
      BY <1>2, <2>2, CountPageFaultsSteps
    <3>2. Have("p") = Large /\ \A s \in Pointers : s # "p" => Have(s) = 0
      BY <1>2, <1>3, <1>4, <2>2 DEF From
    <3>3. ~ refused' =>
            /\ ptr' = ptr
            /\ ptr["p"] # Nowhere => \A b \in Span(ptr["p"], Large) : page'[b].at = "none"
      BY <1>1, <1>2, <1>4, <2>2, <3>1, <3>2, DropsAll DEF Resizers
    <3>4. ptr["p"] # Nowhere => \A i \in 0 .. Large - 1 : ptr["p"] + i \in Span(ptr["p"], Large)
      BY <1>2, <1>4, AddressesAre DEF Span, PagesInv
    <3>5. faults' = 0
      <4>1. faults = 0
        BY <1>2, <2>2 DEF CountPageFaultsKnows
      <4> QED BY <1>1, <1>2, <2>2, <3>1, <4>1, FaultsCounted
    <3>6. pc' - 2 * Large - 7 = 0
      BY <1>2, <2>2
    <3>7. faults' \in 0 .. pc' - 2 * Large - 7
      BY <3>5, <3>6
    <3>8. ~ refused' => Unused("p", pc - 2 * Large - 7)'
      BY <3>3, <3>4, <3>6 DEF Unused
    <3>9. faults' = pc' - 2 * Large - 7
      BY <3>5, <3>6
    <3> QED BY <3>7, <3>8, <3>9, Zenon
  <2>3. CASE ~ (Goes /\ pc = 2 * Large + 6)
    <3>1. pc \in 2 * Large + 7 .. 3 * Large + 7
      BY <1>2, <2>3
    <3>2. refused' = refused
      <4>1. Goes => Step.op # "dontneed"
        BY <1>2, <2>3, <3>1, CountPageFaultsSteps
      <4> QED BY <4>1, RefusedStays, Zenon
    <3>3. CASE ~ refused
      <4>2. PICK m \in Nat : m = pc - 2 * Large - 7
        BY <1>2, <3>1
      <4>3. faults = m /\ Unused("p", m)
        BY <3>1, <3>3, <4>2 DEF CountPageFaultsKnows, Unused
      <4>4. Have("p") = Large
        BY <1>2, <1>3, <1>4, <3>1 DEF From
      <4>5. Goes => Step.op = "touch" /\ Step.p = "p" /\ Step.k = m /\ m \in 0 .. Large - 1
        BY <1>2, <2>3, <3>1, <4>2, CountPageFaultsSteps
      <4>6. ASSUME Rests
            PROVE  faults' = pc' - 2 * Large - 7 /\ Unused("p", pc - 2 * Large - 7)'
        <5>1. faults' = m
          BY <1>1, <1>2, <4>3, <4>6, FaultsCounted
        <5>2. ~ Goes
          BY <1>2, <4>6
        <5>3. Unused("p", m)'
          <6>1. m <= m
            BY <4>2
          <6> QED BY <1>1, <1>2, <1>4, <4>3, <4>4, <4>6, <5>2, <6>1, UnusedStays
        <5>4. pc' - 2 * Large - 7 = m
          BY <1>2, <4>2, <4>6
        <5> QED BY <5>1, <5>3, <5>4 DEF Unused
      <4>7. ASSUME Goes
            PROVE  faults' = pc' - 2 * Large - 7 /\ Unused("p", pc - 2 * Large - 7)'
        <5>1. faults' = m + 1
          BY <1>1, <1>2, <4>3, <4>5, <4>7, UnusedFaults
        <5>2. Unused("p", m + 1)'
          <6>1. m <= m + 1 /\ m + 1 \in Nat /\ Step.k < m + 1
            BY <4>5, <4>7
          <6> QED BY <1>1, <1>2, <1>4, <4>3, <4>4, <4>5, <4>7, <6>1, UnusedStays
        <5>3. pc' - 2 * Large - 7 = m + 1
          BY <1>2, <4>2, <4>7
        <5> QED BY <5>1, <5>2, <5>3 DEF Unused
      <4>8. faults' = pc' - 2 * Large - 7 /\ Unused("p", pc - 2 * Large - 7)'
        BY <4>6, <4>7
      <4> QED BY <3>2, <3>3, <4>8, Zenon
    <3>4. CASE refused
      <4>1. faults \in 0 .. pc - 2 * Large - 7
        BY <3>1, <3>4 DEF CountPageFaultsKnows
      <4>2. Rests => faults' = faults
        BY <1>1, <1>2, FaultsCounted
      <4>3. Goes => faults' \in {faults, faults + 1}
        <5>1. Goes => Step.op \in {"touch"}
          BY <1>2, <2>3, <3>1, CountPageFaultsSteps
        <5> QED BY <1>1, <1>2, <5>1, FaultsCounted
      <4>4. faults' \in 0 .. pc' - 2 * Large - 7
        BY <1>2, <3>1, <4>1, <4>2, <4>3
      <4> QED BY <3>2, <3>4, <4>4, Zenon
    <3> QED BY <3>3, <3>4
  <2> QED BY <2>2, <2>3
<1>11. Goes => Tells
  <2> SUFFICES ASSUME Goes PROVE Tells
    OBVIOUS
  <2>1. /\ Said(program, pc) = Past(3, pc) + Past(Large + 4, pc) + Past(2 * Large + 5, pc)
               + Past(3 * Large + 7, pc)
        /\ Said(program, pc + 1) = Past(3, pc + 1) + Past(Large + 4, pc + 1) + Past(2 * Large + 5, pc + 1)
               + Past(3 * Large + 7, pc + 1)
    BY <1>2, SaidIs
  <2>2. CASE pc = 3
    <3>1. Step.op = "rusage"
      BY <1>2, <2>2, CountPageFaultsSteps
    <3>2. seen' = Append(seen, faults)
      BY <1>1, <1>2, <3>1, Speaks
    <3>3. faults \in {0}
      BY <1>2, <2>2 DEF CountPageFaultsKnows
    <3>9. \E x \in Promised[program][1] : seen' = Append(seen, x)
      BY <1>2, <3>2, <3>3, PromisedIs DEF PromisesAre
    <3>8. Said(program, pc) = 0 /\ Said(program, pc + 1) = 1
      BY <1>2, <2>1, <2>2 DEF Past
    <3> QED BY <3>8, <3>9 DEF Tells
  <2>3. CASE pc = Large + 4
    <3>1. Step.op = "rusage"
      BY <1>2, <2>3, CountPageFaultsSteps
    <3>2. seen' = Append(seen, faults)
      BY <1>1, <1>2, <3>1, Speaks
    <3>3. faults \in {Large}
      BY <1>2, <2>3 DEF CountPageFaultsKnows
    <3>9. \E x \in Promised[program][2] : seen' = Append(seen, x)
      BY <1>2, <3>2, <3>3, PromisedIs DEF PromisesAre
    <3>8. Said(program, pc) = 1 /\ Said(program, pc + 1) = 2
      BY <1>2, <2>1, <2>3 DEF Past
    <3> QED BY <3>8, <3>9 DEF Tells
  <2>4. CASE pc = 2 * Large + 5
    <3>1. Step.op = "rusage"
      BY <1>2, <2>4, CountPageFaultsSteps
    <3>2. seen' = Append(seen, faults)
      BY <1>1, <1>2, <3>1, Speaks
    <3>3. faults \in 0 .. Large
      BY <1>2, <2>4 DEF CountPageFaultsKnows
    <3>9. \E x \in Promised[program][3] : seen' = Append(seen, x)
      BY <1>2, <3>2, <3>3, PromisedIs DEF PromisesAre
    <3>8. Said(program, pc) = 2 /\ Said(program, pc + 1) = 3
      BY <1>2, <2>1, <2>4 DEF Past
    <3> QED BY <3>8, <3>9 DEF Tells
  <2>5. CASE pc = 3 * Large + 7
    <3>1. Step.op = "rusage"
      BY <1>2, <2>5, CountPageFaultsSteps
    <3>2. seen' = Append(seen, faults)
      BY <1>1, <1>2, <3>1, Speaks
    <3>3. faults \in Dropped(Large)
      <4>1. CASE refused
        <5>1. faults \in 0 .. Large
          BY <1>2, <2>5, <4>1 DEF CountPageFaultsKnows
        <5> QED BY <4>1, <5>1, Zenon DEF Dropped, Some
      <4>2. CASE ~ refused
        <5>1. faults = Large
          BY <1>2, <2>5, <4>2 DEF CountPageFaultsKnows
        <5> QED BY <4>2, <5>1, Zenon DEF Dropped
      <4> QED BY <4>1, <4>2
    <3>9. \E x \in Promised[program][4] : seen' = Append(seen, x)
      BY <1>2, <3>2, <3>3, PromisedIs DEF PromisesAre
    <3>8. Said(program, pc) = 3 /\ Said(program, pc + 1) = 4
      BY <1>2, <2>1, <2>5 DEF Past
    <3> QED BY <3>8, <3>9 DEF Tells
  <2>6. CASE pc # 3 /\ pc # Large + 4 /\ pc # 2 * Large + 5 /\ pc # 3 * Large + 7
    <3>1. seen' = seen
      <4>1. Step.op \notin Outputs
        BY <1>2, <2>6, CountPageFaultsSteps DEF Outputs
      <4> QED BY <1>1, <1>2, <4>1, Speaks
    <3>2. Said(program, pc + 1) = Said(program, pc)
      <4>1. /\ Past(3, pc + 1) = Past(3, pc)
            /\ Past(Large + 4, pc + 1) = Past(Large + 4, pc)
            /\ Past(2 * Large + 5, pc + 1) = Past(2 * Large + 5, pc)
            /\ Past(3 * Large + 7, pc + 1) = Past(3 * Large + 7, pc)
        BY <1>2, <2>6 DEF Past
      <4> QED BY <2>1, <4>1
    <3> QED BY <3>1, <3>2 DEF Tells
  <2> QED BY <2>2, <2>3, <2>4, <2>5, <2>6
<1> QED BY <1>2, <1>5, <1>6, <1>7, <1>8, <1>9, <1>10, <1>11 DEF CountPageFaultsKnows

(* 12_debugging_tools/04_getrusage_demo.c *)
LEMMA GetrusageDemoTells ==
  ASSUME ProgramInv, program = "getrusage_demo", GetrusageDemoKnows, [MCNext]_allVars, end' = "running",
         Rests \/ Goes
  PROVE  GetrusageDemoKnows' /\ (Goes => Tells)
<1>1. program \notin Printers \cup Jumpers \cup Faulters
  BY DEF Printers, Jumpers, Faulters
<1>2. /\ MemoryInv /\ WhereInv /\ PagesInv /\ OwnInv /\ Owns /\ Owns'
      /\ program' = program /\ pc \in Nat /\ (Rests => pc' = pc) /\ (Goes => pc' = pc + 1)
      /\ Large \in Nat /\ Large >= 2
  BY <1>1, TalkFacts, LargeIs
<1>3. \A r \in Pointers : Have(r) = IF r = "p" THEN From(3, 2 * Large + 5, Large, pc) ELSE 0
  <2>1. \A k \in Nat, r \in Pointers :
            Holdings["getrusage_demo"][k][r] = IF r = "p" THEN From(3, 2 * Large + 5, Large, k) ELSE 0
    BY DEF Holdings, Only
  <2> QED BY <1>2, <2>1 DEF Have
<1>4. {"p", "q", "r", "a", "b", "heap", "anon"} \subseteq Pointers
  BY PointersAre
<1>5. pc' <= 2 => faults' = 0
  <2> SUFFICES ASSUME pc' <= 2 PROVE faults' = 0
    OBVIOUS
  <2>1. faults = 0
    BY <1>2 DEF GetrusageDemoKnows
  <2>2. Goes => Step.op \notin {"read", "touch", "str", "exec", "write"}
    BY <1>2, GetrusageDemoSteps
  <2> QED BY <1>1, <1>2, <2>1, <2>2, FaultsCounted
<1>6. pc' \in 3 .. Large + 3 => faults' = pc' - 3 /\ Unused("p", pc - 3)'
  <2> SUFFICES ASSUME pc' \in 3 .. Large + 3
               PROVE  faults' = pc' - 3 /\ Unused("p", pc - 3)'
    OBVIOUS
  <2>2. CASE Goes /\ pc = 2
    <3>1. Step.op = "get" /\ Step.p = "p" /\ Step.n = Large /\ ~ Step.touched
      BY <1>2, <2>2, GetrusageDemoSteps
    <3>2. ptr'["p"] # Nowhere => \A i \in 0 .. Large - 1 : page'[ptr'["p"] + i].at = "none"
      BY <1>1, <1>2, <2>2, <3>1, FreshUnused
    <3>3. faults' = 0
      <4>1. faults = 0
        BY <1>2, <2>2 DEF GetrusageDemoKnows
      <4> QED BY <1>1, <1>2, <2>2, <3>1, <4>1, FaultsCounted
    <3>4. pc' - 3 = 0
      BY <1>2, <2>2
    <3> QED BY <3>2, <3>3, <3>4 DEF Unused
  <2>3. CASE ~ (Goes /\ pc = 2)
    <3>1. pc \in 3 .. Large + 3
      BY <1>2, <2>3
    <3>2. PICK m \in Nat : m = pc - 3
      BY <1>2, <3>1
    <3>3. faults = m /\ Unused("p", m)
      BY <3>1, <3>2 DEF GetrusageDemoKnows, Unused
    <3>4. Have("p") = Large
      BY <1>2, <1>3, <1>4, <3>1 DEF From
    <3>5. Goes => Step.op = "write" /\ Step.p = "p" /\ Step.k = m /\ m \in 0 .. Large - 1
      BY <1>2, <2>3, <3>1, <3>2, GetrusageDemoSteps
    <3>6. CASE Rests
      <4>1. faults' = m
        BY <1>1, <1>2, <3>3, <3>6, FaultsCounted
      <4>2. ~ Goes
        BY <1>2, <3>6
      <4>3. Unused("p", m)'
        <5>1. m <= m
          BY <3>2
        <5> QED BY <1>1, <1>2, <1>4, <3>3, <3>4, <3>6, <4>2, <5>1, UnusedStays
      <4>4. pc' - 3 = m
        BY <1>2, <3>2, <3>6
      <4> QED BY <4>1, <4>3, <4>4 DEF Unused
    <3>7. CASE Goes
      <4>1. faults' = m + 1
        BY <1>1, <1>2, <3>3, <3>5, <3>7, UnusedFaults
      <4>2. Unused("p", m + 1)'
        <5>1. m <= m + 1 /\ m + 1 \in Nat /\ Step.k < m + 1
          BY <3>5, <3>7
        <5> QED BY <1>1, <1>2, <1>4, <3>3, <3>4, <3>5, <3>7, <5>1, UnusedStays
      <4>3. pc' - 3 = m + 1
        BY <1>2, <3>2, <3>7
      <4> QED BY <4>1, <4>2, <4>3 DEF Unused
    <3> QED BY <3>6, <3>7
  <2> QED BY <2>2, <2>3
<1>7. pc' \in Large + 4 .. 2 * Large + 4 => faults' \in Large .. pc' - 4
  <2> SUFFICES ASSUME pc' \in Large + 4 .. 2 * Large + 4 PROVE faults' \in Large .. pc' - 4
    OBVIOUS
  <2>1. CASE Goes /\ pc = Large + 3
    <3>1. Step.op = "rusage" /\ Step.total
      BY <1>2, <2>1, GetrusageDemoSteps
    <3>2. faults' = faults
      BY <1>1, <1>2, <2>1, <3>1, FaultsCounted
    <3> QED BY <1>2, <2>1, <3>2 DEF GetrusageDemoKnows
  <2>2. CASE ~ (Goes /\ pc = Large + 3)
    <3>1. pc \in Large + 4 .. 2 * Large + 4
      BY <1>2, <2>2
    <3>2. faults \in Large .. pc - 4
      BY <3>1 DEF GetrusageDemoKnows
    <3>3. Rests => faults' = faults
      BY <1>1, <1>2, FaultsCounted
    <3>4. Goes => faults' \in {faults, faults + 1}
      <4>1. Goes => Step.op \in {"touch"}
        BY <1>2, <2>2, <3>1, GetrusageDemoSteps
      <4> QED BY <1>1, <1>2, <4>1, FaultsCounted
    <3> QED BY <1>2, <3>1, <3>2, <3>3, <3>4
  <2> QED BY <2>1, <2>2
<1>8. pc' \in 2 * Large + 5 .. 2 * Large + 7 => faults' \in Large .. 2 * Large
  <2> SUFFICES ASSUME pc' \in 2 * Large + 5 .. 2 * Large + 7 PROVE faults' \in Large .. 2 * Large
    OBVIOUS
  <2>1. faults \in Large .. 2 * Large
    BY <1>2 DEF GetrusageDemoKnows
  <2>2. Goes => Step.op = "free" \/ (Step.op = "rusage" /\ Step.total)
    BY <1>2, GetrusageDemoSteps
  <2> QED BY <1>1, <1>2, <2>1, <2>2, FaultsCounted
<1>9. Goes => Tells
  <2> SUFFICES ASSUME Goes PROVE Tells
    OBVIOUS
  <2>1. /\ Said(program, pc) = Past(1, pc) + Past(Large + 3, pc) + Past(2 * Large + 4, pc)
               + Past(2 * Large + 6, pc)
        /\ Said(program, pc + 1) = Past(1, pc + 1) + Past(Large + 3, pc + 1) + Past(2 * Large + 4, pc + 1)
               + Past(2 * Large + 6, pc + 1)
    BY <1>2, SaidIs
  <2>2. CASE pc = 1
    <3>1. Step.op = "rusage"
      BY <1>2, <2>2, GetrusageDemoSteps
    <3>2. seen' = Append(seen, faults)
      BY <1>1, <1>2, <3>1, Speaks
    <3>3. faults \in {0}
      BY <1>2, <2>2 DEF GetrusageDemoKnows
    <3>9. \E x \in Promised[program][1] : seen' = Append(seen, x)
      BY <1>2, <3>2, <3>3, PromisedIs DEF PromisesAre
    <3>8. Said(program, pc) = 0 /\ Said(program, pc + 1) = 1
      BY <1>2, <2>1, <2>2 DEF Past
    <3> QED BY <3>8, <3>9 DEF Tells
  <2>3. CASE pc = Large + 3
    <3>1. Step.op = "rusage"
      BY <1>2, <2>3, GetrusageDemoSteps
    <3>2. seen' = Append(seen, faults)
      BY <1>1, <1>2, <3>1, Speaks
    <3>3. faults \in {Large}
      BY <1>2, <2>3 DEF GetrusageDemoKnows
    <3>9. \E x \in Promised[program][2] : seen' = Append(seen, x)
      BY <1>2, <3>2, <3>3, PromisedIs DEF PromisesAre
    <3>8. Said(program, pc) = 1 /\ Said(program, pc + 1) = 2
      BY <1>2, <2>1, <2>3 DEF Past
    <3> QED BY <3>8, <3>9 DEF Tells
  <2>4. CASE pc = 2 * Large + 4
    <3>1. Step.op = "rusage"
      BY <1>2, <2>4, GetrusageDemoSteps
    <3>2. seen' = Append(seen, faults)
      BY <1>1, <1>2, <3>1, Speaks
    <3>3. faults \in Large .. 2 * Large
      BY <1>2, <2>4 DEF GetrusageDemoKnows
    <3>9. \E x \in Promised[program][3] : seen' = Append(seen, x)
      BY <1>2, <3>2, <3>3, PromisedIs DEF PromisesAre
    <3>8. Said(program, pc) = 2 /\ Said(program, pc + 1) = 3
      BY <1>2, <2>1, <2>4 DEF Past
    <3> QED BY <3>8, <3>9 DEF Tells
  <2>5. CASE pc = 2 * Large + 6
    <3>1. Step.op = "rusage"
      BY <1>2, <2>5, GetrusageDemoSteps
    <3>2. seen' = Append(seen, faults)
      BY <1>1, <1>2, <3>1, Speaks
    <3>3. faults \in Large .. 2 * Large
      BY <1>2, <2>5 DEF GetrusageDemoKnows
    <3>9. \E x \in Promised[program][4] : seen' = Append(seen, x)
      BY <1>2, <3>2, <3>3, PromisedIs DEF PromisesAre
    <3>8. Said(program, pc) = 3 /\ Said(program, pc + 1) = 4
      BY <1>2, <2>1, <2>5 DEF Past
    <3> QED BY <3>8, <3>9 DEF Tells
  <2>6. CASE pc # 1 /\ pc # Large + 3 /\ pc # 2 * Large + 4 /\ pc # 2 * Large + 6
    <3>1. seen' = seen
      <4>1. Step.op \notin Outputs
        BY <1>2, <2>6, GetrusageDemoSteps DEF Outputs
      <4> QED BY <1>1, <1>2, <4>1, Speaks
    <3>2. Said(program, pc + 1) = Said(program, pc)
      <4>1. /\ Past(1, pc + 1) = Past(1, pc)
            /\ Past(Large + 3, pc + 1) = Past(Large + 3, pc)
            /\ Past(2 * Large + 4, pc + 1) = Past(2 * Large + 4, pc)
            /\ Past(2 * Large + 6, pc + 1) = Past(2 * Large + 6, pc)
        BY <1>2, <2>6 DEF Past
      <4> QED BY <2>1, <4>1
    <3> QED BY <3>1, <3>2 DEF Tells
  <2> QED BY <2>2, <2>3, <2>4, <2>5, <2>6
<1> QED BY <1>2, <1>5, <1>6, <1>7, <1>8, <1>9 DEF GetrusageDemoKnows

(* 07_paging_swapping/02_mlock.c *)
LEMMA MlockTells ==
  ASSUME ProgramInv, program = "mlock", MlockKnows, [MCNext]_allVars, end' = "running", Rests \/ Goes
  PROVE  MlockKnows' /\ (Goes => Tells)
<1>1. program \notin Printers \cup Jumpers \cup Faulters
  BY DEF Printers, Jumpers, Faulters
<1>2. /\ MemoryInv /\ WhereInv /\ PagesInv /\ OwnInv /\ Owns /\ Owns'
      /\ program' = program /\ pc \in Nat /\ (Rests => pc' = pc) /\ (Goes => pc' = pc + 1)
      /\ Large \in Nat /\ Large >= 2
  BY <1>1, TalkFacts, LargeIs
<1>3. \A r \in Pointers : Have(r) = IF r = "p" THEN From(3, Large + 8, Large, pc) ELSE 0
  <2>1. \A k \in Nat, r \in Pointers :
            Holdings["mlock"][k][r] = IF r = "p" THEN From(3, Large + 8, Large, k) ELSE 0
    BY DEF Holdings, Only
  <2> QED BY <1>2, <2>1 DEF Have
<1>4. {"p", "q", "r", "a", "b", "heap", "anon"} \subseteq Pointers
  BY PointersAre
<1>5. pc' <= 3 => Dry'
  <2> SUFFICES ASSUME pc' <= 3 PROVE Dry'
    OBVIOUS
  <2>1. pc <= 3
    BY <1>2, MlockSteps
  <2>2. Dry
    BY <2>1 DEF MlockKnows
  <2>3. Goes => /\ Step.op \notin {"resize", "mlock", "mmap_file", "str", "write"}
                /\ Step.op = "get" => ~ Step.touched
    BY <1>2, <2>1, MlockSteps
  <2> QED BY <1>1, <1>2, <2>2, <2>3, DryStays DEF Dry, DryBut
<1>6. pc' >= 4 => ptr'["p"] # Nowhere
  <2> SUFFICES ASSUME pc' >= 4 PROVE ptr'["p"] # Nowhere
    OBVIOUS
  <2>1. CASE Goes /\ pc = 3
    <3>1. Step.op = "write" /\ Step.p = "p"
      BY <1>2, <2>1, MlockSteps
    <3> QED BY <1>1, <1>2, <2>1, <3>1, Written
  <2>2. CASE ~ (Goes /\ pc = 3)
    <3>1. pc >= 4 /\ ptr["p"] # Nowhere
      BY <1>2, <2>2 DEF MlockKnows
    <3>2. Goes => Step.op \notin {"get", "mmap_file", "resize"}
      BY <1>2, <3>1, MlockSteps
    <3> QED BY <1>1, <1>2, <1>4, <3>1, <3>2, PointerStays
  <2> QED BY <2>1, <2>2
<1>7. pc' \in Large + 5 .. Large + 6 =>
        \A b \in Span(ptr'["p"], Large) : page'[b].at = "frame" /\ page'[b].locked
  <2> SUFFICES ASSUME pc' \in Large + 5 .. Large + 6
               PROVE  \A b \in Span(ptr'["p"], Large) : page'[b].at = "frame" /\ page'[b].locked
    OBVIOUS
  <2>0. /\ pc \in Large + 4 .. Large + 6 /\ ptr["p"] # Nowhere /\ Have("p") = Large
    BY <1>2, <1>3, <1>4 DEF MlockKnows, From
  <2>1. CASE Goes /\ pc = Large + 4
    <3>1. Step.op = "mlock" /\ Step.p = "p" /\ Step.n = Large
      BY <1>2, <2>1, MlockSteps
    <3>2. MlockStep
      BY <1>1, <1>2, <2>1, <3>1, Does
    <3>3. ptr'["p"] = ptr["p"]
      BY <1>1, <1>2, <1>4, <3>1, PointerStays
    <3>4. \A b \in Span(ptr["p"], Large) : b \in Addresses /\ page[b] # Unmapped
      BY <1>2, <1>4, <2>0 DEF Owns, Whole
    <3>5. \A b \in Addresses : b \in Span(ptr["p"], Large) /\ page[b] # Unmapped =>
            page'[b].at = "frame" /\ page'[b].locked
      BY <1>2, <3>1, <3>2, MlockPages
    <3> QED BY <3>3, <3>4, <3>5
  <2>2. CASE ~ (Goes /\ pc = Large + 4)
    <3>1. \A b \in Span(ptr["p"], Large) : page[b].at = "frame" /\ page[b].locked
      BY <1>2, <2>0, <2>2 DEF MlockKnows
    <3>2. Goes => Step.op = "rss"
      BY <1>2, <2>0, <2>2, MlockSteps
    <3>3. ptr'["p"] = ptr["p"] /\ \A b \in Span(ptr["p"], Have("p")) : Turns(b)
      BY <1>1, <1>2, <1>4, <2>0, <3>2, HeldStays
    <3>4. \A b \in Span(ptr["p"], Large) : Turns(b) => page'[b].at = "frame" /\ page'[b].locked
      BY <3>1, <3>2 DEF Turns, Loads
    <3> QED BY <2>0, <3>3, <3>4
  <2> QED BY <2>1, <2>2
<1>8. Goes => Tells
  <2> SUFFICES ASSUME Goes PROVE Tells
    OBVIOUS
  <2>1. /\ Said(program, pc) = Past(1, pc) + Past(Large + 3, pc) + Past(Large + 5, pc) + Past(Large + 7, pc)
        /\ Said(program, pc + 1) = Past(1, pc + 1) + Past(Large + 3, pc + 1) + Past(Large + 5, pc + 1)
               + Past(Large + 7, pc + 1)
    BY <1>2, SaidIs
  <2>2. CASE pc = 1
    <3>1. Step.op = "rss"
      BY <1>2, <2>2, MlockSteps
    <3>2. seen' = Append(seen, Cardinality(Counted))
      BY <1>1, <1>2, <3>1, RssPrints DEF Mallocers
    <3>3. Dry
      BY <1>2, <2>2, MlockSteps DEF MlockKnows
    <3>4. Cardinality(Counted) = 0
      BY <3>3, DryCounts DEF Dry
    <3>9. \E x \in Promised[program][1] : seen' = Append(seen, x)
      BY <3>2, <3>4, PromisedIs DEF PromisesAre
    <3>8. Said(program, pc) = 0 /\ Said(program, pc + 1) = 1
      BY <1>2, <2>1, <2>2 DEF Past
    <3> QED BY <3>8, <3>9 DEF Tells
  <2>3. CASE pc = Large + 3
    <3>1. Step.op = "rss"
      BY <1>2, <2>3, MlockSteps
    <3>2. seen' = Append(seen, Cardinality(Counted))
      BY <1>1, <1>2, <3>1, RssPrints DEF Mallocers
    <3>3. Have("p") = Large /\ \A s \in Pointers : s # "p" => Have(s) = 0
      BY <1>2, <1>3, <1>4, <2>3 DEF From
    <3>4. Cardinality(Counted) \in 0 .. Large
      BY <1>1, <1>2, <1>4, <3>3, HeldCounts DEF Resizers
    <3>9. \E x \in Promised[program][2] : seen' = Append(seen, x)
      BY <3>2, <3>4, PromisedIs DEF PromisesAre
    <3>8. Said(program, pc) = 1 /\ Said(program, pc + 1) = 2
      BY <1>2, <2>1, <2>3 DEF Past
    <3> QED BY <3>8, <3>9 DEF Tells
  <2>4. CASE pc = Large + 5
    <3>1. Step.op = "rss"
      BY <1>2, <2>4, MlockSteps
    <3>2. seen' = Append(seen, Cardinality(Counted))
      BY <1>1, <1>2, <3>1, RssPrints DEF Mallocers
    <3>3. Have("p") = Large /\ \A s \in Pointers : s # "p" => Have(s) = 0
      BY <1>2, <1>3, <1>4, <2>4 DEF From
    <3>4. ptr["p"] # Nowhere /\ \A b \in Span(ptr["p"], Large) : page[b].at = "frame"
      BY <1>2, <2>4 DEF MlockKnows
    <3>5. Cardinality(Counted) = Large
      BY <1>1, <1>2, <1>4, <3>3, <3>4, HeldCounts DEF Resizers, Holds
    <3>9. \E x \in Promised[program][3] : seen' = Append(seen, x)
      BY <3>2, <3>5, PromisedIs DEF PromisesAre
    <3>8. Said(program, pc) = 2 /\ Said(program, pc + 1) = 3
      BY <1>2, <2>1, <2>4 DEF Past
    <3> QED BY <3>8, <3>9 DEF Tells
  <2>5. CASE pc = Large + 7
    <3>1. Step.op = "rss"
      BY <1>2, <2>5, MlockSteps
    <3>2. seen' = Append(seen, Cardinality(Counted))
      BY <1>1, <1>2, <3>1, RssPrints DEF Mallocers
    <3>3. Have("p") = Large /\ \A s \in Pointers : s # "p" => Have(s) = 0
      BY <1>2, <1>3, <1>4, <2>5 DEF From
    <3>4. Cardinality(Counted) \in 0 .. Large
      BY <1>1, <1>2, <1>4, <3>3, HeldCounts DEF Resizers
    <3>9. \E x \in Promised[program][4] : seen' = Append(seen, x)
      BY <3>2, <3>4, PromisedIs DEF PromisesAre
    <3>8. Said(program, pc) = 3 /\ Said(program, pc + 1) = 4
      BY <1>2, <2>1, <2>5 DEF Past
    <3> QED BY <3>8, <3>9 DEF Tells
  <2>6. CASE pc # 1 /\ pc # Large + 3 /\ pc # Large + 5 /\ pc # Large + 7
    <3>1. seen' = seen
      <4>1. Step.op \notin Outputs
        BY <1>2, <2>6, MlockSteps DEF Outputs
      <4> QED BY <1>1, <1>2, <4>1, Speaks
    <3>2. Said(program, pc + 1) = Said(program, pc)
      <4>1. /\ Past(1, pc + 1) = Past(1, pc)
            /\ Past(Large + 3, pc + 1) = Past(Large + 3, pc)
            /\ Past(Large + 5, pc + 1) = Past(Large + 5, pc)
            /\ Past(Large + 7, pc + 1) = Past(Large + 7, pc)
        BY <1>2, <2>6 DEF Past
      <4> QED BY <2>1, <4>1
    <3> QED BY <3>1, <3>2 DEF Tells
  <2> QED BY <2>2, <2>3, <2>4, <2>5, <2>6
<1> QED BY <1>2, <1>5, <1>6, <1>7, <1>8 DEF MlockKnows
-----------------------------------------------------------------------------
(* printf("%s") of what a pointer is to. *)
LEMMA StrPrints ==
  ASSUME MemoryInv, OwnInv, [MCNext]_allVars, program \notin Printers \cup Jumpers \cup Faulters, Goes,
         Step.op = "str", program \notin {"file_mmap", "file_share_write"}
  PROVE  /\ ptr[Step.p] = Nowhere => seen' = Append(seen, NullText)
         /\ \A v : ptr[Step.p] # Nowhere /\ Finds(Step.p, Step.k, v) => seen' = Append(seen, v)
<1>1. seen' = Append(seen, IF ptr[Step.p] = Nowhere THEN "(null)" ELSE Value)
  BY Speaks DEF MemoryInv
<1>2. ptr[Step.p] # Nowhere => Value = page[ptr[Step.p] + Step.k].val
  BY ValueIs
<1>3. ptr[Step.p] = Nowhere => seen' = Append(seen, NullText)
  BY <1>1, Zenon DEF NullText
<1>4. ptr[Step.p] # Nowhere => seen' = Append(seen, Value)
  BY <1>1, Zenon
<1> QED BY <1>2, <1>3, <1>4 DEF Finds

(* 04_heap_malloc/07_calloc_realloc.c *)
LEMMA ReallocTells ==
  ASSUME ProgramInv, program = "calloc_realloc", ReallocKnows, [MCNext]_allVars, end' = "running",
         Rests \/ Goes
  PROVE  ReallocKnows' /\ (Goes => Tells)
<1>1. program \notin Printers \cup Jumpers \cup Faulters
  BY DEF Printers, Jumpers, Faulters
<1>2. /\ MemoryInv /\ WhereInv /\ PagesInv /\ OwnInv /\ Owns /\ Owns'
      /\ program' = program /\ pc \in Nat /\ (Rests => pc' = pc) /\ (Goes => pc' = pc + 1)
      /\ Large \in Nat /\ Large >= 2
  BY <1>1, TalkFacts, LargeIs
<1>3. \A r \in Pointers : Have(r) = IF r = "a" THEN From(2, 3, 1, pc)
      ELSE IF r = "p" THEN From(6, 10, 1, pc) + From(11, 12, Large, pc)
      ELSE IF r = "q" THEN From(14, 14, 1, pc) ELSE 0
  <2>1. \A k \in Nat, r \in Pointers : Holdings["calloc_realloc"][k][r] = IF r = "a" THEN From(2, 3, 1, k)
      ELSE IF r = "p" THEN From(6, 10, 1, k) + From(11, 12, Large, k)
      ELSE IF r = "q" THEN From(14, 14, 1, k) ELSE 0
    BY DEF Holdings
  <2> QED BY <1>2, <2>1 DEF Have
<1>4. {"p", "q", "r", "a", "b", "heap", "anon"} \subseteq Pointers
  BY PointersAre
<1>5. pc' = 2 => Finds("a", 0, "zero")'
  <2> SUFFICES ASSUME pc' = 2 PROVE Finds("a", 0, "zero")'
    OBVIOUS
  <2>1. CASE Goes /\ pc = 1
    <3>1. Step.op = "get" /\ Step.p = "a" /\ Step.n = 1 /\ Step.val = "zero"
      BY <1>2, <2>1, ReallocSteps
    <3>2. 0 \in 0 .. Step.n - 1
      BY <1>2, <3>1
    <3>3. ptr'["a"] # Nowhere => page'[ptr'["a"] + 0].val = "zero"
      BY <1>1, <1>2, <2>1, <3>1, <3>2, Fresh
    <3> QED BY <3>3 DEF Finds
  <2>2. CASE ~ (Goes /\ pc = 1)
    <3>1. pc = 2
      BY <1>2, <2>2
    <3>2. Finds("a", 0, "zero")
      BY <3>1 DEF ReallocKnows
    <3>3. Have("a") \in Nat /\ 0 < Have("a") /\ 0 \in Nat
      BY <1>2, <1>3, <1>4, <3>1 DEF From
    <3>4. Goes => /\ Step.op \in {"get", "mmap_file", "munmap", "free"} => Step.p # "a"
                  /\ Step.op \notin {"resize", "dontneed"}
                  /\ Step.op = "write" => Step.p # "a" \/ Step.k # 0
      BY <1>2, <2>2, <3>1, ReallocSteps
    <3> QED BY <1>1, <1>2, <1>4, <3>2, <3>3, <3>4, FindsStays
  <2> QED BY <2>1, <2>2
<1>6. pc' \in 7 .. 8 => ptr'["p"] # Nowhere
  <2> SUFFICES ASSUME pc' \in 7 .. 8 PROVE ptr'["p"] # Nowhere
    OBVIOUS
  <2>1. CASE Goes /\ pc = 6
    <3>1. Step.op = "write" /\ Step.p = "p"
      BY <1>2, <2>1, ReallocSteps
    <3> QED BY <1>1, <1>2, <2>1, <3>1, Written
  <2>2. CASE ~ (Goes /\ pc = 6)
    <3>1. pc \in 7 .. 8 /\ ptr["p"] # Nowhere
      BY <1>2, <2>2 DEF ReallocKnows
    <3>2. Goes => Step.op = "str"
      BY <1>2, <3>1, ReallocSteps
    <3> QED BY <1>1, <1>2, <1>4, <3>1, <3>2, PointerStays
  <2> QED BY <2>1, <2>2
<1>7. pc' \in 7 .. 10 => Finds("p", 0, "1234567")'
  <2> SUFFICES ASSUME pc' \in 7 .. 10 PROVE Finds("p", 0, "1234567")'
    OBVIOUS
  <2>1. CASE Goes /\ pc = 6
    <3>1. Step.op = "write" /\ Step.p = "p" /\ Step.k = 0 /\ Step.v = "1234567"
      BY <1>2, <2>1, ReallocSteps
    <3>2. ptr' = ptr /\ page'[ptr["p"] + 0].val = "1234567"
      BY <1>1, <1>2, <2>1, <3>1, Written
    <3> QED BY <3>2 DEF Finds
  <2>3. CASE Goes /\ pc = 8
    <3>1. /\ Step.op = "resize" /\ Step.p = "p" /\ Step.q = "p"
          /\ Step.n = 1 /\ Step.m = 1 /\ Step.kind = "heap"
      BY <1>2, <2>3, ReallocSteps
    <3>2. 0 < Step.n /\ 0 < Step.m /\ 0 \in Nat
      BY <1>2, <3>1
    <3>3. ptr'["p"] # Nowhere =>
            /\ ptr["p"] # Nowhere => page'[ptr'["p"] + 0].val = page[ptr["p"] + 0].val
            /\ ptr["p"] = Nowhere => page'[ptr'["p"] + 0].val = IF Step.kind = "map" THEN "zero" ELSE "junk"
      BY <1>1, <1>2, <2>3, <3>1, <3>2, Moved
    <3>4. ptr["p"] # Nowhere /\ Finds("p", 0, "1234567")
      BY <1>2, <2>3 DEF ReallocKnows
    <3> QED BY <3>3, <3>4 DEF Finds
  <2>2. CASE ~ (Goes /\ pc \in {6, 8})
    <3>1. pc \in 7 .. 10
      BY <1>2, <2>2
    <3>2. Finds("p", 0, "1234567")
      BY <3>1 DEF ReallocKnows
    <3>3. Have("p") \in Nat /\ 0 < Have("p") /\ 0 \in Nat
      BY <1>2, <1>3, <1>4, <3>1 DEF From
    <3>4. Goes => /\ Step.op \in {"get", "mmap_file", "munmap", "free"} => Step.p # "p"
                  /\ Step.op \notin {"resize", "dontneed"}
                  /\ Step.op = "write" => Step.p # "p" \/ Step.k # 0
      BY <1>2, <2>2, <3>1, ReallocSteps
    <3> QED BY <1>1, <1>2, <1>4, <3>2, <3>3, <3>4, FindsStays
  <2> QED BY <2>1, <2>2, <2>3
<1>8. pc' = 11 => Finds("p", 0, "1234567")' \/ Finds("p", 0, "junk")'
  <2> SUFFICES ASSUME pc' = 11 PROVE Finds("p", 0, "1234567")' \/ Finds("p", 0, "junk")'
    OBVIOUS
  <2>1. CASE Goes /\ pc = 10
    <3>1. /\ Step.op = "resize" /\ Step.p = "p" /\ Step.q = "p"
          /\ Step.n = 1 /\ Step.m = Large /\ Step.kind = "heap"
      BY <1>2, <2>1, ReallocSteps
    <3>2. 0 < Step.n /\ 0 < Step.m /\ 0 \in Nat
      BY <1>2, <3>1
    <3>3. ptr'["p"] # Nowhere =>
            /\ ptr["p"] # Nowhere => page'[ptr'["p"] + 0].val = page[ptr["p"] + 0].val
            /\ ptr["p"] = Nowhere => page'[ptr'["p"] + 0].val = IF Step.kind = "map" THEN "zero" ELSE "junk"
      BY <1>1, <1>2, <2>1, <3>1, <3>2, Moved
    <3>4. Finds("p", 0, "1234567")
      BY <1>2, <2>1 DEF ReallocKnows
    <3> QED BY <3>1, <3>3, <3>4 DEF Finds
  <2>2. CASE ~ (Goes /\ pc = 10)
    <3>1. pc = 11 /\ Rests
      BY <1>2, <2>2
    <3>2. PICK v \in {"1234567", "junk"} : Finds("p", 0, v)
      BY <3>1 DEF ReallocKnows
    <3>3. Have("p") \in Nat /\ 0 < Have("p") /\ 0 \in Nat
      BY <1>2, <1>3, <1>4, <3>1 DEF From
    <3>4. ~ Goes
      BY <1>2, <3>1
    <3>5. Finds("p", 0, v)'
      BY <1>1, <1>2, <1>4, <3>1, <3>2, <3>3, <3>4, FindsStays
    <3>6. v = "1234567" \/ v = "junk"
      BY <3>2
    <3> QED BY <3>5, <3>6 DEF Finds
  <2> QED BY <2>1, <2>2
<1>9. Goes => Tells
  <2> SUFFICES ASSUME Goes PROVE Tells
    OBVIOUS
  <2>1. /\ Said(program, pc) = Past(2, pc) + Past(4, pc) + Past(7, pc) + Past(9, pc) + Past(11, pc)
        /\ Said(program, pc + 1) = Past(2, pc + 1) + Past(4, pc + 1) + Past(7, pc + 1) + Past(9, pc + 1)
               + Past(11, pc + 1)
    BY <1>2, SaidIs
  <2>2. CASE pc = 2
    <3>1. Finds("a", 0, "zero") /\ Step.op \in {"read", "exec"} /\ Step.p = "a" /\ Step.k = 0
      BY <1>2, <2>2, ReallocSteps DEF ReallocKnows
    <3>2. seen' = Append(seen, "zero")
      BY <1>1, <1>2, <3>1, ReadPrints
    <3>9. \E x \in Promised[program][1] : seen' = Append(seen, x)
      BY <3>2, PromisedIs DEF PromisesAre
    <3>8. Said(program, pc) = 0 /\ Said(program, pc + 1) = 1
      BY <1>2, <2>1, <2>2 DEF Past
    <3> QED BY <3>8, <3>9 DEF Tells
  <2>3. CASE pc = 7
    <3>1. Step.op = "str" /\ Step.p = "p" /\ Step.k = 0
      BY <1>2, <2>3, ReallocSteps
    <3>2. /\ ptr["p"] = Nowhere => seen' = Append(seen, NullText)
          /\ \A v : ptr["p"] # Nowhere /\ Finds("p", 0, v) => seen' = Append(seen, v)
      BY <1>1, <1>2, <3>1, StrPrints
    <3>3. ptr["p"] # Nowhere /\ Finds("p", 0, "1234567")
      BY <1>2, <2>3 DEF ReallocKnows
    <3>9. \E x \in Promised[program][3] : seen' = Append(seen, x)
      BY <3>2, <3>3, PromisedIs DEF PromisesAre
    <3>8. Said(program, pc) = 2 /\ Said(program, pc + 1) = 3
      BY <1>2, <2>1, <2>3 DEF Past
    <3> QED BY <3>8, <3>9 DEF Tells
  <2>4. CASE pc = 9
    <3>1. Step.op = "str" /\ Step.p = "p" /\ Step.k = 0
      BY <1>2, <2>4, ReallocSteps
    <3>2. /\ ptr["p"] = Nowhere => seen' = Append(seen, NullText)
          /\ \A v : ptr["p"] # Nowhere /\ Finds("p", 0, v) => seen' = Append(seen, v)
      BY <1>1, <1>2, <3>1, StrPrints
    <3>3. Finds("p", 0, "1234567")
      BY <1>2, <2>4 DEF ReallocKnows
    <3>9. \E x \in Promised[program][4] : seen' = Append(seen, x)
      BY <3>2, <3>3, PromisedIs DEF PromisesAre
    <3>8. Said(program, pc) = 3 /\ Said(program, pc + 1) = 4
      BY <1>2, <2>1, <2>4 DEF Past
    <3> QED BY <3>8, <3>9 DEF Tells
  <2>5. CASE pc = 11
    <3>1. Step.op = "str" /\ Step.p = "p" /\ Step.k = 0
      BY <1>2, <2>5, ReallocSteps
    <3>2. /\ ptr["p"] = Nowhere => seen' = Append(seen, NullText)
          /\ \A v : ptr["p"] # Nowhere /\ Finds("p", 0, v) => seen' = Append(seen, v)
      BY <1>1, <1>2, <3>1, StrPrints
    <3>3. Finds("p", 0, "1234567") \/ Finds("p", 0, "junk")
      BY <1>2, <2>5 DEF ReallocKnows
    <3>9. \E x \in Promised[program][5] : seen' = Append(seen, x)
      BY <3>2, <3>3, PromisedIs DEF PromisesAre
    <3>8. Said(program, pc) = 4 /\ Said(program, pc + 1) = 5
      BY <1>2, <2>1, <2>5 DEF Past
    <3> QED BY <3>8, <3>9 DEF Tells
  <2>7. CASE pc = 4
    <3>1. Step.op = "overflow"
      BY <1>2, <2>7, ReallocSteps
    <3>2. seen' = Append(seen, "(nil)")
      BY <1>1, <1>2, <3>1, Speaks
    <3>9. \E x \in Promised[program][2] : seen' = Append(seen, x)
      BY <3>2, PromisedIs DEF PromisesAre
    <3>8. Said(program, pc) = 1 /\ Said(program, pc + 1) = 2
      BY <1>2, <2>1, <2>7 DEF Past
    <3> QED BY <3>8, <3>9 DEF Tells
  <2>6. CASE pc # 2 /\ pc # 4 /\ pc # 7 /\ pc # 9 /\ pc # 11
    <3>1. seen' = seen
      <4>1. Step.op \notin Outputs
        BY <1>2, <2>6, ReallocSteps DEF Outputs
      <4> QED BY <1>1, <1>2, <4>1, Speaks
    <3>2. Said(program, pc + 1) = Said(program, pc)
      <4>1. /\ Past(2, pc + 1) = Past(2, pc)
            /\ Past(4, pc + 1) = Past(4, pc)
            /\ Past(7, pc + 1) = Past(7, pc)
            /\ Past(9, pc + 1) = Past(9, pc)
            /\ Past(11, pc + 1) = Past(11, pc)
        BY <1>2, <2>6 DEF Past
      <4> QED BY <2>1, <4>1
    <3> QED BY <3>1, <3>2 DEF Tells
  <2> QED BY <2>2, <2>3, <2>4, <2>5, <2>6, <2>7
<1> QED BY <1>2, <1>5, <1>6, <1>7, <1>8, <1>9 DEF ReallocKnows

(* 05_mmap/07_mremap.c *)
LEMMA MremapTells ==
  ASSUME ProgramInv, program = "mremap", MremapKnows, [MCNext]_allVars, end' = "running", Rests \/ Goes
  PROVE  MremapKnows' /\ (Goes => Tells)
<1>1. program \notin Printers \cup Jumpers \cup Faulters
  BY DEF Printers, Jumpers, Faulters
<1>2. /\ MemoryInv /\ WhereInv /\ PagesInv /\ OwnInv /\ Owns /\ Owns'
      /\ program' = program /\ pc \in Nat /\ (Rests => pc' = pc) /\ (Goes => pc' = pc + 1)
      /\ Large \in Nat /\ Large >= 2
  BY <1>1, TalkFacts, LargeIs
<1>3. \A r \in Pointers : Have(r) = IF r = "p" THEN From(2, 5, 2, pc)
          ELSE IF r = "q" THEN From(6, 8, Large, pc)
      ELSE IF r = "r" THEN From(9, 11, 1, pc) ELSE 0
  <2>1. \A k \in Nat, r \in Pointers :
            Holdings["mremap"][k][r] = IF r = "p" THEN From(2, 5, 2, k)
            ELSE IF r = "q" THEN From(6, 8, Large, k)
      ELSE IF r = "r" THEN From(9, 11, 1, k) ELSE 0
    BY DEF Holdings
  <2> QED BY <1>2, <2>1 DEF Have
<1>4. {"p", "q", "r", "a", "b", "heap", "anon"} \subseteq Pointers
  BY PointersAre
<1>5. pc' \in 4 .. 5 => Finds("p", 0, "marker")'
  <2> SUFFICES ASSUME pc' \in 4 .. 5 PROVE Finds("p", 0, "marker")'
    OBVIOUS
  <2>1. CASE Goes /\ pc = 3
    <3>1. Step.op = "write" /\ Step.p = "p" /\ Step.k = 0 /\ Step.v = "marker"
      BY <1>2, <2>1, MremapSteps
    <3>2. ptr' = ptr /\ page'[ptr["p"] + 0].val = "marker"
      BY <1>1, <1>2, <2>1, <3>1, Written
    <3> QED BY <3>2 DEF Finds
  <2>2. CASE ~ (Goes /\ pc = 3)
    <3>1. pc \in 4 .. 5
      BY <1>2, <2>2
    <3>2. Finds("p", 0, "marker")
      BY <3>1 DEF MremapKnows
    <3>3. Have("p") \in Nat /\ 0 < Have("p") /\ 0 \in Nat
      BY <1>2, <1>3, <1>4, <3>1 DEF From
    <3>4. Goes => /\ Step.op \in {"get", "mmap_file", "munmap", "free"} => Step.p # "p"
                  /\ Step.op \notin {"resize", "dontneed"}
                  /\ Step.op = "write" => Step.p # "p" \/ Step.k # 0
      BY <1>2, <2>2, <3>1, MremapSteps
    <3> QED BY <1>1, <1>2, <1>4, <3>2, <3>3, <3>4, FindsStays
  <2> QED BY <2>1, <2>2
<1>6. pc' \in 6 .. 8 => Finds("q", 0, "marker")'
  <2> SUFFICES ASSUME pc' \in 6 .. 8 PROVE Finds("q", 0, "marker")'
    OBVIOUS
  <2>1. CASE Goes /\ pc = 5
    <3>1. /\ Step.op = "resize" /\ Step.p = "p" /\ Step.q = "q"
          /\ Step.n = 2 /\ Step.m = Large /\ Step.kind = "map"
      BY <1>2, <2>1, MremapSteps
    <3>2. 0 < Step.n /\ 0 < Step.m /\ 0 \in Nat
      BY <1>2, <3>1
    <3>3. ptr'["q"] # Nowhere =>
            /\ ptr["p"] # Nowhere => page'[ptr'["q"] + 0].val = page[ptr["p"] + 0].val
            /\ ptr["p"] = Nowhere => page'[ptr'["q"] + 0].val = IF Step.kind = "map" THEN "zero" ELSE "junk"
      BY <1>1, <1>2, <2>1, <3>1, <3>2, Moved
    <3>4. Finds("p", 0, "marker")
      BY <1>2, <2>1 DEF MremapKnows
    <3>5. ~ failed
      <4>1. CarefulInv
        BY DEF ProgramInv
      <4>2. program \in Careful
        BY DEF Careful
      <4>3. Step.op # "check"
        BY <3>1
      <4>4. end = "running"
        BY DEF Rests, Goes
      <4> QED BY <4>1, <4>2, <4>3, <4>4 DEF CarefulInv
    <3>6. Have("p") > 0
      BY <1>2, <1>3, <1>4, <2>1 DEF From
    <3>7. ptr["p"] # Nowhere
      BY <1>2, <1>4, <3>5, <3>6 DEF Owns, Holds
    <3> QED BY <3>3, <3>4, <3>7 DEF Finds
  <2>2. CASE ~ (Goes /\ pc = 5)
    <3>1. pc \in 6 .. 8
      BY <1>2, <2>2
    <3>2. Finds("q", 0, "marker")
      BY <3>1 DEF MremapKnows
    <3>3. Have("q") \in Nat /\ 0 < Have("q") /\ 0 \in Nat
      BY <1>2, <1>3, <1>4, <3>1 DEF From
    <3>4. Goes => /\ Step.op \in {"get", "mmap_file", "munmap", "free"} => Step.p # "q"
                  /\ Step.op \notin {"resize", "dontneed"}
                  /\ Step.op = "write" => Step.p # "q" \/ Step.k # 0
      BY <1>2, <2>2, <3>1, MremapSteps
    <3> QED BY <1>1, <1>2, <1>4, <3>2, <3>3, <3>4, FindsStays
  <2> QED BY <2>1, <2>2
<1>7. pc' \in 9 .. 10 => Finds("r", 0, "marker")'
  <2> SUFFICES ASSUME pc' \in 9 .. 10 PROVE Finds("r", 0, "marker")'
    OBVIOUS
  <2>1. CASE Goes /\ pc = 8
    <3>1. /\ Step.op = "resize" /\ Step.p = "q" /\ Step.q = "r"
          /\ Step.n = Large /\ Step.m = 1 /\ Step.kind = "map"
      BY <1>2, <2>1, MremapSteps
    <3>2. 0 < Step.n /\ 0 < Step.m /\ 0 \in Nat
      BY <1>2, <3>1
    <3>3. ptr'["r"] # Nowhere =>
            /\ ptr["q"] # Nowhere => page'[ptr'["r"] + 0].val = page[ptr["q"] + 0].val
            /\ ptr["q"] = Nowhere => page'[ptr'["r"] + 0].val = IF Step.kind = "map" THEN "zero" ELSE "junk"
      BY <1>1, <1>2, <2>1, <3>1, <3>2, Moved
    <3>4. Finds("q", 0, "marker")
      BY <1>2, <2>1 DEF MremapKnows
    <3>5. ~ failed
      <4>1. CarefulInv
        BY DEF ProgramInv
      <4>2. program \in Careful
        BY DEF Careful
      <4>3. Step.op # "check"
        BY <3>1
      <4>4. end = "running"
        BY DEF Rests, Goes
      <4> QED BY <4>1, <4>2, <4>3, <4>4 DEF CarefulInv
    <3>6. Have("q") > 0
      BY <1>2, <1>3, <1>4, <2>1 DEF From
    <3>7. ptr["q"] # Nowhere
      BY <1>2, <1>4, <3>5, <3>6 DEF Owns, Holds
    <3> QED BY <3>3, <3>4, <3>7 DEF Finds
  <2>2. CASE ~ (Goes /\ pc = 8)
    <3>1. pc \in 9 .. 10
      BY <1>2, <2>2
    <3>2. Finds("r", 0, "marker")
      BY <3>1 DEF MremapKnows
    <3>3. Have("r") \in Nat /\ 0 < Have("r") /\ 0 \in Nat
      BY <1>2, <1>3, <1>4, <3>1 DEF From
    <3>4. Goes => /\ Step.op \in {"get", "mmap_file", "munmap", "free"} => Step.p # "r"
                  /\ Step.op \notin {"resize", "dontneed"}
                  /\ Step.op = "write" => Step.p # "r" \/ Step.k # 0
      BY <1>2, <2>2, <3>1, MremapSteps
    <3> QED BY <1>1, <1>2, <1>4, <3>2, <3>3, <3>4, FindsStays
  <2> QED BY <2>1, <2>2
<1>8. Goes => Tells
  <2> SUFFICES ASSUME Goes PROVE Tells
    OBVIOUS
  <2>1. /\ Said(program, pc) = Past(4, pc) + Past(7, pc) + Past(10, pc)
        /\ Said(program, pc + 1) = Past(4, pc + 1) + Past(7, pc + 1) + Past(10, pc + 1)
    BY <1>2, SaidIs
  <2>2. CASE pc = 4
    <3>1. Finds("p", 0, "marker") /\ Step.op \in {"read", "exec"} /\ Step.p = "p" /\ Step.k = 0
      BY <1>2, <2>2, MremapSteps DEF MremapKnows
    <3>2. seen' = Append(seen, "marker")
      BY <1>1, <1>2, <3>1, ReadPrints
    <3>9. \E x \in Promised[program][1] : seen' = Append(seen, x)
      BY <3>2, PromisedIs DEF PromisesAre
    <3>8. Said(program, pc) = 0 /\ Said(program, pc + 1) = 1
      BY <1>2, <2>1, <2>2 DEF Past
    <3> QED BY <3>8, <3>9 DEF Tells
  <2>3. CASE pc = 7
    <3>1. Finds("q", 0, "marker") /\ Step.op \in {"read", "exec"} /\ Step.p = "q" /\ Step.k = 0
      BY <1>2, <2>3, MremapSteps DEF MremapKnows
    <3>2. seen' = Append(seen, "marker")
      BY <1>1, <1>2, <3>1, ReadPrints
    <3>9. \E x \in Promised[program][2] : seen' = Append(seen, x)
      BY <3>2, PromisedIs DEF PromisesAre
    <3>8. Said(program, pc) = 1 /\ Said(program, pc + 1) = 2
      BY <1>2, <2>1, <2>3 DEF Past
    <3> QED BY <3>8, <3>9 DEF Tells
  <2>4. CASE pc = 10
    <3>1. Finds("r", 0, "marker") /\ Step.op \in {"read", "exec"} /\ Step.p = "r" /\ Step.k = 0
      BY <1>2, <2>4, MremapSteps DEF MremapKnows
    <3>2. seen' = Append(seen, "marker")
      BY <1>1, <1>2, <3>1, ReadPrints
    <3>9. \E x \in Promised[program][3] : seen' = Append(seen, x)
      BY <3>2, PromisedIs DEF PromisesAre
    <3>8. Said(program, pc) = 2 /\ Said(program, pc + 1) = 3
      BY <1>2, <2>1, <2>4 DEF Past
    <3> QED BY <3>8, <3>9 DEF Tells
  <2>5. CASE pc # 4 /\ pc # 7 /\ pc # 10
    <3>1. seen' = seen
      <4>1. Step.op \notin Outputs
        BY <1>2, <2>5, MremapSteps DEF Outputs
      <4> QED BY <1>1, <1>2, <4>1, Speaks
    <3>2. Said(program, pc + 1) = Said(program, pc)
      <4>1. /\ Past(4, pc + 1) = Past(4, pc)
            /\ Past(7, pc + 1) = Past(7, pc)
            /\ Past(10, pc + 1) = Past(10, pc)
        BY <1>2, <2>5 DEF Past
      <4> QED BY <2>1, <4>1
    <3> QED BY <3>1, <3>2 DEF Tells
  <2> QED BY <2>2, <2>3, <2>4, <2>5
<1> QED BY <1>2, <1>5, <1>6, <1>7, <1>8 DEF MremapKnows
-----------------------------------------------------------------------------
(* What comes of the file and of its descriptor. *)
LEMMA FileTurns ==
  ASSUME MemoryInv, OwnInv, [MCNext]_allVars, program \in {"file_mmap", "file_share_write"}, Rests \/ Goes
  PROVE  /\ Rests => file' = file /\ (fd' => fd)
         /\ Goes /\ Step.op \in {"check", "read", "munmap", "read_file"} => file' = file
         /\ Goes /\ Step.op = "check" => ptr[Step.p] # Nowhere
         /\ Goes /\ Step.op = "open" /\ fd' => fd \/ file' = "empty"
         /\ Goes /\ Step.op = "write_file" => (fd' => fd) /\ file' \in {file, Step.v}
         /\ Goes /\ Step.op = "mmap_file" =>
              /\ file' = file
              /\ ptr'[Step.p] # Nowhere => fd /\ file # "empty" /\ page'[ptr'[Step.p]].at = "none"
         /\ Goes /\ Step.op = "write" /\ program = "file_mmap" => file' = file
<1>0. WhereInv /\ PagesInv /\ program \notin Printers \cup Jumpers \cup Faulters
  BY DEF MemoryInv, Printers, Jumpers, Faulters
<1>1. Rests => file' = file /\ (fd' => fd)
  <2>1. Rests => file' = file /\ fd' = fd
    BY DEF Rests
  <2> QED BY <2>1, Zenon
<1>2. Goes /\ Step.op \in {"check", "munmap", "read_file"} => file' = file
  BY <1>0, Does DEF CheckStep, MunmapStep, ReadFileStep, files
<1>3. Goes /\ Step.op = "read" => file' = file
  BY <1>0, Does DEF Load, files
<1>4. Goes /\ Step.op = "check" => ptr[Step.p] # Nowhere
  <2> SUFFICES ASSUME Goes, Step.op = "check" PROVE ptr[Step.p] # Nowhere
    OBVIOUS
  <2>1. CheckStep
    BY <1>0, Does
  <2>2. ~ Leave("error")
    BY DEF Leave, Goes
  <2> QED BY <2>1, <2>2 DEF CheckStep
<1>5. Goes /\ Step.op = "open" /\ fd' => fd \/ file' = "empty"
  <2>1. Goes /\ Step.op = "open" => OpenStep
    BY <1>0, Does
  <2> QED BY <2>1, Zenon DEF OpenStep, files
<1>6. Goes /\ Step.op = "write_file" => (fd' => fd) /\ file' \in {file, Step.v}
  <2>1. Goes /\ Step.op = "write_file" => WriteFileStep
    BY <1>0, Does
  <2>2. WriteFileStep => (fd' => fd)
    BY Zenon DEF WriteFileStep
  <2>3. WriteFileStep => file' = file \/ file' = Step.v
    BY Zenon DEF WriteFileStep
  <2> QED BY <2>1, <2>2, <2>3
<1>7. Goes /\ Step.op = "mmap_file" =>
        /\ file' = file
        /\ ptr'[Step.p] # Nowhere => fd /\ file # "empty" /\ page'[ptr'[Step.p]].at = "none"
  <2> SUFFICES ASSUME Goes, Step.op = "mmap_file"
               PROVE  /\ file' = file
                      /\ ptr'[Step.p] # Nowhere =>
                           fd /\ file # "empty" /\ page'[ptr'[Step.p]].at = "none"
    OBVIOUS
  <2>1. MmapFileStep /\ Step.p \in Pointers
    BY <1>0, Does, FitsNow DEF Fits, Step
  <2>2. file' = file
    BY <2>1 DEF MmapFileStep
  <2>3. CASE Fails(Step.p)
    <3>1. ptr'[Step.p] = Nowhere
      BY <1>0, <2>1, <2>3 DEF Fails, PagesInv
    <3> QED BY <2>2, <3>1
  <2>4. CASE ~ Fails(Step.p)
    <3>1. PICK a \in Room(1) : /\ ptr' = [ptr EXCEPT ![Step.p] = a] /\ fd /\ file # "empty"
                              /\ page'[a].at = "none"
      BY <1>0, <2>1, <2>4, MapFilePages, Zenon
    <3>2. ptr'[Step.p] = a
      BY <1>0, <2>1, <3>1 DEF PagesInv
    <3> QED BY <2>2, <3>1, <3>2
  <2> QED BY <2>3, <2>4
<1>8. Goes /\ Step.op = "write" /\ program = "file_mmap" => file' = file
  <2> SUFFICES ASSUME Goes, Step.op = "write", program = "file_mmap" PROVE file' = file
    OBVIOUS
  <2>1. Store /\ page[Address].kind = "private"
    BY <1>0, Accessed DEF KindOf
  <2> QED BY <2>1 DEF Store
<1> QED BY <1>1, <1>2, <1>3, <1>4, <1>5, <1>6, <1>7, <1>8

(* 05_mmap/02_file_mmap.c *)
LEMMA FileMmapTells ==
  ASSUME ProgramInv, program = "file_mmap", FileMmapKnows, [MCNext]_allVars, end' = "running", Rests \/ Goes
  PROVE  FileMmapKnows' /\ (Goes => Tells)
<1>1. program \notin Printers \cup Jumpers \cup Faulters
  BY DEF Printers, Jumpers, Faulters
<1>2. /\ MemoryInv /\ WhereInv /\ PagesInv /\ OwnInv /\ Owns /\ Owns'
      /\ program' = program /\ pc \in Nat /\ (Rests => pc' = pc) /\ (Goes => pc' = pc + 1)
      /\ Large \in Nat /\ Large >= 2
  BY <1>1, TalkFacts, LargeIs
<1>3. \A r \in Pointers : Have(r) = IF r = "p" THEN From(4, 9, 1, pc) ELSE 0
  <2>1. \A k \in Nat, r \in Pointers : Holdings["file_mmap"][k][r] = IF r = "p" THEN From(4, 9, 1, k) ELSE 0
    BY DEF Holdings, Only
  <2> QED BY <1>2, <2>1 DEF Have
<1>4. {"p", "q", "r", "a", "b", "heap", "anon"} \subseteq Pointers
  BY PointersAre
<1>5. program \in {"file_mmap", "file_share_write"}
  OBVIOUS
<1>6. pc' = 1 => ~ fd'
  <2> SUFFICES ASSUME pc' = 1 PROVE ~ fd'
    OBVIOUS
  <2>1. Rests /\ ~ fd
    BY <1>2, FileMmapSteps DEF FileMmapKnows
  <2> QED BY <1>2, <1>5, <2>1, FileTurns
<1>7. pc' = 2 /\ fd' => file' = "empty"
  <2> SUFFICES ASSUME pc' = 2, fd' PROVE file' = "empty"
    OBVIOUS
  <2>1. CASE Goes
    <3>1. pc = 1 /\ ~ fd /\ Step.op = "open"
      BY <1>2, <2>1, FileMmapSteps DEF FileMmapKnows
    <3> QED BY <1>2, <1>5, <2>1, <3>1, FileTurns
  <2>2. CASE Rests
    <3>1. file' = file /\ fd
      BY <1>2, <1>5, <2>2, FileTurns
    <3> QED BY <1>2, <2>2, <3>1 DEF FileMmapKnows
  <2> QED BY <2>1, <2>2
<1>8. pc' = 3 /\ fd' => file' \in {"empty", "hello"}
  <2> SUFFICES ASSUME pc' = 3, fd' PROVE file' \in {"empty", "hello"}
    OBVIOUS
  <2>1. CASE Goes
    <3>1. pc = 2 /\ Step.op = "write_file" /\ Step.v = "hello"
      BY <1>2, <2>1, FileMmapSteps
    <3>2. fd /\ file' \in {file, "hello"}
      BY <1>2, <1>5, <2>1, <3>1, FileTurns
    <3> QED BY <3>1, <3>2 DEF FileMmapKnows
  <2>2. CASE Rests
    <3>1. file' = file /\ fd
      BY <1>2, <1>5, <2>2, FileTurns
    <3> QED BY <1>2, <2>2, <3>1 DEF FileMmapKnows
  <2> QED BY <2>1, <2>2
<1>9. pc' >= 5 => ptr'["p"] # Nowhere
  <2> SUFFICES ASSUME pc' >= 5 PROVE ptr'["p"] # Nowhere
    OBVIOUS
  <2>1. ptr["p"] # Nowhere
    <3>1. CASE Goes /\ pc = 4
      <4>1. Step.op = "check" /\ Step.p = "p"
        BY <1>2, <3>1, FileMmapSteps
      <4> QED BY <1>2, <1>5, <3>1, <4>1, FileTurns
    <3>2. CASE ~ (Goes /\ pc = 4)
      BY <1>2, <3>2 DEF FileMmapKnows
    <3> QED BY <3>1, <3>2
  <2>2. Goes => Step.op \notin {"get", "mmap_file", "resize"}
    BY <1>2, FileMmapSteps
  <2>3. ptr'["p"] = ptr["p"]
    BY <1>1, <1>2, <1>4, <2>2, PointerStays
  <2> QED BY <2>1, <2>3
<1>10. pc' \in 4 .. 8 /\ ptr'["p"] # Nowhere => file' = "hello"
  <2> SUFFICES ASSUME pc' \in 4 .. 8, ptr'["p"] # Nowhere PROVE file' = "hello"
    OBVIOUS
  <2>1. CASE Goes /\ pc = 3
    <3>1. Step.op = "mmap_file" /\ Step.p = "p"
      BY <1>2, <2>1, FileMmapSteps
    <3>2. file' = file /\ fd /\ file # "empty"
      BY <1>2, <1>5, <2>1, <3>1, FileTurns
    <3> QED BY <2>1, <3>2 DEF FileMmapKnows
  <2>2. CASE ~ (Goes /\ pc = 3)
    <3>1. pc \in 4 .. 8
      BY <1>2, <2>2
    <3>2. Goes => Step.op \in {"check", "read", "write"}
      BY <1>2, <2>2, <3>1, FileMmapSteps
    <3>3. ptr'["p"] = ptr["p"]
      BY <1>1, <1>2, <1>4, <3>2, PointerStays
    <3>4. file' = file
      BY <1>2, <1>5, <3>2, FileTurns
    <3> QED BY <3>1, <3>3, <3>4 DEF FileMmapKnows
  <2> QED BY <2>1, <2>2
<1>11. pc' \in 4 .. 6 /\ ptr'["p"] # Nowhere => page'[ptr'["p"]].at \in {"none", "cache"}
  <2> SUFFICES ASSUME pc' \in 4 .. 6, ptr'["p"] # Nowhere PROVE page'[ptr'["p"]].at \in {"none", "cache"}
    OBVIOUS
  <2>1. CASE Goes /\ pc = 3
    <3>1. Step.op = "mmap_file" /\ Step.p = "p"
      BY <1>2, <2>1, FileMmapSteps
    <3> QED BY <1>2, <1>5, <2>1, <3>1, FileTurns
  <2>2. CASE ~ (Goes /\ pc = 3)
    <3>1. pc \in 4 .. 6
      BY <1>2, <2>2
    <3>2. Goes => Step.op \in {"check", "read"}
      BY <1>2, <2>2, <3>1, FileMmapSteps
    <3>3. ptr'["p"] = ptr["p"]
      BY <1>1, <1>2, <1>4, <3>2, PointerStays
    <3>4. Have("p") = 1 /\ ptr["p"] \in Int
      BY <1>2, <1>3, <1>4, <3>1, AddressesAre DEF From, PagesInv, Nowhere
    <3>5. PICK b : b = ptr["p"]
      OBVIOUS
    <3>6. b \in Span(ptr["p"], Have("p"))
      BY <3>4, <3>5 DEF Span
    <3>7. page[b].kind = "private"
      BY <1>2, <1>4, <3>3, <3>4, <3>6 DEF Owns, Whole, KindOf
    <3>8. Turns(b)
      BY <1>1, <1>2, <1>4, <3>2, <3>3, <3>4, <3>6, HeldStays
    <3>9. page[b].at \in {"none", "cache"}
      BY <3>1, <3>3, <3>5 DEF FileMmapKnows
    <3>10. page'[b].at \in {"none", "cache"}
      BY <3>2, <3>7, <3>8, <3>9 DEF Turns
    <3> QED BY <3>3, <3>5, <3>10
  <2> QED BY <2>1, <2>2
<1>12. pc' \in 7 .. 8 => page'[ptr'["p"]].at \in {"frame", "swap"} /\ page'[ptr'["p"]].val = "Hello"
  <2> SUFFICES ASSUME pc' \in 7 .. 8
               PROVE  page'[ptr'["p"]].at \in {"frame", "swap"} /\ page'[ptr'["p"]].val = "Hello"
    OBVIOUS
  <2>0. ptr["p"] \in Int
    BY <1>2, <1>4, AddressesAre DEF PagesInv, Nowhere
  <2>1. CASE Goes /\ pc = 6
    <3>1. Step.op = "write" /\ Step.p = "p" /\ Step.k = 0 /\ Step.v = "Hello"
      BY <1>2, <2>1, FileMmapSteps
    <3>2. ptr' = ptr /\ page'[ptr["p"] + 0].val = "Hello" /\ page'[ptr["p"] + 0].at = "frame"
      BY <1>1, <1>2, <2>1, <3>1, Written
    <3> QED BY <2>0, <3>2
  <2>2. CASE ~ (Goes /\ pc = 6)
    <3>1. pc \in 7 .. 8
      BY <1>2, <2>2
    <3>2. /\ ptr["p"] # Nowhere /\ page[ptr["p"]].at \in {"frame", "swap"}
          /\ page[ptr["p"]].val = "Hello"
      BY <3>1 DEF FileMmapKnows
    <3>3. Goes => Step.op = "read"
      BY <1>2, <3>1, FileMmapSteps
    <3>4. Have("p") \in Nat /\ 0 < Have("p") /\ 0 \in Nat
      BY <1>2, <1>3, <1>4, <3>1 DEF From
    <3>5. Finds("p", 0, "Hello")
      BY <2>0, <3>2 DEF Finds
    <3>6. Finds("p", 0, "Hello")'
      BY <1>1, <1>2, <1>4, <3>3, <3>4, <3>5, FindsStays
    <3>7. ptr'["p"] = ptr["p"] /\ page'[ptr["p"]].at \in {"frame", "swap"}
      BY <1>1, <1>2, <1>4, <3>2, <3>3, <3>4, WrittenStays
    <3> QED BY <2>0, <3>2, <3>6, <3>7 DEF Finds
  <2> QED BY <2>1, <2>2
<1>13. Goes => Tells
  <2> SUFFICES ASSUME Goes PROVE Tells
    OBVIOUS
  <2>1. /\ Said(program, pc) = Past(5, pc) + Past(7, pc) + Past(8, pc)
        /\ Said(program, pc + 1) = Past(5, pc + 1) + Past(7, pc + 1) + Past(8, pc + 1)
    BY <1>2, SaidIs
  <2>2. CASE pc = 5
    <3>1. Step.op = "read" /\ Step.p = "p" /\ Step.k = 0
      BY <1>2, <2>2, FileMmapSteps
    <3>2. seen' = Append(seen, Value)
      BY <1>1, <1>2, <3>1, Speaks
    <3>3. file = "hello" /\ page[ptr["p"]].at \in {"none", "cache"}
      BY <1>2, <2>2 DEF FileMmapKnows
    <3>4. ptr["p"] \in Int
      BY <1>2, <1>4, AddressesAre DEF PagesInv, Nowhere
    <3>5. Value = "hello"
      BY <1>1, <1>2, <3>1, <3>3, <3>4, ValueIs
    <3>9. \E x \in Promised[program][1] : seen' = Append(seen, x)
      BY <3>2, <3>5, PromisedIs DEF PromisesAre
    <3>8. Said(program, pc) = 0 /\ Said(program, pc + 1) = 1
      BY <1>2, <2>1, <2>2 DEF Past
    <3> QED BY <3>8, <3>9 DEF Tells
  <2>3. CASE pc = 7
    <3>1. Step.op = "read" /\ Step.p = "p" /\ Step.k = 0
      BY <1>2, <2>3, FileMmapSteps
    <3>2. seen' = Append(seen, Value)
      BY <1>1, <1>2, <3>1, Speaks
    <3>3. page[ptr["p"]].at \in {"frame", "swap"} /\ page[ptr["p"]].val = "Hello"
      BY <1>2, <2>3 DEF FileMmapKnows
    <3>4. ptr["p"] \in Int
      BY <1>2, <1>4, AddressesAre DEF PagesInv, Nowhere
    <3>5. Value = "Hello"
      BY <1>1, <1>2, <3>1, <3>3, <3>4, ValueIs
    <3>9. \E x \in Promised[program][2] : seen' = Append(seen, x)
      BY <3>2, <3>5, PromisedIs DEF PromisesAre
    <3>8. Said(program, pc) = 1 /\ Said(program, pc + 1) = 2
      BY <1>2, <2>1, <2>3 DEF Past
    <3> QED BY <3>8, <3>9 DEF Tells
  <2>4. CASE pc = 8
    <3>1. Step.op = "read_file"
      BY <1>2, <2>4, FileMmapSteps
    <3>2. seen' = Append(seen, file)
      BY <1>1, <1>2, <3>1, Speaks
    <3>3. file = "hello"
      BY <1>2, <2>4 DEF FileMmapKnows
    <3>9. \E x \in Promised[program][3] : seen' = Append(seen, x)
      BY <3>2, <3>3, PromisedIs DEF PromisesAre
    <3>8. Said(program, pc) = 2 /\ Said(program, pc + 1) = 3
      BY <1>2, <2>1, <2>4 DEF Past
    <3> QED BY <3>8, <3>9 DEF Tells
  <2>5. CASE pc # 5 /\ pc # 7 /\ pc # 8
    <3>1. seen' = seen
      <4>1. Step.op \notin Outputs
        BY <1>2, <2>5, FileMmapSteps DEF Outputs
      <4> QED BY <1>1, <1>2, <4>1, Speaks
    <3>2. Said(program, pc + 1) = Said(program, pc)
      <4>1. /\ Past(5, pc + 1) = Past(5, pc)
            /\ Past(7, pc + 1) = Past(7, pc)
            /\ Past(8, pc + 1) = Past(8, pc)
        BY <1>2, <2>5 DEF Past
      <4> QED BY <2>1, <4>1
    <3> QED BY <3>1, <3>2 DEF Tells
  <2> QED BY <2>2, <2>3, <2>4, <2>5
<1> QED BY <1>2, <1>6, <1>7, <1>8, <1>9, <1>10, <1>11, <1>12, <1>13 DEF FileMmapKnows

(* 05_mmap/04_file_share_write.c *)
LEMMA FileShareWriteTells ==
  ASSUME ProgramInv, program = "file_share_write", FileShareWriteKnows, [MCNext]_allVars, end' = "running",
         Rests \/ Goes
  PROVE  FileShareWriteKnows' /\ (Goes => Tells)
<1>1. program \notin Printers \cup Jumpers \cup Faulters
  BY DEF Printers, Jumpers, Faulters
<1>2. /\ MemoryInv /\ WhereInv /\ PagesInv /\ OwnInv /\ Owns /\ Owns'
      /\ program' = program /\ pc \in Nat /\ (Rests => pc' = pc) /\ (Goes => pc' = pc + 1)
      /\ Large \in Nat /\ Large >= 2
  BY <1>1, TalkFacts, LargeIs
<1>3. \A r \in Pointers : Have(r) = IF r = "p" THEN From(4, 8, 1, pc) ELSE 0
  <2>1. \A k \in Nat, r \in Pointers :
            Holdings["file_share_write"][k][r] = IF r = "p" THEN From(4, 8, 1, k) ELSE 0
    BY DEF Holdings, Only
  <2> QED BY <1>2, <2>1 DEF Have
<1>4. {"p", "q", "r", "a", "b", "heap", "anon"} \subseteq Pointers
  BY PointersAre
<1>5. program \in {"file_mmap", "file_share_write"}
  OBVIOUS
<1>6. pc' = 1 => ~ fd'
  <2> SUFFICES ASSUME pc' = 1 PROVE ~ fd'
    OBVIOUS
  <2>1. Rests /\ ~ fd
    BY <1>2, FileShareWriteSteps DEF FileShareWriteKnows
  <2> QED BY <1>2, <1>5, <2>1, FileTurns
<1>7. pc' = 2 /\ fd' => file' = "empty"
  <2> SUFFICES ASSUME pc' = 2, fd' PROVE file' = "empty"
    OBVIOUS
  <2>1. CASE Goes
    <3>1. pc = 1 /\ ~ fd /\ Step.op = "open"
      BY <1>2, <2>1, FileShareWriteSteps DEF FileShareWriteKnows
    <3> QED BY <1>2, <1>5, <2>1, <3>1, FileTurns
  <2>2. CASE Rests
    <3>1. file' = file /\ fd
      BY <1>2, <1>5, <2>2, FileTurns
    <3> QED BY <1>2, <2>2, <3>1 DEF FileShareWriteKnows
  <2> QED BY <2>1, <2>2
<1>8. pc' = 3 /\ fd' => file' \in {"empty", "AA"}
  <2> SUFFICES ASSUME pc' = 3, fd' PROVE file' \in {"empty", "AA"}
    OBVIOUS
  <2>1. CASE Goes
    <3>1. pc = 2 /\ Step.op = "write_file" /\ Step.v = "AA"
      BY <1>2, <2>1, FileShareWriteSteps
    <3>2. fd /\ file' \in {file, "AA"}
      BY <1>2, <1>5, <2>1, <3>1, FileTurns
    <3> QED BY <3>1, <3>2 DEF FileShareWriteKnows
  <2>2. CASE Rests
    <3>1. file' = file /\ fd
      BY <1>2, <1>5, <2>2, FileTurns
    <3> QED BY <1>2, <2>2, <3>1 DEF FileShareWriteKnows
  <2> QED BY <2>1, <2>2
<1>9. pc' >= 5 => ptr'["p"] # Nowhere
  <2> SUFFICES ASSUME pc' >= 5 PROVE ptr'["p"] # Nowhere
    OBVIOUS
  <2>1. ptr["p"] # Nowhere
    <3>1. CASE Goes /\ pc = 4
      <4>1. Step.op = "check" /\ Step.p = "p"
        BY <1>2, <3>1, FileShareWriteSteps
      <4> QED BY <1>2, <1>5, <3>1, <4>1, FileTurns
    <3>2. CASE ~ (Goes /\ pc = 4)
      BY <1>2, <3>2 DEF FileShareWriteKnows
    <3> QED BY <3>1, <3>2
  <2>2. Goes => Step.op \notin {"get", "mmap_file", "resize"}
    BY <1>2, FileShareWriteSteps
  <2>3. ptr'["p"] = ptr["p"]
    BY <1>1, <1>2, <1>4, <2>2, PointerStays
  <2> QED BY <2>1, <2>3
<1>10. pc' \in 4 .. 6 /\ ptr'["p"] # Nowhere => file' = "AA"
  <2> SUFFICES ASSUME pc' \in 4 .. 6, ptr'["p"] # Nowhere PROVE file' = "AA"
    OBVIOUS
  <2>1. CASE Goes /\ pc = 3
    <3>1. Step.op = "mmap_file" /\ Step.p = "p"
      BY <1>2, <2>1, FileShareWriteSteps
    <3>2. file' = file /\ fd /\ file # "empty"
      BY <1>2, <1>5, <2>1, <3>1, FileTurns
    <3> QED BY <2>1, <3>2 DEF FileShareWriteKnows
  <2>2. CASE ~ (Goes /\ pc = 3)
    <3>1. pc \in 4 .. 6
      BY <1>2, <2>2
    <3>2. Goes => Step.op \in {"check", "read"}
      BY <1>2, <2>2, <3>1, FileShareWriteSteps
    <3>3. ptr'["p"] = ptr["p"]
      BY <1>1, <1>2, <1>4, <3>2, PointerStays
    <3>4. file' = file
      BY <1>2, <1>5, <3>2, FileTurns
    <3> QED BY <3>1, <3>3, <3>4 DEF FileShareWriteKnows
  <2> QED BY <2>1, <2>2
<1>11. pc' = 7 => file' = "BA"
  <2> SUFFICES ASSUME pc' = 7 PROVE file' = "BA"
    OBVIOUS
  <2>1. CASE Goes /\ pc = 6
    <3>1. Step.op = "write" /\ Step.v = "BA"
      BY <1>2, <2>1, FileShareWriteSteps
    <3> QED BY <1>1, <1>2, <2>1, <3>1, Written
  <2>2. CASE Rests /\ pc = 7
    BY <1>2, <1>5, <2>2, FileTurns DEF FileShareWriteKnows
  <2> QED BY <1>2, <2>1, <2>2
<1>12. Goes => Tells
  <2> SUFFICES ASSUME Goes PROVE Tells
    OBVIOUS
  <2>1. /\ Said(program, pc) = Past(5, pc) + Past(7, pc)
        /\ Said(program, pc + 1) = Past(5, pc + 1) + Past(7, pc + 1)
    BY <1>2, SaidIs
  <2>2. CASE pc = 5
    <3>1. Step.op = "read" /\ Step.p = "p" /\ Step.k = 0
      BY <1>2, <2>2, FileShareWriteSteps
    <3>2. seen' = Append(seen, Value)
      BY <1>1, <1>2, <3>1, Speaks
    <3>3. file = "AA"
      BY <1>2, <2>2 DEF FileShareWriteKnows
    <3>4. ptr["p"] \in Int
      BY <1>2, <1>4, AddressesAre DEF PagesInv, Nowhere
    <3>5. Value = "AA"
      BY <1>1, <1>2, <3>1, <3>3, <3>4, ValueIs
    <3>9. \E x \in Promised[program][1] : seen' = Append(seen, x)
      BY <3>2, <3>5, PromisedIs DEF PromisesAre
    <3>8. Said(program, pc) = 0 /\ Said(program, pc + 1) = 1
      BY <1>2, <2>1, <2>2 DEF Past
    <3> QED BY <3>8, <3>9 DEF Tells
  <2>3. CASE pc = 7
    <3>1. Step.op = "read_file"
      BY <1>2, <2>3, FileShareWriteSteps
    <3>2. seen' = Append(seen, file)
      BY <1>1, <1>2, <3>1, Speaks
    <3>3. file = "BA"
      BY <1>2, <2>3 DEF FileShareWriteKnows
    <3>9. \E x \in Promised[program][2] : seen' = Append(seen, x)
      BY <3>2, <3>3, PromisedIs DEF PromisesAre
    <3>8. Said(program, pc) = 1 /\ Said(program, pc + 1) = 2
      BY <1>2, <2>1, <2>3 DEF Past
    <3> QED BY <3>8, <3>9 DEF Tells
  <2>4. CASE pc # 5 /\ pc # 7
    <3>1. seen' = seen
      <4>1. Step.op \notin Outputs
        BY <1>2, <2>4, FileShareWriteSteps DEF Outputs
      <4> QED BY <1>1, <1>2, <4>1, Speaks
    <3>2. Said(program, pc + 1) = Said(program, pc)
      <4>1. /\ Past(5, pc + 1) = Past(5, pc)
            /\ Past(7, pc + 1) = Past(7, pc)
        BY <1>2, <2>4 DEF Past
      <4> QED BY <2>1, <4>1
    <3> QED BY <3>1, <3>2 DEF Tells
  <2> QED BY <2>2, <2>3, <2>4
<1> QED BY <1>2, <1>6, <1>7, <1>8, <1>9, <1>10, <1>11, <1>12 DEF FileShareWriteKnows
-----------------------------------------------------------------------------
(* The same of a step of any kind. *)
Told ==
  \/ seen' = seen /\ Said(program, pc') = Said(program, pc)
  \/ /\ Said(program, pc') = Said(program, pc) + 1
     /\ \E x \in Promised[program][Said(program, pc) + 1] : seen' = Append(seen, x)

(* 05_mmap/09_map_fixed_noreplace.c: the second mapping always fails. *)
LEMMA FixedTells ==
  ASSUME ProgramInv, program = "fixed_noreplace", [MCNext]_allVars, end' = "running", Goes
  PROVE  Tells
<1>1. /\ WhereInv /\ FixedPagesInv /\ program \notin Jumpers /\ pc \in 1 .. 8 /\ pc \in Nat
  BY FixedSteps DEF ProgramInv, MemoryInv, Jumpers
<1>2. /\ Said(program, pc) = Past(4, pc) + Past(6, pc)
      /\ Said(program, pc + 1) = Past(4, pc + 1) + Past(6, pc + 1)
  BY <1>1, SaidIs
<1>3. CASE pc = 4
  <2>1. Step.op = "mmap_fixed"
    BY <1>1, <1>3, FixedSteps
  <2>2. \/ seen' = Append(seen, "failed") \/ seen' = Append(seen, "EEXIST")
        \/ seen' = Append(seen, "mapped")
    BY <1>1, <2>1, Speaks, Zenon
  <2>3. \E x \in Promised[program][1] : seen' = Append(seen, x)
    BY <2>2, PromisedIs DEF PromisesAre
  <2>4. Said(program, pc) = 0 /\ Said(program, pc + 1) = 1
    BY <1>2, <1>3 DEF Past
  <2> QED BY <2>3, <2>4 DEF Tells
<1>4. CASE pc = 6
  <2>1. Step.op = "mmap_fixed" /\ Step.at = "p" /\ Step.flag = "NOREPLACE"
    BY <1>1, <1>4, FixedSteps
  <2>2. page[ptr["p"]] # Unmapped
    BY <1>1, <1>4 DEF FixedPagesInv
  <2>3. seen' = Append(seen, "failed") \/ seen' = Append(seen, "EEXIST")
    BY <1>1, <2>1, <2>2, Speaks, Zenon
  <2>4. \E x \in Promised[program][2] : seen' = Append(seen, x)
    BY <2>3, PromisedIs DEF PromisesAre
  <2>5. Said(program, pc) = 1 /\ Said(program, pc + 1) = 2
    BY <1>2, <1>4 DEF Past
  <2> QED BY <2>4, <2>5 DEF Tells
<1>5. CASE pc \notin {4, 6}
  <2>1. seen' = seen
    <3>1. Step.op \notin Outputs
      BY <1>1, <1>5, FixedSteps DEF Outputs
    <3> QED BY <1>1, <3>1, Speaks
  <2>2. Said(program, pc + 1) = Said(program, pc)
    <3>1. Past(4, pc + 1) = Past(4, pc) /\ Past(6, pc + 1) = Past(6, pc)
      BY <1>1, <1>5 DEF Past
    <3> QED BY <1>2, <3>1
  <2> QED BY <2>1, <2>2 DEF Tells
<1> QED BY <1>3, <1>4, <1>5

(* 06_brk_sbrk/02_brk_directly.c: the break is two pages up in between. *)
LEMMA BreakTells ==
  ASSUME ProgramInv, program = "brk_directly", [MCNext]_allVars, end' = "running", Goes
  PROVE  Tells
<1>1. /\ WhereInv /\ BreakInv /\ program \notin Jumpers /\ pc \in 1 .. 10 /\ pc \in Nat
  BY BreakSteps DEF ProgramInv, MemoryInv, Jumpers
<1>2. /\ Said(program, pc) = Past(1, pc) + Past(5, pc) + Past(9, pc)
      /\ Said(program, pc + 1) = Past(1, pc + 1) + Past(5, pc + 1) + Past(9, pc + 1)
  BY <1>1, SaidIs
<1>3. pc \in {1, 5, 9} => seen' = Append(seen, brk)
  <2>1. pc \in {1, 5, 9} => Step.op = "brk"
    BY <1>1, BreakSteps
  <2> QED BY <1>1, <2>1, Speaks, Zenon
<1>4. CASE pc = 1
  <2>1. \E x \in Promised[program][1] : seen' = Append(seen, x)
    BY <1>1, <1>3, <1>4, PromisedIs DEF PromisesAre, BreakInv
  <2>2. Said(program, pc) = 0 /\ Said(program, pc + 1) = 1
    BY <1>2, <1>4 DEF Past
  <2> QED BY <2>1, <2>2 DEF Tells
<1>5. CASE pc = 5
  <2>1. brk \in 2 .. 3
    BY <1>1, <1>5 DEF BreakInv, Raised
  <2>2. \E x \in Promised[program][2] : seen' = Append(seen, x)
    BY <1>3, <1>5, <2>1, PromisedIs DEF PromisesAre
  <2>3. Said(program, pc) = 1 /\ Said(program, pc + 1) = 2
    BY <1>2, <1>5 DEF Past
  <2> QED BY <2>2, <2>3 DEF Tells
<1>6. CASE pc = 9
  <2>1. \E x \in Promised[program][3] : seen' = Append(seen, x)
    BY <1>1, <1>3, <1>6, PromisedIs DEF PromisesAre, BreakInv
  <2>2. Said(program, pc) = 2 /\ Said(program, pc + 1) = 3
    BY <1>2, <1>6 DEF Past
  <2> QED BY <2>1, <2>2 DEF Tells
<1>7. CASE pc \notin {1, 5, 9}
  <2>1. seen' = seen
    <3>1. Step.op \notin Outputs
      BY <1>1, <1>7, BreakSteps DEF Outputs
    <3> QED BY <1>1, <3>1, Speaks
  <2>2. Said(program, pc + 1) = Said(program, pc)
    <3>1. Past(1, pc + 1) = Past(1, pc) /\ Past(5, pc + 1) = Past(5, pc) /\ Past(9, pc + 1) = Past(9, pc)
      BY <1>1, <1>7 DEF Past
    <3> QED BY <1>2, <3>1
  <2> QED BY <2>1, <2>2 DEF Tells
<1> QED BY <1>4, <1>5, <1>6, <1>7

(* 03_stack/02_recursion_depth.c and 04_stack_overflow.c: the handler comes *)
(* back when the whole stack has been used.                                *)
LEMMA JumpersTell ==
  ASSUME ProgramInv, program \in Jumpers, JumpersKnow, [MCNext]_allVars,
         end = "running", end' = "running"
  PROVE  JumpersKnow' /\ Told
<1>1. /\ WhereInv /\ HandlerInv /\ program' = program /\ pc \in 1 .. 5 /\ pc \in Nat /\ pc # 3
      /\ Landing = 4
  BY JumpSteps, GoesOn DEF ProgramInv, MemoryInv, HandlerInv
<1>2. \A k \in Nat : Said(program, k) = Past(4, k)
  BY SaidIs DEF Jumpers
<1>3. CASE Idle
  <2>1. UNCHANGED <<pc, counter, seen>>
    BY <1>3, IdleIs
  <2> QED BY <1>1, <2>1 DEF JumpersKnow, Told
<1>4. CASE ~ Idle /\ pc = 1
  <2>1. SigactionStep
    BY <1>1, <1>4, JumpSteps, ActionAt
  <2>2. pc' = 2 /\ seen' = seen
    BY <1>4, <2>1 DEF SigactionStep, log
  <2>3. Said(program, pc') = Said(program, pc)
    BY <1>1, <1>2, <1>4, <2>2 DEF Past
  <2> QED BY <2>2, <2>3 DEF JumpersKnow, Told
<1>5. CASE ~ Idle /\ pc = 2
  <2>1. RecurseStep
    BY <1>1, <1>5, JumpSteps, ActionAt
  <2>2. seen' = seen
    BY <2>1 DEF RecurseStep
  <2>3. \/ pc' = pc
        \/ pc' \in {2, 4} /\ counter' = StackFrames
    <3>1. Segv(TRUE) => pc' \in {2, 4}
      BY <1>1, <1>5 DEF Segv
    <3> QED BY <2>1, <3>1 DEF RecurseStep
  <2>4. Said(program, pc') = Said(program, pc)
    BY <1>2, <1>5, <2>3 DEF Past
  <2> QED BY <1>5, <2>2, <2>3, <2>4 DEF JumpersKnow, Told
<1>6. CASE ~ Idle /\ pc = 4
  <2>1. LandedStep
    BY <1>1, <1>6, JumpSteps, ActionAt
  <2>2. pc' = 5 /\ seen' = Append(seen, counter)
    BY <1>6, <2>1 DEF LandedStep, Advance, Shown
  <2>3. \E x \in Promised[program][1] : seen' = Append(seen, x)
    BY <1>6, <2>2, PromisedIs DEF PromisesAre, JumpersKnow, Jumpers
  <2>4. Said(program, pc') = 1 /\ Said(program, pc) = 0
    BY <1>2, <1>6, <2>2 DEF Past
  <2> QED BY <2>2, <2>3, <2>4 DEF JumpersKnow, Told
<1>7. CASE ~ Idle /\ pc = 5
  <2>1. ReturnStep
    BY <1>1, <1>7, JumpSteps, StepOf
  <2> QED BY <2>1 DEF ReturnStep, Leave
<1> QED BY <1>1, <1>3, <1>4, <1>5, <1>6, <1>7
-----------------------------------------------------------------------------
(* Steps that print nothing. *)
LEMMA QuietSteps ==
  /\ \A p, n, kind, val, touched : Get(p, n, kind, val, touched).op \notin Outputs
  /\ \A p, n : Mmap(p, n).op \notin Outputs /\ Malloc(p, n).op \notin Outputs
  /\ \A p, n : MmapPopulate(p, n).op \notin Outputs
  /\ \A p, n : Munmap(p, n).op \notin Outputs
  /\ \A p : Free(p).op \notin Outputs /\ Check(p).op \notin Outputs
  /\ \A p, k, v : Write(p, k, v).op \notin Outputs
  /\ \A p, k : Touch(p, k).op \notin Outputs
  /\ Maps.op \notin Outputs /\ Return.op \notin Outputs /\ Do("measure").op \notin Outputs
<1>1. /\ \A p, n : Munmap(p, n).op \notin Outputs
      /\ \A p : Free(p).op \notin Outputs /\ Check(p).op \notin Outputs
      /\ \A p, k, v : Write(p, k, v).op \notin Outputs
      /\ \A p, k : Touch(p, k).op \notin Outputs
      /\ Maps.op \notin Outputs /\ Return.op \notin Outputs /\ Do("measure").op \notin Outputs
  BY DEF Munmap, Free, Check, Write, Touch, Maps, Return, Do, Outputs
<1>2. \A p, n, kind, val, touched : Get(p, n, kind, val, touched).op \notin Outputs
  BY DEF Get, Outputs
<1> QED BY <1>1, <1>2, Zenon DEF Mmap, Malloc, MmapPopulate

(* The programs that print nothing they have read. *)
LEMMA SilentSteps ==
  ASSUME ProgramInv, program \notin DOMAIN Talks, [MCNext]_allVars, end' = "running", Goes
  PROVE  Step.op \notin Outputs
<1>0. WhereInv
  BY DEF ProgramInv, MemoryInv
<1>1. /\ program \in {"segments_addresses", "alloca_vs_vla", "chunk_layout", "brk_vs_mmap",
         "mallopt_tuning", "mallinfo", "alignment", "double_free", "mallinfo_dump",
         "mprotect_guard", "map_populate", "program_break", "segfault_handler", "w_xor_x",
         "thp_madvise", "hugetlb_mmap", "ksm_demo", "memory_hierarchy"}
      /\ pc \in DOMAIN Script[program] /\ Step = Script[program][pc]
  BY <1>0, ScriptOf, TalkersAre DEF WhereInv, Step
<1>2. CASE program \in {"segments_addresses", "alloca_vs_vla"}
  <2>1. /\ Script["segments_addresses"] = <<Malloc("heap", 1), Mmap("anon", 1), Free("heap"),
               Munmap("anon", 1), Return>>
        /\ Script["alloca_vs_vla"] = <<Malloc("p", 1), Write("p", 0, "M"), Free("p"), Return>>
    BY ScriptOf DEF segments_addresses, alloca_vs_vla
  <2> QED BY <1>1, <1>2, <2>1, QuietSteps
<1>3. CASE program \in {"chunk_layout", "brk_vs_mmap", "mallopt_tuning"}
  BY <1>1, <1>3, ScriptOf, ChunkLayoutScript, BrkVsMmapScript, MalloptTuningScript, QuietSteps
<1>4. CASE program \in {"mallinfo", "mallinfo_dump", "ksm_demo"}
  BY <1>1, <1>4, ScriptOf, MallinfoScript, MallinfoDumpScript, KsmDemoScript, QuietSteps
<1>5. CASE program \in {"alignment", "program_break"}
  <2>1. /\ Script["alignment"] =
             <<Malloc("p", 1), Free("p"), Malloc("p", 1), Free("p"), Malloc("p", 1), Free("p"),
               Malloc("p", 1), Free("p"), Malloc("p", 1), Free("p"), Return>>
        /\ Script["program_break"] =
             <<Malloc("p", 1), Malloc("q", 1), Malloc("r", Large), Free("p"), Free("q"), Free("r"), Return>>
    BY ScriptOf DEF alignment, program_break
  <2> QED BY <1>1, <1>5, <2>1, QuietSteps
<1>6. CASE program \in {"hugetlb_mmap", "memory_hierarchy"}
  <2>1. /\ Script["hugetlb_mmap"] = <<Mmap("p", 1), Check("p"), Write("p", 0, "0x42"), Munmap("p", 1),
               Return>>
        /\ Script["memory_hierarchy"] = <<Do("measure"), Return>>
    BY ScriptOf DEF hugetlb_mmap, memory_hierarchy
  <2> QED BY <1>1, <1>6, <2>1, QuietSteps
<1>7. CASE program = "map_populate"
  <2>1. Large \in Nat /\ pc \in 1 .. 3 * Large + 5 /\ Step = map_populate[pc]
    BY <1>1, <1>7, ScriptOf, MapPopulateScript, LargeIs
  <2>6. \A k : Write("p", k, "1").op \notin Outputs
    BY QuietSteps, Zenon
  <2>2. map_populate[2 * Large + 3].op \notin Outputs
    BY MapPopulateScript, QuietSteps, Zenon
  <2>3. \A k \in 2 .. 2 * Large + 1 : map_populate[k].op \notin Outputs
    <3>1. \A k \in 2 .. Large + 1 : map_populate[k].op \notin Outputs
      BY MapPopulateScript, <2>6
    <3>2. \A k \in Large + 2 .. 2 * Large + 1 : map_populate[k].op \notin Outputs
      BY MapPopulateScript, <2>6
    <3> QED BY <2>1, <3>1, <3>2
  <2>4. \A k \in 2 * Large + 4 .. 3 * Large + 3 : map_populate[k].op \notin Outputs
    BY MapPopulateScript, <2>6
  <2>5. /\ map_populate[1].op \notin Outputs /\ map_populate[2 * Large + 2].op \notin Outputs
        /\ map_populate[3 * Large + 4].op \notin Outputs /\ map_populate[3 * Large + 5].op \notin Outputs
    BY MapPopulateScript, QuietSteps, Zenon
  <2> QED BY <2>1, <2>2, <2>3, <2>4, <2>5
<1>8. CASE program = "thp_madvise"
  <2>1. Large \in Nat /\ pc \in 1 .. Large + 5 /\ Step = thp_madvise[pc]
    BY <1>1, <1>8, ScriptOf, ThpMadviseScript, LargeIs
  <2> QED BY <2>1, ThpMadviseScript, QuietSteps
<1>9. CASE program \in {"mprotect_guard", "segfault_handler", "double_free"}
  BY <1>0, <1>9, GuardSteps, SegfaultSteps, DoubleSteps DEF Outputs
<1>10. CASE program = "w_xor_x"
  <2>1. pc + 1 <= 4 /\ pc \in Nat
    <3>1. StopInv'
      BY StopStep DEF ProgramInv
    <3> QED BY <1>0, <1>10, <3>1, GoesOn DEF StopInv, Goes
  <2> QED BY <1>0, <1>10, <2>1, WXorXSteps DEF Outputs
<1> QED BY <1>1, <1>2, <1>3, <1>4, <1>5, <1>6, <1>7, <1>8, <1>9, <1>10

(* A program that ends prints nothing as it does. *)
LEMMA StopsSilent ==
  ASSUME WhereInv, [MCNext]_allVars, end' # "running"
  PROVE  program' = program /\ pc' = pc /\ seen' = seen
<1>0. program' = program
  BY GoesOn
<1>1. CASE end # "running"
  BY <1>1, EndedStays
<1>2. CASE end = "running"
  <2>0. ~ Advance /\ ~ Idle /\ ~ SigactionStep
    <3>1. ~ SigactionStep
      BY <1>2 DEF SigactionStep
    <3>2. ~ Idle
      BY <1>2, IdleIs
    <3> QED BY <1>2, <3>1, <3>2 DEF Advance
  <2>1. Segv(FALSE) \/ Segv(TRUE) \/ Leave("error") \/ Leave("killed") \/ Leave("returned") => pc' = pc
    BY <1>2 DEF Segv, Leave
  <2>2. ~ (GetMemory \/ MmapFileStep \/ MmapFixedStep \/ MunmapStep \/ ResizeStep)
    BY <2>0, Zenon DEF GetMemory, MmapFileStep, MmapFixedStep, MunmapStep, ResizeStep
  <2>3. ~ (DontneedStep \/ PageoutStep \/ MunlockStep \/ SbrkStep \/ SbrkBackStep \/ PrintBreak
            \/ PrintfBuffer)
    BY <2>0, Zenon DEF DontneedStep, PageoutStep, MunlockStep, SbrkStep, SbrkBackStep, PrintBreak,
        PrintfBuffer
  <2>4. ~ (Load \/ Store \/ PrintNull \/ LandedStep \/ WriteFileStep \/ ReadFileStep \/ UnlinkStep)
    BY <2>0, Zenon DEF Load, Store, PrintNull, LandedStep, WriteFileStep, ReadFileStep, UnlinkStep
  <2>5. ~ (RssStep \/ MapsStep \/ RusageStep \/ UnreachableStep \/ TrimStep \/ OverflowStep)
    BY <2>0, Zenon DEF RssStep, MapsStep, RusageStep, UnreachableStep, TrimStep, OverflowStep
  <2>6. CASE CheckStep \/ FreeStep \/ MprotectStep \/ MlockStep \/ OpenStep \/ ReturnStep
    <3>1. Leave("error") \/ Leave("killed") \/ Leave("returned")
      BY <2>0, <2>6, Zenon DEF CheckStep, FreeStep, MprotectStep, MlockStep, OpenStep, ReturnStep
    <3>2. seen' = seen
      BY <2>6 DEF CheckStep, FreeStep, MprotectStep, MlockStep, OpenStep, ReturnStep, log
    <3> QED BY <1>0, <2>1, <3>1, <3>2
  <2>7. CASE PagemapStep
    <3>1. Leave("error") /\ UNCHANGED log
      BY <2>0, <2>7, Zenon DEF PagemapStep
    <3> QED BY <1>0, <2>1, <3>1 DEF log
  <2>8. CASE BadAccess \/ FopenFails
    <3>1. Segv(FALSE) /\ UNCHANGED log
      BY <2>8, Zenon DEF BadAccess, FopenFails
    <3> QED BY <1>0, <2>1, <3>1 DEF log
  <2>9. CASE RecurseStep
    <3>1. Segv(TRUE) /\ seen' = seen
      BY <1>2, <2>9 DEF RecurseStep
    <3> QED BY <1>0, <2>1, <3>1
  <2>10. CASE At("measure") /\ Measuring
    <3>1. Segv(FALSE) /\ UNCHANGED log
      <4>1. ~ UNCHANGED vars
        BY <1>2 DEF vars
      <4> QED BY <2>0, <2>10, <4>1, Zenon DEF Measuring
    <3> QED BY <1>0, <2>1, <3>1 DEF log
  <2> QED BY <2>0, <2>2, <2>3, <2>4, <2>5, <2>6, <2>7, <2>8, <2>9, <2>10, Zenon
          DEF MCNext, MCProcess, Process, PlainStep, Idle
<1> QED BY <1>1, <1>2
-----------------------------------------------------------------------------
(* s is a sequence of n things. *)
Printed(s, n) == DOMAIN s = 1 .. n /\ s = [k \in DOMAIN s |-> s[k]]

(* t is s with x after its n things. *)
OneMore(t, s, n, x) == Printed(t, n + 1) /\ t[n + 1] = x /\ \A k \in 1 .. n : t[k] = s[k]

(* Printing one thing more. *)
LEMMA Longer ==
  ASSUME NEW s, NEW n \in Nat, Printed(s, n), NEW x, NEW t, t = Append(s, x)
  PROVE  OneMore(t, s, n, x)
<1> DEFINE S == {s[k] : k \in 1 .. n} \cup {x}
<1>1. s \in Seq(S) /\ x \in S /\ Len(s) = n
  <2>1. s \in [1 .. n -> S]
    BY DEF Printed
  <2> QED BY <2>1
<1> HIDE DEF S
<1>2. /\ t \in Seq(S) /\ Len(t) = n + 1 /\ t[n + 1] = x
      /\ \A k \in 1 .. n : t[k] = s[k]
  BY <1>1, AppendProperties
<1>3. t \in [1 .. n + 1 -> S] /\ DOMAIN t = 1 .. n + 1
  BY <1>2, LenProperties
<1> QED BY <1>2, <1>3 DEF OneMore, Printed

(* How much is printed is a number, and nothing at first. *)
LEMMA SaidNat ==
  /\ \A q, k : k \in Nat => Said(q, k) \in Nat
  /\ \A q : Said(q, 1) = 0
<1>1. \A a, k : Past(a, k) \in Nat
  BY DEF Past
<1>2. ASSUME NEW q, NEW k \in Nat PROVE Said(q, k) \in Nat
  <2>1. CASE q \in DOMAIN Talks
    <3>1. CASE q = "pagemap"
      BY <3>1, SaidIs
    <3>2. CASE q # "pagemap"
      <4>1. /\ Past(Large + 2, k) \in Nat /\ Past(Large + 3, k) \in Nat /\ Past(Large + 4, k) \in Nat
            /\ Past(Large + 5, k) \in Nat /\ Past(Large + 6, k) \in Nat /\ Past(Large + 7, k) \in Nat
            /\ Past(Large + 8, k) \in Nat /\ Past(Large + 9, k) \in Nat
            /\ Past(2 * Large + 4, k) \in Nat /\ Past(2 * Large + 5, k) \in Nat
            /\ Past(2 * Large + 6, k) \in Nat /\ Past(2 * Large + 8, k) \in Nat
            /\ Past(2 * Large + 10, k) \in Nat /\ Past(3 * Large + 7, k) \in Nat
        BY <1>1
      <4>2. /\ Past(1, k) \in Nat /\ Past(2, k) \in Nat /\ Past(3, k) \in Nat /\ Past(4, k) \in Nat
            /\ Past(5, k) \in Nat /\ Past(6, k) \in Nat /\ Past(7, k) \in Nat /\ Past(8, k) \in Nat
            /\ Past(9, k) \in Nat /\ Past(10, k) \in Nat /\ Past(11, k) \in Nat
        BY <1>1
      <4> QED BY <2>1, <3>2, <4>1, <4>2, SaidIs, TalkersAre
    <3> QED BY <3>1, <3>2
  <2>2. CASE q \notin DOMAIN Talks
    BY <2>2 DEF Said
  <2> QED BY <2>1, <2>2
<1>3. ASSUME NEW q PROVE Said(q, 1) = 0
  <2>1. CASE q \in DOMAIN Talks
    <3>1. \A a \in Nat : a >= 1 => Past(a, 1) = 0
      BY DEF Past
    <3>2. /\ Past(Large + 2, 1) = 0 /\ Past(Large + 3, 1) = 0 /\ Past(Large + 4, 1) = 0
          /\ Past(Large + 5, 1) = 0 /\ Past(Large + 6, 1) = 0 /\ Past(Large + 7, 1) = 0
          /\ Past(Large + 8, 1) = 0 /\ Past(Large + 9, 1) = 0
          /\ Past(2 * Large + 4, 1) = 0 /\ Past(2 * Large + 5, 1) = 0 /\ Past(2 * Large + 6, 1) = 0
          /\ Past(2 * Large + 8, 1) = 0 /\ Past(2 * Large + 10, 1) = 0 /\ Past(3 * Large + 7, 1) = 0
      BY <3>1, LargeIs
    <3>3. /\ Past(1, 1) = 0 /\ Past(2, 1) = 0 /\ Past(3, 1) = 0 /\ Past(4, 1) = 0 /\ Past(5, 1) = 0
          /\ Past(6, 1) = 0 /\ Past(7, 1) = 0 /\ Past(8, 1) = 0 /\ Past(9, 1) = 0 /\ Past(10, 1) = 0
          /\ Past(11, 1) = 0
      BY <3>1
    <3> QED BY <2>1, <3>2, <3>3, SaidIs, TalkersAre
  <2>2. CASE q \notin DOMAIN Talks
    BY <2>2 DEF Said
  <2> QED BY <2>1, <2>2
<1> QED BY <1>2, <1>3

(* While it runs, a program says what it promises and knows what it needs  *)
(* to go on doing so.                                                      *)
LEMMA KnowsStep ==
  ASSUME ProgramInv, KnowsInv, [MCNext]_allVars, end' = "running"
  PROVE  KnowsInv' /\ program' = program /\ Told
<1>1. /\ WhereInv /\ HandlerInv /\ program' = program /\ end = "running" /\ pc \in Nat
  <2>1. WhereInv /\ HandlerInv
    BY DEF ProgramInv, MemoryInv
  <2>2. end = "running"
    BY EndedStays
  <2> QED BY <2>1, <2>2, GoesOn, StepFacts DEF WhereInv
<1>2. Rests => Told
  BY DEF Rests, Told
<1>3. Tells /\ Goes => Told
  BY DEF Tells, Goes, Told
<1>4. program \notin Jumpers => Rests \/ Goes
  BY <1>1, Ways
<1>5. CASE program \in Jumpers
  <2>1. JumpersKnow
    BY <1>1, <1>5 DEF KnowsInv
  <2>2. JumpersKnow' /\ Told
    BY <1>1, <1>5, <2>1, JumpersTell
  <2>3. KnowsInv'
    BY <1>1, <1>5, <2>2 DEF KnowsInv, Jumpers
  <2> QED BY <1>1, <2>2, <2>3
<1>6. CASE program = "pagesize"
  <2>1. PagesizeKnows /\ (Rests \/ Goes)
    BY <1>1, <1>4, <1>6 DEF KnowsInv, Jumpers
  <2>2. PagesizeKnows' /\ (Goes => Tells)
    BY <1>6, <2>1, PagesizeTells
  <2>3. KnowsInv'
    BY <1>1, <1>6, <2>2 DEF KnowsInv, Jumpers
  <2> QED BY <1>1, <1>2, <1>3, <2>1, <2>2, <2>3
<1>7. CASE program = "lazy_allocation"
  <2>1. LazyAllocationKnows /\ (Rests \/ Goes)
    BY <1>1, <1>4, <1>7 DEF KnowsInv, Jumpers
  <2>2. LazyAllocationKnows' /\ (Goes => Tells)
    BY <1>7, <2>1, LazyAllocationTells
  <2>3. KnowsInv'
    BY <1>1, <1>7, <2>2 DEF KnowsInv, Jumpers
  <2> QED BY <1>1, <1>2, <1>3, <2>1, <2>2, <2>3
<1>8. CASE program = "count_page_faults"
  <2>1. CountPageFaultsKnows /\ (Rests \/ Goes)
    BY <1>1, <1>4, <1>8 DEF KnowsInv, Jumpers
  <2>2. CountPageFaultsKnows' /\ (Goes => Tells)
    BY <1>8, <2>1, CountPageFaultsTells
  <2>3. KnowsInv'
    BY <1>1, <1>8, <2>2 DEF KnowsInv, Jumpers
  <2> QED BY <1>1, <1>2, <1>3, <2>1, <2>2, <2>3
<1>9. CASE program = "pagemap"
  <2>1. PagemapKnows /\ (Rests \/ Goes)
    BY <1>1, <1>4, <1>9 DEF KnowsInv, Jumpers
  <2>2. PagemapKnows' /\ (Goes => Tells)
    BY <1>9, <2>1, PagemapTells
  <2>3. KnowsInv'
    BY <1>1, <1>9, <2>2 DEF KnowsInv, Jumpers
  <2> QED BY <1>1, <1>2, <1>3, <2>1, <2>2, <2>3
<1>10. CASE program = "malloc_basics"
  <2>1. BasicsKnows /\ (Rests \/ Goes)
    BY <1>1, <1>4, <1>10 DEF KnowsInv, Jumpers
  <2>2. BasicsKnows' /\ (Goes => Tells)
    BY <1>10, <2>1, BasicsTells
  <2>3. KnowsInv'
    BY <1>1, <1>10, <2>2 DEF KnowsInv, Jumpers
  <2> QED BY <1>1, <1>2, <1>3, <2>1, <2>2, <2>3
<1>11. CASE program = "calloc_realloc"
  <2>1. ReallocKnows /\ (Rests \/ Goes)
    BY <1>1, <1>4, <1>11 DEF KnowsInv, Jumpers
  <2>2. ReallocKnows' /\ (Goes => Tells)
    BY <1>11, <2>1, ReallocTells
  <2>3. KnowsInv'
    BY <1>1, <1>11, <2>2 DEF KnowsInv, Jumpers
  <2> QED BY <1>1, <1>2, <1>3, <2>1, <2>2, <2>3
<1>12. CASE program = "malloc_trim"
  <2>1. MallocTrimKnows /\ (Rests \/ Goes)
    BY <1>1, <1>4, <1>12 DEF KnowsInv, Jumpers
  <2>2. MallocTrimKnows' /\ (Goes => Tells)
    BY <1>12, <2>1, MallocTrimTells
  <2>3. KnowsInv'
    BY <1>1, <1>12, <2>2 DEF KnowsInv, Jumpers
  <2> QED BY <1>1, <1>2, <1>3, <2>1, <2>2, <2>3
<1>13. CASE program = "anon_mmap"
  <2>1. AnonMmapKnows /\ (Rests \/ Goes)
    BY <1>1, <1>4, <1>13 DEF KnowsInv, Jumpers
  <2>2. AnonMmapKnows' /\ (Goes => Tells)
    BY <1>13, <2>1, AnonMmapTells
  <2>3. KnowsInv'
    BY <1>1, <1>13, <2>2 DEF KnowsInv, Jumpers
  <2> QED BY <1>1, <1>2, <1>3, <2>1, <2>2, <2>3
<1>14. CASE program = "file_mmap"
  <2>1. FileMmapKnows /\ (Rests \/ Goes)
    BY <1>1, <1>4, <1>14 DEF KnowsInv, Jumpers
  <2>2. FileMmapKnows' /\ (Goes => Tells)
    BY <1>14, <2>1, FileMmapTells
  <2>3. KnowsInv'
    BY <1>1, <1>14, <2>2 DEF KnowsInv, Jumpers
  <2> QED BY <1>1, <1>2, <1>3, <2>1, <2>2, <2>3
<1>15. CASE program = "file_share_write"
  <2>1. FileShareWriteKnows /\ (Rests \/ Goes)
    BY <1>1, <1>4, <1>15 DEF KnowsInv, Jumpers
  <2>2. FileShareWriteKnows' /\ (Goes => Tells)
    BY <1>15, <2>1, FileShareWriteTells
  <2>3. KnowsInv'
    BY <1>1, <1>15, <2>2 DEF KnowsInv, Jumpers
  <2> QED BY <1>1, <1>2, <1>3, <2>1, <2>2, <2>3
<1>16. CASE program = "madvise_dontneed"
  <2>1. MadviseDontneedKnows /\ (Rests \/ Goes)
    BY <1>1, <1>4, <1>16 DEF KnowsInv, Jumpers
  <2>2. MadviseDontneedKnows' /\ (Goes => Tells)
    BY <1>16, <2>1, MadviseDontneedTells
  <2>3. KnowsInv'
    BY <1>1, <1>16, <2>2 DEF KnowsInv, Jumpers
  <2> QED BY <1>1, <1>2, <1>3, <2>1, <2>2, <2>3
<1>17. CASE program = "mremap"
  <2>1. MremapKnows /\ (Rests \/ Goes)
    BY <1>1, <1>4, <1>17 DEF KnowsInv, Jumpers
  <2>2. MremapKnows' /\ (Goes => Tells)
    BY <1>17, <2>1, MremapTells
  <2>3. KnowsInv'
    BY <1>1, <1>17, <2>2 DEF KnowsInv, Jumpers
  <2> QED BY <1>1, <1>2, <1>3, <2>1, <2>2, <2>3
<1>18. CASE program = "mlock"
  <2>1. MlockKnows /\ (Rests \/ Goes)
    BY <1>1, <1>4, <1>18 DEF KnowsInv, Jumpers
  <2>2. MlockKnows' /\ (Goes => Tells)
    BY <1>18, <2>1, MlockTells
  <2>3. KnowsInv'
    BY <1>1, <1>18, <2>2 DEF KnowsInv, Jumpers
  <2> QED BY <1>1, <1>2, <1>3, <2>1, <2>2, <2>3
<1>19. CASE program = "madvise_pageout"
  <2>1. MadvisePageoutKnows /\ (Rests \/ Goes)
    BY <1>1, <1>4, <1>19 DEF KnowsInv, Jumpers
  <2>2. MadvisePageoutKnows' /\ (Goes => Tells)
    BY <1>19, <2>1, MadvisePageoutTells
  <2>3. KnowsInv'
    BY <1>1, <1>19, <2>2 DEF KnowsInv, Jumpers
  <2> QED BY <1>1, <1>2, <1>3, <2>1, <2>2, <2>3
<1>20. CASE program = "overcommit"
  <2>1. OvercommitKnows /\ (Rests \/ Goes)
    BY <1>1, <1>4, <1>20 DEF KnowsInv, Jumpers
  <2>2. OvercommitKnows' /\ (Goes => Tells)
    BY <1>20, <2>1, OvercommitTells
  <2>3. KnowsInv'
    BY <1>1, <1>20, <2>2 DEF KnowsInv, Jumpers
  <2> QED BY <1>1, <1>2, <1>3, <2>1, <2>2, <2>3
<1>21. CASE program = "getrusage_demo"
  <2>1. GetrusageDemoKnows /\ (Rests \/ Goes)
    BY <1>1, <1>4, <1>21 DEF KnowsInv, Jumpers
  <2>2. GetrusageDemoKnows' /\ (Goes => Tells)
    BY <1>21, <2>1, GetrusageDemoTells
  <2>3. KnowsInv'
    BY <1>1, <1>21, <2>2 DEF KnowsInv, Jumpers
  <2> QED BY <1>1, <1>2, <1>3, <2>1, <2>2, <2>3
<1>22. CASE program = "mprotect_jit"
  <2>1. JitKnows /\ (Rests \/ Goes)
    BY <1>1, <1>4, <1>22 DEF KnowsInv, Jumpers
  <2>2. JitKnows' /\ (Goes => Tells)
    BY <1>22, <2>1, JitTells
  <2>3. KnowsInv'
    BY <1>1, <1>22, <2>2 DEF KnowsInv, Jumpers
  <2> QED BY <1>1, <1>2, <1>3, <2>1, <2>2, <2>3
<1>23. CASE program \in {"fixed_noreplace", "brk_directly"} \/ program \notin DOMAIN Talks
  <2>1. KnowsInv'
    BY <1>1, <1>23, TalkersAre DEF KnowsInv, Jumpers
  <2>2. Rests \/ Goes
    BY <1>4, <1>23, TalkersAre DEF Jumpers
  <2>3. CASE Goes /\ program \in {"fixed_noreplace", "brk_directly"}
    BY <1>1, <1>3, <2>1, <2>3, FixedTells, BreakTells
  <2>4. CASE Goes /\ program \notin DOMAIN Talks
    <3>1. program \notin Jumpers
      BY <2>4, TalkersAre DEF Jumpers
    <3>2. seen' = seen
      BY <1>1, <2>4, <3>1, SilentSteps, Speaks
    <3>3. Said(program, pc') = Said(program, pc)
      BY <2>4 DEF Said
    <3> QED BY <1>1, <2>1, <3>2, <3>3 DEF Told
  <2> QED BY <1>1, <1>2, <1>23, <2>1, <2>2, <2>3, <2>4
<1>24. \/ program \in Jumpers
      \/ program \in {"pagesize", "lazy_allocation", "count_page_faults", "pagemap", "malloc_basics",
             "calloc_realloc", "malloc_trim", "anon_mmap", "file_mmap", "file_share_write",
             "madvise_dontneed", "mremap", "mlock", "madvise_pageout", "overcommit", "getrusage_demo",
             "mprotect_jit"}
      \/ program \in {"fixed_noreplace", "brk_directly"} \/ program \notin DOMAIN Talks
  BY TalkersAre DEF Jumpers
<1> QED BY <1>5, <1>6, <1>7, <1>8, <1>9, <1>10, <1>11, <1>12, <1>13, <1>14, <1>15, <1>16, <1>17, <1>18,
        <1>19, <1>20, <1>21, <1>22, <1>23, <1>24

(* What has been printed is what was promised, and as much as the program  *)
(* has come to; what it knows of its pages makes the next true.            *)
PromiseInv == /\ ProgramInv /\ KnowsInv /\ SaidInv
              /\ seen = [k \in DOMAIN seen |-> seen[k]] /\ PrintsAsPromised

(* It holds when a program starts, *)
LEMMA PromiseInit == MCInit => PromiseInv
<1> SUFFICES ASSUME MCInit PROVE PromiseInv
  OBVIOUS
<1>1. /\ ProgramInv /\ pc = 1 /\ page = [a \in Addresses |-> Unmapped] /\ fd = FALSE
      /\ faults = 0 /\ seen = << >> /\ ~ refused
  BY ProgramInit DEF MCInit, Init
<1>2. Large \in Nat /\ Large >= 2
  BY LargeIs
<1>3. Dry /\ DryBut(ptr["p"])
  <2>1. \A b \in Addresses : page[b] = Unmapped
    BY <1>1
  <2> QED BY <2>1 DEF Dry, DryBut
<1>4. KnowsInv
  <2>1. /\ PagesizeKnows /\ PagemapKnows /\ JumpersKnow /\ BasicsKnows /\ ReallocKnows /\ AnonMmapKnows
        /\ MremapKnows /\ JitKnows
    BY <1>1 DEF PagesizeKnows, PagemapKnows, JumpersKnow, BasicsKnows, ReallocKnows, AnonMmapKnows,
                MremapKnows, JitKnows
  <2>2. CountPageFaultsKnows /\ GetrusageDemoKnows /\ MadvisePageoutKnows
    BY <1>1, <1>2 DEF CountPageFaultsKnows, GetrusageDemoKnows, MadvisePageoutKnows
  <2>3. LazyAllocationKnows /\ MallocTrimKnows /\ MadviseDontneedKnows /\ MlockKnows /\ OvercommitKnows
    BY <1>1, <1>2, <1>3 DEF LazyAllocationKnows, MallocTrimKnows, MadviseDontneedKnows, MlockKnows,
                           OvercommitKnows
  <2>4. FileMmapKnows /\ FileShareWriteKnows
    BY <1>1 DEF FileMmapKnows, FileShareWriteKnows
  <2> QED BY <2>1, <2>2, <2>3, <2>4 DEF KnowsInv
<1>5. DOMAIN seen = {}
  BY <1>1
<1>6. SaidInv
  BY <1>1, <1>5, SaidNat DEF SaidInv
<1>7. PrintsAsPromised
  BY <1>5 DEF PrintsAsPromised
<1>8. seen = [k \in DOMAIN seen |-> seen[k]]
  BY <1>1, <1>5
<1> QED BY <1>1, <1>4, <1>6, <1>7, <1>8 DEF PromiseInv

(* What it is when madvise() has been refused, for those of its pages that *)
(* have been counted or read by then, was promised before as well.         *)
LEMMA PromisesKept ==
  ASSUME ProgramInv, [MCNext]_allVars, NEW k \in 1 .. Said(program, pc)
  PROVE  Promised[program][k] \subseteq Promised'[program][k]
<1>1. WhereInv /\ pc \in Nat /\ Large \in Nat /\ Large >= 2
  BY StepFacts, LargeIs DEF ProgramInv, MemoryInv, WhereInv
<1>2. PromisesAre /\ PromisesAre'
  BY PromisedIs, PTL
<1>3. CASE refused' = refused
  <2>1. Promised' = Promised
    BY <1>3, Zenon DEF Promised, Dropped, Blank
  <2> QED BY <2>1
<1>4. CASE refused' # refused
  <2>1. Step.op = "dontneed"
    BY <1>4, OpOf, KeptSteps, Zenon
  <2>2. CASE program = "lazy_allocation"
    <3>1. pc = 2 * Large + 7
      BY <1>1, <2>1, <2>2, LazyAllocationSteps
    <3>2. Said(program, pc) = 4
      BY <1>1, <2>2, <3>1, SaidIs DEF Past
    <3>3. k \in {1, 2, 3, 4}
      BY <3>2
    <3> QED BY <1>2, <2>2, <3>3 DEF PromisesAre
  <2>3. CASE program = "count_page_faults"
    <3>1. pc = 2 * Large + 6
      BY <1>1, <2>1, <2>3, CountPageFaultsSteps
    <3>2. Said(program, pc) = 3
      BY <1>1, <2>3, <3>1, SaidIs DEF Past
    <3>3. k \in {1, 2, 3}
      BY <3>2
    <3> QED BY <1>2, <2>3, <3>3 DEF PromisesAre
  <2>4. CASE program = "madvise_dontneed"
    <3>1. pc = Large + 5
      BY <1>1, <2>1, <2>4, MadviseDontneedSteps
    <3>2. Said(program, pc) = 2
      BY <1>1, <2>4, <3>1, SaidIs DEF Past
    <3>3. k \in {1, 2}
      BY <3>2
    <3> QED BY <1>2, <2>4, <3>3 DEF PromisesAre
  <2>5. CASE program \in DOMAIN Talks \ {"lazy_allocation", "count_page_faults", "madvise_dontneed"}
    <3>1. /\ Promised'["pagesize"] = Promised["pagesize"]
          /\ Promised'["pagemap"] = Promised["pagemap"]
          /\ Promised'["recursion_depth"] = Promised["recursion_depth"]
          /\ Promised'["stack_overflow"] = Promised["stack_overflow"]
          /\ Promised'["malloc_basics"] = Promised["malloc_basics"]
          /\ Promised'["calloc_realloc"] = Promised["calloc_realloc"]
          /\ Promised'["malloc_trim"] = Promised["malloc_trim"]
          /\ Promised'["anon_mmap"] = Promised["anon_mmap"]
          /\ Promised'["file_mmap"] = Promised["file_mmap"]
          /\ Promised'["file_share_write"] = Promised["file_share_write"]
          /\ Promised'["mremap"] = Promised["mremap"]
          /\ Promised'["fixed_noreplace"] = Promised["fixed_noreplace"]
          /\ Promised'["brk_directly"] = Promised["brk_directly"]
          /\ Promised'["mlock"] = Promised["mlock"]
          /\ Promised'["madvise_pageout"] = Promised["madvise_pageout"]
          /\ Promised'["overcommit"] = Promised["overcommit"]
          /\ Promised'["getrusage_demo"] = Promised["getrusage_demo"]
          /\ Promised'["mprotect_jit"] = Promised["mprotect_jit"]
      BY DEF Promised
    <3> QED BY <2>5, <3>1, TalkersAre
  <2>6. CASE program \notin DOMAIN Talks
    BY <2>6 DEF Said
  <2> QED BY <2>2, <2>3, <2>4, <2>5, <2>6
<1> QED BY <1>3, <1>4

(* and every step keeps it. *)
LEMMA PromiseStep == PromiseInv /\ [MCNext]_allVars => PromiseInv'
<1> SUFFICES ASSUME PromiseInv, [MCNext]_allVars PROVE PromiseInv'
  OBVIOUS
<1>0. /\ ProgramInv /\ KnowsInv /\ SaidInv /\ PrintsAsPromised /\ seen = [k \in DOMAIN seen |-> seen[k]]
  BY DEF PromiseInv
<1>1. ProgramInv' /\ WhereInv
  BY <1>0, ProgramStep DEF ProgramInv, MemoryInv
<1>2. KnowsInv' /\ program' = program /\ Told
  <2>1. CASE end' = "running"
    BY <1>0, <2>1, KnowsStep
  <2>2. CASE end' # "running"
    BY <1>1, <2>2, StopsSilent DEF KnowsInv, Told
  <2> QED BY <2>1, <2>2
<1>3. PICK n \in Nat : n = Said(program, pc)
  BY <1>1, SaidNat, StepFacts DEF WhereInv
<1>4. DOMAIN seen = 1 .. n /\ \A k \in 1 .. n : seen[k] \in Promised[program][k]
  BY <1>0, <1>3 DEF SaidInv, PrintsAsPromised
<1>7. \A k \in 1 .. n : seen[k] \in Promised'[program][k]
  BY <1>0, <1>3, <1>4, PromisesKept
<1>5. CASE seen' = seen /\ Said(program, pc') = Said(program, pc)
  <2>1. PrintsAsPromised'
    BY <1>2, <1>4, <1>5, <1>7 DEF PrintsAsPromised
  <2> QED BY <1>0, <1>1, <1>2, <1>5, <2>1 DEF PromiseInv, SaidInv
<1>6. CASE /\ Said(program, pc') = Said(program, pc) + 1
           /\ \E x \in Promised[program][Said(program, pc) + 1] : seen' = Append(seen, x)
  <2>1. PICK x \in Promised[program][n + 1] : seen' = Append(seen, x)
    BY <1>3, <1>6
  <2>2. /\ Printed(seen', n + 1) /\ seen'[n + 1] = x /\ \A k \in 1 .. n : seen'[k] = seen[k]
    <3>1. Printed(seen, n)
      BY <1>0, <1>4 DEF Printed
    <3>2. OneMore(seen', seen, n, x)
      BY <2>1, <3>1, Longer, Zenon
    <3> QED BY <3>2 DEF OneMore
  <2>3. SaidInv'
    BY <1>2, <1>3, <1>6, <2>2 DEF SaidInv, Printed
  <2>4. \A k \in 1 .. n + 1 : seen'[k] \in Promised'[program][k]
    <3>1. seen' # seen
      <4>1. n + 1 \in DOMAIN seen' /\ n + 1 \notin DOMAIN seen
        BY <1>4, <2>2 DEF Printed
      <4> QED BY <4>1
    <3>2. refused' = refused
      <4>1. DontneedStep => seen' = seen
        BY Zenon DEF DontneedStep, log
      <4> QED BY <3>1, <4>1, KeptSteps, Zenon
    <3>3. Promised' = Promised
      BY <3>2, Zenon DEF Promised, Dropped, Blank
    <3> QED BY <1>4, <2>1, <2>2, <3>3
  <2>5. PrintsAsPromised'
    BY <1>2, <2>2, <2>4 DEF PrintsAsPromised, Printed
  <2> QED BY <1>1, <1>2, <2>2, <2>3, <2>5 DEF PromiseInv, Printed
<1> QED BY <1>2, <1>5, <1>6 DEF Told

(* Whatever the kernel swaps out in between, wherever it puts a mapping    *)
(* and whatever calls fail, in regions and address spaces of any size,     *)
(* the memory programs print what their own text says they do.             *)
THEOREM PrintsCorrect == MCSpec => []PrintsAsPromised
<1>1. PromiseInv => PrintsAsPromised
  BY DEF PromiseInv
<1> QED BY <1>1, PromiseInit, PromiseStep, PTL DEF MCSpec
=============================================================================
