---------------------------- MODULE PagingProofs ----------------------------
(***************************************************************************)
(* Every action of module Paging keeps the invariant Inv, so it holds; and *)
(* what it says of the page table, the list of resident pages and the      *)
(* offsets.                                                                *)
(***************************************************************************)
EXTENDS PagingLemmas

\* A panic that is not about metadata changes nothing else.
LEMMA CrashKeeps ==
  ASSUME Inv, NEW msg \in Messages \ MetadataPanics, Crash(msg)
  PROVE  Inv'
BY DEF Inv, Crash, TypeOK, ForkOK

\* A step on behalf of one process leaves the others' invariants alone.
LEMMA LocalStep ==
  ASSUME Inv, NEW p \in Proc, proc[p].state # "EMBRYO", kern[p].pc # "copy",
         NEW c \in ProcRec, NEW pr \in PageRec, NEW k \in KernRec,
         proc' = [proc EXCEPT ![p] = c], pg' = [pg EXCEPT ![p] = pr],
         kern' = [kern EXCEPT ![p] = k],
         mem' \in [Frame -> Data], free' \subseteq Frame, panic' = panic,
         k.pc # "copy", LocalOK(c, pr, k)
  PROVE  Inv'
<1>1. TypeOK'
  BY DEF Inv, TypeOK
<1>2. /\ proc'[p] = c /\ pg'[p] = pr /\ kern'[p] = k
      /\ \A q \in Proc \ {p} : proc'[q] = proc[q] /\ pg'[q] = pg[q] /\ kern'[q] = kern[q]
  BY DEF Inv, TypeOK
<1>3. \A q \in Proc : LocalOK(proc'[q], pg'[q], kern'[q])
  BY <1>2 DEF Inv
<1>4. ForkOK'
  <2>1. \A q \in Proc : kern'[q].pc = "copy" => q # p /\ p \notin kern[q].peer
    BY <1>2 DEF Inv, ForkOK
  <2>2. \A q \in Proc : kern[q].peer \subseteq Proc
    BY DEF Inv, TypeOK, KernRec
  <2> QED BY <1>2, <2>1, <2>2 DEF Inv, ForkOK
<1>5. (\A q \in Proc : LocalOK(proc[q], pg[q], kern[q]))'
  BY <1>3
<1> QED BY <1>1, <1>4, <1>5 DEF Inv

\* kalloc and kfree keep the types of memory.
LEMMA MemoryTypes ==
  ASSUME Inv
  PROVE  /\ \A f \in Frame, d \in Data :
              Alloc(f, d) => mem' \in [Frame -> Data] /\ free' \subseteq Frame
         /\ \A S \in SUBSET Frame : kfree(S) => mem' \in [Frame -> Data] /\ free' \subseteq Frame
BY ValuesAssumption DEF Inv, TypeOK, Alloc, kfree

\* The local variables of a process that is not in the kernel have their types.
LEMMA IdleType == Idle \in KernRec
BY Sizes, SizesAssumption DEF Idle, KernRec, PC

\* What holds of a process that executes user instructions.
LEMMA InUser ==
  ASSUME Inv, NEW p \in Proc, User(p)
  PROVE  /\ RecOK(pg[p]) /\ LoopOK(proc[p], pg[p], kern[p])
         /\ Mapped(pg[p]) = {} \/ Mapped(pg[p]) = Below(proc[p].sz)
         /\ proc[p].state # "EMBRYO" /\ kern[p].pc # "copy"
         /\ Fetched(p) => Mapped(pg[p]) = Below(proc[p].sz) /\ 0 < proc[p].sz
<1>1. /\ RecOK(pg[p]) /\ LoopOK(proc[p], pg[p], kern[p]) /\ kern[p].pc = "user"
      /\ proc[p].state = "RUNNING" /\ proc[p].killed = FALSE
  <2>1. kern[p].pc = "user" /\ proc[p].state = "RUNNING" /\ proc[p].killed = FALSE
    BY Zenon DEF Inv, User, TypeOK, ProcRec
  <2>2. "user" \notin {"failed", "halt"}
    OBVIOUS
  <2>3. LocalOK(proc[p], pg[p], kern[p])
    BY Zenon DEF Inv
  <2> QED BY <2>1, <2>2, <2>3, Zenon DEF LocalOK, Lost
<1>2. Mapped(pg[p]) = {} \/ Mapped(pg[p]) = Below(proc[p].sz)
  BY <1>1 DEF LoopOK, Stage
<1>3. Fetched(p) => Mapped(pg[p]) = Below(proc[p].sz) /\ 0 < proc[p].sz
  BY <1>2 DEF Fetched, Mapped, Below, Text
<1> QED BY <1>1, <1>2, <1>3

\* These bits play no part in the invariant.
LEMMA BitsKeep ==
  ASSUME NEW pr \in PageRec, NEW q, SameButBits(q, pr)
  PROVE  \A c, k : LocalOK(c, pr, k) => LocalOK(c, q, k)
<1>1. /\ q \in PageRec /\ SameMeta(q, pr) /\ q.PTE_P = pr.PTE_P /\ q.PTE_PG = pr.PTE_PG
      /\ q.PTE_ADDR = pr.PTE_ADDR
  BY DEF SameButBits
<1>2. RecOK(pr) => RecOK(q)
  BY <1>1, SameMetaKeeps
<1>3. q.taken = pr.taken /\ q.on_phys = pr.on_phys /\ q.phys_pages = pr.phys_pages
      /\ Mapped(q) = Mapped(pr) /\ q.headp = pr.headp /\ q.nextp = pr.nextp
  BY <1>1 DEF SameMeta, Mapped
<1>4. ASSUME NEW c, NEW k, LoopOK(c, pr, k) PROVE LoopOK(c, q, k)
  BY <1>1, <1>3, <1>4 DEF LoopOK
<1>5. AddrOK(pr) => AddrOK(q)
  BY <1>1 DEF AddrOK
<1> QED BY <1>1, <1>2, <1>3, <1>4, <1>5 DEF LocalOK

\* A page table with a consistent pages[] has a frame for every present page.
LEMMA RecAddr ==
  ASSUME NEW pr \in PageRec, RecOK(pr)
  PROVE  AddrOK(pr)
<1>1. pr.PTE_ADDR \in [Vpn -> Frame \cup {NoFrame}] /\ pr.PTE_P \subseteq Vpn
  BY DEF PageRec
<1> QED BY <1>1 DEF RecOK, MetaOK, AddrOK

\* The process goes back to user mode with its paging record pr.
LEMMA BackToUser ==
  ASSUME Inv, NEW p \in Proc, proc[p].state = "RUNNING", kern[p].pc # "copy",
         NEW c \in ProcRec, NEW pr \in PageRec, c.state = "RUNNING",
         AddrOK(pr),
         c.killed \/ (/\ RecOK(pr) /\ (Mapped(pr) = {} \/ Mapped(pr) = Below(c.sz))
                      /\ Small(c) => pr.phys_pages <= MAX_PHYS_PAGES),
         proc' = [proc EXCEPT ![p] = c], pg' = [pg EXCEPT ![p] = pr],
         kern' = [kern EXCEPT ![p] = Idle],
         mem' \in [Frame -> Data], free' \subseteq Frame, panic' = panic
  PROVE  Inv'
<1>1. Idle.pc = "user"
  BY DEF Idle
<1>2. ~c.killed => LoopOK(c, pr, Idle)
  BY <1>1 DEF LoopOK, Stage
<1>3. LocalOK(c, pr, Idle)
  BY <1>1, <1>2 DEF LocalOK
<1> QED BY <1>1, <1>3, IdleType, LocalStep, ZenonT(60)

\* The search for a victim may move on to any resident page.
LEMMA LoopTurn ==
  ASSUME NEW c, NEW pr, NEW k, NEW m, LoopOK(c, pr, k), k.pc = "scan",
         m.pc \in {"scan", "swapout"}, m.cur \in pr.on_phys, m.then = k.then,
         m.a = k.a, m.lim = k.lim, m.ret = k.ret
  PROVE  LoopOK(c, pr, m)
BY DEF LoopOK, Stage

\* LoopOK bounds the resident pages.
LEMMA LoopFits ==
  ASSUME NEW c, NEW pr, NEW k, LoopOK(c, pr, k), k.pc # "exec"
  PROVE  Small(c) => pr.phys_pages <= MAX_PHYS_PAGES
BY DEF LoopOK

\* LoopOK of a process that is not in the kernel.
LEMMA LoopIdle ==
  ASSUME NEW c, NEW pr, NEW k, k.pc = "user", Mapped(pr) = {} \/ Mapped(pr) = Below(c.sz),
         Small(c) => pr.phys_pages <= MAX_PHYS_PAGES
  PROVE  LoopOK(c, pr, k)
BY DEF LoopOK, Stage

\* LoopOK of an exec that loads its image.
LEMMA LoopExec ==
  ASSUME NEW c, NEW pr, NEW k, k.pc = "exec", k.lim \in SpawnSizes \cup ExecSizes,
         k.a <= k.lim, pr.taken = 0 .. k.a - 1, pr.on_phys = pr.taken,
         Mapped(pr) = Below(k.a), pr.phys_pages = k.a
  PROVE  LoopOK(c, pr, k)
BY DEF LoopOK, Stage

\* LoopOK at the head of allocuvm's loop.
LEMMA LoopGrow ==
  ASSUME NEW c, NEW pr, NEW k, k.pc = "grow", Mapped(pr) = Below(k.a), 0 < c.sz,
         c.sz <= k.a, k.a <= k.lim, k.ret = k.lim,
         Small(c) => pr.phys_pages <= MAX_PHYS_PAGES
  PROVE  LoopOK(c, pr, k)
BY DEF LoopOK, Stage

\* LoopOK at the head of deallocuvm's loop.
LEMMA LoopDealloc ==
  ASSUME NEW c, NEW pr, NEW k, k.pc = "dealloc",
         \E b \in {0, k.ret}, t \in 0 .. k.lim :
           /\ b <= k.a /\ k.a <= k.lim
           /\ Mapped(pr) = {v \in Vpn : v < b \/ (k.a <= v /\ v < t)},
         Small(c) => pr.phys_pages <= MAX_PHYS_PAGES
  PROVE  LoopOK(c, pr, k)
BY DEF LoopOK, Stage

\* LoopOK of a fork that has copied nothing yet.
LEMMA LoopFork ==
  ASSUME NEW c, NEW pr, NEW k, k.pc = "copy", k.a = 0, k.lim = c.sz, c.sz \in Nat,
         Mapped(pr) = Below(c.sz), Text \in pr.PTE_P,
         Small(c) => pr.phys_pages <= MAX_PHYS_PAGES
  PROVE  LoopOK(c, pr, k)
BY DEF LoopOK, Stage

\* After an eviction the kernel goes on with what it needed a frame for.
LEMMA LoopEvicted ==
  ASSUME NEW c, NEW pr, NEW q, NEW k, NEW m, LoopOK(c, pr, k), k.pc = "swapout",
         k.then \in {"swapin", "alloc"}, m.pc = k.then, m.a = k.a, m.lim = k.lim,
         m.ret = k.ret, Mapped(q) = Mapped(pr), pr.PTE_PG \subseteq q.PTE_PG,
         Small(c) => q.phys_pages < MAX_PHYS_PAGES /\ q.phys_pages <= MAX_PHYS_PAGES
  PROVE  LoopOK(c, q, m)
<1>1. CASE k.then = "swapin"
  BY <1>1 DEF LoopOK, Stage
<1>2. CASE k.then = "alloc"
  BY <1>2 DEF LoopOK, Stage
<1> QED BY <1>1, <1>2

\* The successor of a resident page in the list is resident.
LEMMA NextResident ==
  ASSUME NEW pr \in PageRec, RecOK(pr), NEW i \in pr.on_phys
  PROVE  pr.nextp[i] \in pr.on_phys /\ pr.nextp[i] \in Slot
BY DEF RecOK, RingOK, Resident, PageRec

\* The process takes a step of a kernel loop that only changes the kernel's
\* local variables.
LEMMA KernStep ==
  ASSUME Inv, NEW p \in Proc, proc[p].state = "RUNNING", kern[p].pc # "copy",
         RecOK(pg[p]), NEW k \in KernRec, k.pc # "copy", LoopOK(proc[p], pg[p], k),
         kern' = [kern EXCEPT ![p] = k], UNCHANGED <<proc, pg, mem, free, panic>>
  PROVE  Inv'
<1>1. LocalOK(proc[p], pg[p], k)
  BY RecAddr, Same DEF LocalOK
<1> QED BY <1>1, Same, LocalStep, Zenon

\* Load, Store and SysBuffer: the accessed bit of a page and its content.
LEMMA ReferenceKeeps ==
  ASSUME Inv, NEW p \in Proc, NEW v \in Vpn, User(p),
         SetPage(p, [pg[p] EXCEPT !.PTE_A = @ \cup {v}]),
         mem' \in [Frame -> Data], UNCHANGED <<proc, kern, free, panic>>
  PROVE  Inv'
<1> DEFINE A == pg[p].PTE_A \cup {v}
           pr == [pg[p] EXCEPT !.PTE_A = A]
<1>1. A \in SUBSET Vpn /\ LocalOK(proc[p], pg[p], kern[p])
  BY Same DEF PageRec, Inv
<1>2. pr \in PageRec /\ LocalOK(proc[p], pr, kern[p])
  <2>1. pg[p] \in PageRec
    BY Same
  <2>2. SameButBits(pr, pg[p])
    BY <1>1, <2>1, Bits, ZenonT(60)
  <2> HIDE DEF pr
  <2> QED BY <1>1, <2>1, <2>2, BitsKeep DEF SameButBits
<1>3. pg' = [pg EXCEPT ![p] = pr]
  BY DEF SetPage
<1>4. proc' = [proc EXCEPT ![p] = proc[p]] /\ kern' = [kern EXCEPT ![p] = kern[p]]
  BY Same
<1>5. /\ proc[p] \in ProcRec /\ kern[p] \in KernRec /\ free' \subseteq Frame /\ panic' = panic
      /\ proc[p].state # "EMBRYO" /\ kern[p].pc # "copy"
  BY Same, InUser
<1> HIDE DEF pr
<1> QED BY <1>2, <1>3, <1>4, <1>5, LocalStep, Zenon

\* Load keeps the invariant.
LEMMA LoadKeeps ==
  ASSUME Inv, NEW p \in Proc, NEW v \in Vpn, Load(p, v)
  PROVE  Inv'
BY ReferenceKeeps, Same DEF Load

\* Store keeps the invariant.
LEMMA StoreKeeps ==
  ASSUME Inv, NEW p \in Proc, NEW v \in Vpn, NEW d \in Data, Store(p, v, d)
  PROVE  Inv'
<1>1. mem' \in [Frame -> Data]
  BY Same, ZenonT(60) DEF Store
<1> QED BY <1>1, ReferenceKeeps DEF Store

\* A system call that writes a user buffer keeps the invariant.
LEMMA SysBufferKeeps ==
  ASSUME Inv, NEW p \in Proc, NEW v \in Vpn, NEW d \in Data, SysBuffer(p, v, d)
  PROVE  Inv'
<1>1. CASE v \notin pg[p].PTE_P
  <2>1. "trap" \in Messages \ MetadataPanics
    BY DEF Messages, MetadataPanics
  <2>2. Crash("trap")
    BY <1>1 DEF SysBuffer
  <2> QED BY <2>1, <2>2, CrashKeeps
<1>2. CASE v \in pg[p].PTE_P
  <2>1. mem' \in [Frame -> Data]
    BY <1>2, Same DEF SysBuffer
  <2> QED BY <1>2, <2>1, ReferenceKeeps DEF SysBuffer, Syscall
<1> QED BY <1>1, <1>2

\* Handle_pgflt up to its call of free_page keeps the invariant: when it calls
\* free_page there is a page to walk to.
LEMMA PageFaultKeeps ==
  ASSUME Inv, NEW p \in Proc, NEW v \in Vpn, PageFault(p, v)
  PROVE  Inv'
<1>0. /\ User(p) /\ RecOK(pg[p]) /\ LoopOK(proc[p], pg[p], kern[p])
      /\ Mapped(pg[p]) = {} \/ Mapped(pg[p]) = Below(proc[p].sz)
      /\ proc[p].state # "EMBRYO" /\ kern[p].pc # "copy"
      /\ LocalOK(proc[p], pg[p], kern[p])
  BY InUser, ZenonT(60) DEF PageFault, Inv
<1>1. CASE v \in pg[p].PTE_P
  <2>1. "page fault present" \in Messages \ MetadataPanics
    BY DEF Messages, MetadataPanics
  <2>2. Crash("page fault present")
    BY <1>1, ZenonT(60) DEF PageFault
  <2> QED BY <2>1, <2>2, CrashKeeps, ZenonT(60)
<1>2. CASE v \notin pg[p].PTE_P /\ v \notin pg[p].PTE_PG
  <2> DEFINE c == [proc[p] EXCEPT !.killed = TRUE]
  <2>1. proc' = [proc EXCEPT ![p] = c] /\ UNCHANGED <<pg, kern, mem, free, panic>>
    BY <1>2 DEF PageFault
  <2>2. c \in ProcRec /\ c.killed /\ c.state = proc[p].state
    BY Same, Zenon DEF ProcRec
  <2>3. LocalOK(c, pg[p], kern[p])
    BY <1>0, <2>2, Zenon DEF LocalOK, User
  <2> HIDE DEF c
  <2> QED BY <1>0, <2>1, <2>2, <2>3, Same, LocalStep, Zenon
<1>3. CASE v \notin pg[p].PTE_P /\ v \in pg[p].PTE_PG
  <2> DEFINE full == pg[p].phys_pages = MAX_PHYS_PAGES
             k == IF full
                  THEN [Idle EXCEPT !.pc = "scan", !.cur = pg[p].headp,
                                    !.a = v, !.then = "swapin"]
                  ELSE [Idle EXCEPT !.pc = "swapin", !.a = v]
  <2>1. kern' = [kern EXCEPT ![p] = k] /\ UNCHANGED <<proc, pg, mem, free, panic>>
    BY <1>3 DEF PageFault, Goto
  <2>0. pg[p] \in PageRec
    BY Same
  <2>2. pg[p].headp \in Slot \cup {-1} /\ v \in 0 .. NVPN /\ pg[p].phys_pages \in Int
    BY <2>0, SizesAssumption DEF PageRec, Vpn
  <2>3. k \in KernRec /\ k.pc # "copy"
    BY <2>2, IdleType, ZenonT(60) DEF KernRec, Idle, PC
  <2>4. full => pg[p].headp \in pg[p].on_phys /\ pg[p].phys_pages >= MAX_PHYS_PAGES
    BY <1>0, Same, HeadExists, SizesAssumption
  <2>5. Small(proc[p]) => pg[p].phys_pages <= MAX_PHYS_PAGES
    BY <1>0, LoopFits, Zenon DEF User
  <2>6. LoopOK(proc[p], pg[p], k)
    <3>1. CASE full
      BY <1>0, <1>3, <2>4, <2>5, <3>1, Zenon DEF LoopOK, Stage, Idle
    <3>2. CASE ~full
      <4>1. Small(proc[p]) => pg[p].phys_pages < MAX_PHYS_PAGES
        BY <2>2, <2>5, <3>2, SizesAssumption
      <4> QED BY <1>0, <1>3, <2>5, <3>2, <4>1 DEF LoopOK, Stage, Idle
    <3> QED BY <3>1, <3>2
  <2>7. LocalOK(proc[p], pg[p], k)
    BY <1>0, <2>6, ZenonT(60) DEF LocalOK, User
  <2> HIDE DEF k
  <2> QED BY <1>0, <2>1, <2>3, <2>7, Same, LocalStep, ZenonT(60)
<1> QED BY <1>1, <1>2, <1>3

\* A turn of get_page_to_swap's loop stays on the list, so panic("page on phys")
\* is not reached.
LEMMA ScanKeeps ==
  ASSUME Inv, NEW p \in Proc, Scan(p)
  PROVE  Inv'
<1> DEFINE i == kern[p].cur
           v == pg[p].pte[i]
           nx == pg[p].nextp[i]
<1>0. /\ RecOK(pg[p]) /\ LoopOK(proc[p], pg[p], kern[p]) /\ AddrOK(pg[p])
      /\ proc[p].state = "RUNNING" /\ kern[p].pc = "scan"
      /\ proc[p] \in ProcRec /\ pg[p] \in PageRec /\ kern[p] \in KernRec
  BY InKernel, ZenonT(60) DEF Scan
<1>1. i \in pg[p].on_phys
  BY <1>0, LoopVictim
<1>2. nx \in pg[p].on_phys /\ nx \in Slot
  BY <1>0, <1>1, NextResident
<1>3. CASE v \notin pg[p].PTE_A
  <2> DEFINE k == [kern[p] EXCEPT !.pc = "swapout"]
  <2>1. kern' = [kern EXCEPT ![p] = k] /\ UNCHANGED <<proc, pg, mem, free, panic>>
    BY <1>1, <1>3 DEF Scan, Goto
  <2>2. k \in KernRec /\ k.pc = "swapout"
    BY <1>0 DEF KernRec, PC
  <2>3. /\ k.cur = kern[p].cur /\ k.a = kern[p].a /\ k.lim = kern[p].lim
        /\ k.ret = kern[p].ret /\ k.then = kern[p].then
    BY <1>0 DEF KernRec
  <2> HIDE DEF k
  <2>4. LoopOK(proc[p], pg[p], k)
    BY <1>0, <1>1, <2>2, <2>3, LoopTurn, Zenon
  <2>5. LocalOK(proc[p], pg[p], k)
    BY <1>0, <2>4 DEF LocalOK
  <2> QED BY <1>0, <2>1, <2>2, <2>5, Same, LocalStep, ZenonT(60)
<1>4. CASE v \in pg[p].PTE_A
  <2> DEFINE A == pg[p].PTE_A \ {v}
             pr == [pg[p] EXCEPT !.PTE_A = A]
             pc2 == IF nx = pg[p].headp THEN "swapout" ELSE kern[p].pc
             k == [kern[p] EXCEPT !.cur = nx, !.pc = pc2]
  <2>1. /\ pg' = [pg EXCEPT ![p] = pr] /\ kern' = [kern EXCEPT ![p] = k]
        /\ UNCHANGED <<proc, mem, free, panic>>
    BY <1>1, <1>4 DEF Scan, Goto, SetPage
  <2>2. k \in KernRec /\ k.pc \in {"scan", "swapout"}
    BY <1>0, <1>2, Zenon DEF KernRec, PC
  <2>3. /\ k.cur = nx /\ k.a = kern[p].a /\ k.lim = kern[p].lim
        /\ k.ret = kern[p].ret /\ k.then = kern[p].then
    BY <1>0 DEF KernRec
  <2>4. A \in SUBSET Vpn
    BY <1>0 DEF PageRec
  <2>5. SameButBits(pr, pg[p])
    BY <1>0, <2>4, Bits, ZenonT(60)
  <2> HIDE DEF k, nx, pr
  <2>6. LoopOK(proc[p], pg[p], k)
    BY <1>0, <1>2, <2>2, <2>3, LoopTurn, Zenon
  <2>7. LocalOK(proc[p], pg[p], k)
    BY <1>0, <2>6 DEF LocalOK
  <2>8. LocalOK(proc[p], pr, k) /\ pr \in PageRec
    BY <1>0, <2>5, <2>7, BitsKeep, Zenon DEF SameButBits
  <2> QED BY <1>0, <2>1, <2>2, <2>8, Same, LocalStep, Zenon
<1> QED BY <1>3, <1>4

\* The rest of free_page keeps the invariant: there is a free offset because the
\* process has a resident page.
LEMMA SwapOutStep ==
  ASSUME Inv, NEW p \in Proc, SwapOut(p)
  PROVE  Inv'
<1> DEFINE v == pg[p].pte[kern[p].cur]
           f == pg[p].PTE_ADDR[v]
           pr == swap_to_file(pg[p], v, mem[f])
           k == [kern[p] EXCEPT !.pc = kern[p].then, !.then = "user", !.cur = 0]
<1>0. /\ RecOK(pg[p]) /\ LoopOK(proc[p], pg[p], kern[p]) /\ AddrOK(pg[p])
      /\ proc[p].state = "RUNNING" /\ kern[p].pc = "swapout"
      /\ proc[p] \in ProcRec /\ pg[p] \in PageRec /\ kern[p] \in KernRec
  BY InKernel, ZenonT(60) DEF SwapOut
<1>1. v \in pg[p].PTE_P /\ f \in Frame
  <2> HIDE DEF f
  <2>1. kern[p].cur \in pg[p].on_phys
    BY <1>0, LoopVictim
  <2>2. v \in pg[p].PTE_P
    BY <1>0, <2>1 DEF RecOK, MetaOK, Resident
  <2> HIDE DEF v
  <2> QED BY <1>0, <2>2 DEF AddrOK, f
<1>2. pg[p].phys_pages >= MAX_PHYS_PAGES /\ pg[p].phys_pages \in Int
  <2>1. pg[p].phys_pages >= MAX_PHYS_PAGES
    BY <1>0, LoopVictim
  <2> QED BY <1>0, <2>1 DEF PageRec
<1>3. get_offset_ind(pg[p]) # -1
  BY <1>0, <1>2, OffsetLeft, ZenonT(60)
<1>4. /\ pg' = [pg EXCEPT ![p] = pr] /\ kfree({f}) /\ kern' = [kern EXCEPT ![p] = k]
      /\ UNCHANGED <<proc, panic>>
  BY <1>3, ZenonT(60) DEF SwapOut, SetPage, Goto
<1>5. mem[f] \in Data
  <2> HIDE DEF f, v
  <2>1. mem \in [Frame -> Data]
    BY Same
  <2> QED BY <1>1, <2>1
<1>6. /\ pr \in PageRec /\ RecOK(pr) /\ Mapped(pr) = Mapped(pg[p])
      /\ pg[p].PTE_PG \subseteq pr.PTE_PG /\ pr.phys_pages = pg[p].phys_pages - 1
  BY <1>0, <1>1, <1>3, <1>5, SwapOutKeeps, ZenonT(60)
<1>7. kern[p].then \in {"swapin", "alloc"}
  <2>1. kern[p].then # "user"
    BY <1>0, LoopVictim
  <2> QED BY <1>0, <2>1 DEF KernRec
<1>8. /\ k \in KernRec /\ k.pc = kern[p].then /\ k.a = kern[p].a /\ k.lim = kern[p].lim
      /\ k.ret = kern[p].ret
  BY <1>0, <1>7, Sizes, ZenonT(60) DEF KernRec, PC
<1>9. mem' \in [Frame -> Data] /\ free' \subseteq Frame
  <2> HIDE DEF f, v, pr, k
  <2>1. {f} \in SUBSET Frame
    BY <1>1
  <2> QED BY <1>4, <2>1, MemoryTypes, Zenon
<1> HIDE DEF pr, k
<1>10. Small(proc[p]) => pr.phys_pages < MAX_PHYS_PAGES /\ pr.phys_pages <= MAX_PHYS_PAGES
  <2>1. Small(proc[p]) => pg[p].phys_pages <= MAX_PHYS_PAGES
    BY <1>0, LoopFits
  <2> QED BY <1>2, <1>6, <2>1, SizesAssumption
<1>11. LoopOK(proc[p], pr, k)
  BY <1>0, <1>6, <1>7, <1>8, <1>10, LoopEvicted, Zenon
<1>12. LocalOK(proc[p], pr, k)
  BY <1>0, <1>6, <1>11, RecAddr DEF LocalOK
<1> QED BY <1>0, <1>4, <1>6, <1>7, <1>8, <1>9, <1>12, Same, LocalStep, ZenonT(60)

-----------------------------------------------------------------------------
-----------------------------------------------------------------------------
\* What readFromSwapFile reads is the contents of a page.
LEMMA ReadsData ==
  ASSUME NEW pr, NEW o \in SwapSlot, pr.swap \in [SwapSlot -> Data]
  PROVE  readFromSwapFile(pr, o) \in Data
BY ValuesAssumption DEF readFromSwapFile

\* The rest of handle_pgflt keeps the invariant.
LEMMA SwapInStep ==
  ASSUME Inv, NEW p \in Proc, SwapIn(p)
  PROVE  Inv'
<1> DEFINE v == kern[p].a
           i == find_page_ind(pg[p], v)
<1>0. /\ RecOK(pg[p]) /\ LoopOK(proc[p], pg[p], kern[p]) /\ AddrOK(pg[p])
      /\ proc[p].state = "RUNNING" /\ kern[p].pc = "swapin"
      /\ proc[p] \in ProcRec /\ pg[p] \in PageRec /\ kern[p] \in KernRec
  BY InKernel, ZenonT(60) DEF SwapIn
<1>1. /\ v \in pg[p].PTE_PG /\ v \in Vpn /\ pg[p].phys_pages \in Int
      /\ Mapped(pg[p]) = {} \/ Mapped(pg[p]) = Below(proc[p].sz)
      /\ Small(proc[p]) => pg[p].phys_pages < MAX_PHYS_PAGES
  BY <1>0 DEF LoopOK, Stage, PageRec
<1>2. CASE pg[p].headp = -1
  <2>1. "pages[-1]" \in Messages \ MetadataPanics
    BY DEF Messages, MetadataPanics
  <2>2. Crash("pages[-1]")
    BY <1>2 DEF SwapIn
  <2> QED BY <2>1, <2>2, CrashKeeps
<1>3. CASE pg[p].headp # -1
  <2>1. i \in Swapped(pg[p]) /\ i \in Slot
    BY <1>0, <1>1, FindPage, SMTT(60) DEF RecOK, Swapped, PageRec
  <2>2. free_offset_ind(pg[p]) # -1
    BY <1>0, <2>1, FreeOffsetFinds, Sizes, Zenon DEF RecOK
  <2>3. PICK f \in free :
          /\ SetPage(p, swap_from_file(mappages(pg[p], v, f), v))
          /\ Alloc(f, readFromSwapFile(pg[p], pg[p].offset[i]))
          /\ Goto(p, Idle)
          /\ UNCHANGED <<proc, panic>>
    BY <1>3, <2>2 DEF SwapIn
  <2> DEFINE pr == swap_from_file(mappages(pg[p], v, f), v)
             d == readFromSwapFile(pg[p], pg[p].offset[i])
  <2>4. f \in Frame
    BY Same
  <2>5. /\ pr \in PageRec /\ RecOK(pr) /\ Mapped(pr) = Mapped(pg[p])
        /\ pr.phys_pages = pg[p].phys_pages + 1
    BY <1>0, <1>1, <1>3, <2>4, SwapInKeeps
  <2>6. d \in Data
    <3>1. pg[p].offset[i] \in SwapSlot /\ pg[p].swap \in [SwapSlot -> Data]
      BY <1>0, <2>1, FreeOffsetFinds, Zenon DEF RecOK, PageRec
    <3> HIDE DEF i
    <3> QED BY <3>1, ReadsData, Zenon
  <2>7. mem' \in [Frame -> Data] /\ free' \subseteq Frame
    BY <2>3, <2>4, <2>6, MemoryTypes
  <2>8. pg' = [pg EXCEPT ![p] = pr] /\ kern' = [kern EXCEPT ![p] = Idle]
    BY <2>3 DEF SetPage, Goto
  <2> HIDE DEF pr
  <2>9. Small(proc[p]) => pr.phys_pages <= MAX_PHYS_PAGES
    BY <1>1, <2>5, SizesAssumption
  <2>10. proc' = [proc EXCEPT ![p] = proc[p]] /\ panic' = panic
    BY <2>3, Same
  <2>11. Mapped(pr) = {} \/ Mapped(pr) = Below(proc[p].sz)
    BY <1>1, <2>5
  <2> QED BY <1>0, <2>5, <2>7, <2>8, <2>9, <2>10, <2>11, RecAddr, BackToUser, Zenon
<1> QED BY <1>2, <1>3

\* Handle_pgflt's failure to allocate keeps the invariant.
LEMMA SwapInNoMemoryKeeps ==
  ASSUME Inv, NEW p \in Proc, SwapInNoMemory(p)
  PROVE  Inv'
<1>0. /\ RecOK(pg[p]) /\ LoopOK(proc[p], pg[p], kern[p]) /\ AddrOK(pg[p])
      /\ proc[p].state = "RUNNING" /\ kern[p].pc = "swapin"
      /\ proc[p] \in ProcRec /\ pg[p] \in PageRec /\ kern[p] \in KernRec
  BY InKernel DEF SwapInNoMemory
<1>1. /\ Mapped(pg[p]) = {} \/ Mapped(pg[p]) = Below(proc[p].sz)
      /\ Small(proc[p]) => pg[p].phys_pages <= MAX_PHYS_PAGES
  BY <1>0 DEF LoopOK, Stage
<1>2. kern' = [kern EXCEPT ![p] = Idle] /\ UNCHANGED <<proc, pg, mem, free, panic>>
  BY DEF SwapInNoMemory, Goto
<1> QED BY <1>0, <1>1, <1>2, Same, BackToUser, ZenonT(60)

\* Growproc's call of allocuvm keeps the invariant.
LEMMA SbrkKeeps ==
  ASSUME Inv, NEW p \in Proc, NEW n \in Nat \ {0}, Sbrk(p, n)
  PROVE  Inv'
<1> DEFINE top == proc[p].sz + n
           k == [Idle EXCEPT !.pc = "grow", !.a = proc[p].sz, !.lim = top, !.ret = top]
<1>1. /\ RecOK(pg[p]) /\ LoopOK(proc[p], pg[p], kern[p])
      /\ proc[p].state = "RUNNING" /\ kern[p].pc # "copy"
      /\ Mapped(pg[p]) = Below(proc[p].sz) /\ 0 < proc[p].sz
  BY InUser, Zenon DEF Sbrk, Syscall, User
<1>2. proc[p].sz \in 0 .. NVPN
  BY Same DEF ProcRec
<1>3. top \in 0 .. NVPN /\ proc[p].sz <= top
  BY <1>2, SizesAssumption DEF Sbrk
<1>4. kern' = [kern EXCEPT ![p] = k] /\ UNCHANGED <<proc, pg, mem, free, panic>>
  BY DEF Sbrk, Goto
<1> HIDE DEF top
<1>5. /\ k \in KernRec /\ k.pc = "grow" /\ k.a = proc[p].sz /\ k.lim = top /\ k.ret = top
  BY <1>2, <1>3, IdleType, ZenonT(60) DEF Idle, KernRec, PC
<1> HIDE DEF k
<1>6. LoopOK(proc[p], pg[p], k)
  <2>1. kern[p].pc # "exec"
    BY Zenon DEF Sbrk, Syscall, User
  <2>2. Small(proc[p]) => pg[p].phys_pages <= MAX_PHYS_PAGES
    BY <1>1, <2>1, LoopFits, Zenon
  <2>3. proc[p].sz <= proc[p].sz
    BY <1>2
  <2> QED BY <1>1, <1>3, <1>5, <2>2, <2>3, LoopGrow, Zenon
<1> QED BY <1>1, <1>4, <1>5, <1>6, KernStep, ZenonT(60)

\* The head of allocuvm's loop keeps the invariant.
LEMMA GrowKeeps ==
  ASSUME Inv, NEW p \in Proc, Grow(p)
  PROVE  Inv'
<1>0. /\ RecOK(pg[p]) /\ LoopOK(proc[p], pg[p], kern[p]) /\ AddrOK(pg[p])
      /\ proc[p].state = "RUNNING" /\ kern[p].pc = "grow"
      /\ proc[p] \in ProcRec /\ pg[p] \in PageRec /\ kern[p] \in KernRec
  BY InKernel DEF Grow
<1>1. /\ Mapped(pg[p]) = Below(kern[p].a) /\ kern[p].a <= kern[p].lim
      /\ 0 < proc[p].sz /\ proc[p].sz <= kern[p].a /\ kern[p].ret = kern[p].lim
      /\ Small(proc[p]) => pg[p].phys_pages <= MAX_PHYS_PAGES
  BY <1>0 DEF LoopOK, Stage
<1>2. /\ kern[p].a \in 0 .. NVPN /\ kern[p].lim \in 0 .. NVPN /\ pg[p].phys_pages \in Int
      /\ pg[p].headp \in Slot \cup {-1}
  BY <1>0 DEF KernRec, PageRec
<1>3. CASE kern[p].a = kern[p].lim
  <2> DEFINE c == [proc[p] EXCEPT !.sz = kern[p].ret]
  <2>1. /\ proc' = [proc EXCEPT ![p] = c] /\ kern' = [kern EXCEPT ![p] = Idle]
        /\ UNCHANGED <<pg, mem, free, panic>>
    BY <1>3 DEF Grow, Goto
  <2>2. c \in ProcRec /\ c.state = "RUNNING" /\ c.sz = kern[p].ret /\ c.stk = proc[p].stk
    BY <1>0, <1>1, <1>2 DEF ProcRec
  <2> HIDE DEF c
  <2>3. Mapped(pg[p]) = Below(c.sz) /\ (Small(c) => pg[p].phys_pages <= MAX_PHYS_PAGES)
    BY <1>1, <1>3, <2>2 DEF Small
  <2> QED BY <1>0, <1>1, <2>1, <2>2, <2>3, Same, BackToUser, ZenonT(60)
<1>4. CASE kern[p].a # kern[p].lim /\ pg[p].phys_pages >= MAX_PHYS_PAGES
  <2> DEFINE k == [kern[p] EXCEPT !.pc = "scan", !.cur = pg[p].headp, !.then = "alloc"]
  <2>1. kern' = [kern EXCEPT ![p] = k] /\ UNCHANGED <<proc, pg, mem, free, panic>>
    BY <1>4 DEF Grow, Goto
  <2>2. /\ k \in KernRec /\ k.pc = "scan" /\ k.cur = pg[p].headp /\ k.then = "alloc"
        /\ k.a = kern[p].a /\ k.lim = kern[p].lim /\ k.ret = kern[p].ret
    BY <1>0, <1>2, ZenonT(60) DEF KernRec, PC
  <2>3. pg[p].headp \in pg[p].on_phys
    BY <1>0, <1>4, HeadExists
  <2>4. kern[p].a < kern[p].lim
    BY <1>1, <1>2, <1>4
  <2> HIDE DEF k
  <2>5. LoopOK(proc[p], pg[p], k)
    BY <1>1, <1>4, <2>2, <2>3, <2>4 DEF LoopOK, Stage
  <2> QED BY <1>0, <2>1, <2>2, <2>5, KernStep, Zenon
<1>5. CASE kern[p].a # kern[p].lim /\ ~(pg[p].phys_pages >= MAX_PHYS_PAGES)
  <2> DEFINE k == [kern[p] EXCEPT !.pc = "alloc"]
  <2>1. kern' = [kern EXCEPT ![p] = k] /\ UNCHANGED <<proc, pg, mem, free, panic>>
    BY <1>5 DEF Grow, Goto
  <2>2. /\ k \in KernRec /\ k.pc = "alloc"
        /\ k.a = kern[p].a /\ k.lim = kern[p].lim /\ k.ret = kern[p].ret
    BY <1>0 DEF KernRec, PC
  <2>3. kern[p].a < kern[p].lim /\ pg[p].phys_pages < MAX_PHYS_PAGES
    BY <1>1, <1>2, <1>5, SizesAssumption
  <2> HIDE DEF k
  <2>4. LoopOK(proc[p], pg[p], k)
    BY <1>1, <2>2, <2>3 DEF LoopOK, Stage
  <2> QED BY <1>0, <2>1, <2>2, <2>4, KernStep, ZenonT(60)
<1> QED BY <1>3, <1>4, <1>5

\* The body of allocuvm's loop keeps the invariant: add_page finds a free slot.
LEMMA AllocPageKeeps ==
  ASSUME Inv, NEW p \in Proc, AllocPage(p)
  PROVE  Inv'
<1> DEFINE v == kern[p].a
<1>0. /\ RecOK(pg[p]) /\ LoopOK(proc[p], pg[p], kern[p]) /\ AddrOK(pg[p])
      /\ proc[p].state = "RUNNING" /\ kern[p].pc = "alloc"
      /\ proc[p] \in ProcRec /\ pg[p] \in PageRec /\ kern[p] \in KernRec
  BY InKernel, ZenonT(60) DEF AllocPage
<1>1. /\ Mapped(pg[p]) = Below(v) /\ v < kern[p].lim
      /\ 0 < proc[p].sz /\ proc[p].sz <= v /\ kern[p].ret = kern[p].lim
      /\ Small(proc[p]) => pg[p].phys_pages < MAX_PHYS_PAGES
  BY <1>0 DEF LoopOK, Stage
<1>2. /\ v \in 0 .. NVPN /\ kern[p].lim \in 0 .. NVPN /\ pg[p].phys_pages \in Int
      /\ proc[p].sz \in 0 .. NVPN
  <2>1. v \in 0 .. NVPN /\ kern[p].lim \in 0 .. NVPN
    BY <1>0 DEF KernRec
  <2>2. pg[p].phys_pages \in Int
    BY <1>0 DEF PageRec
  <2>3. proc[p].sz \in 0 .. NVPN
    BY <1>0 DEF ProcRec
  <2> QED BY <2>1, <2>2, <2>3, Zenon
<1>3. v \in Vpn /\ v \notin Mapped(pg[p]) /\ v + 1 \in 0 .. NVPN /\ v + 1 <= kern[p].lim
  BY <1>1, <1>2, SizesAssumption DEF Vpn, Below
<1>4. find_page_ind(pg[p], v) = -1
  BY <1>0, <1>3, FindPage DEF RecOK, Mapped
<1>5. PICK f \in free :
        /\ Alloc(f, Zero)
        /\ SetPage(p, add_page(mappages(pg[p], v, f), v))
        /\ IF find_free_slot(pg[p]) = -1
           THEN /\ proc' = [proc EXCEPT ![p].killed = TRUE]
                /\ Goto(p, Idle)
           ELSE /\ Goto(p, [kern[p] EXCEPT !.pc = "grow", !.a = v + 1])
                /\ UNCHANGED proc
        /\ UNCHANGED panic
  BY <1>4 DEF AllocPage
<1> DEFINE pr == add_page(mappages(pg[p], v, f), v)
<1>6. f \in Frame
  BY Same
<1>7. mem' \in [Frame -> Data] /\ free' \subseteq Frame
  BY <1>5, <1>6, MemoryTypes, ValuesAssumption
<1>8. CASE find_free_slot(pg[p]) = -1
  <2> DEFINE c == [proc[p] EXCEPT !.killed = TRUE]
  <2>1. /\ proc' = [proc EXCEPT ![p] = c] /\ kern' = [kern EXCEPT ![p] = Idle]
        /\ pg' = [pg EXCEPT ![p] = pr] /\ panic' = panic
    BY <1>5, <1>8 DEF Goto, SetPage
  <2>2. c \in ProcRec /\ c.state = "RUNNING" /\ c.killed
    BY <1>0, ZenonT(60) DEF ProcRec
  <2>3. /\ pr \in PageRec /\ pr.PTE_P = pg[p].PTE_P \cup {v}
        /\ pr.PTE_ADDR = [pg[p].PTE_ADDR EXCEPT ![v] = f]
    BY <1>0, <1>3, <1>6, <1>8, AddFullType
  <2> HIDE DEF c, pr
  <2>4. AddrOK(pr)
    <3>1. pg[p].PTE_ADDR \in [Vpn -> Frame \cup {NoFrame}] /\ pg[p].PTE_P \subseteq Vpn
      BY <1>0 DEF PageRec
    <3> QED BY <1>0, <1>3, <1>6, <2>3, <3>1, SMTT(60) DEF AddrOK
  <2> QED BY <1>0, <1>7, <2>1, <2>2, <2>3, <2>4, BackToUser, Zenon
<1>9. CASE find_free_slot(pg[p]) # -1
  <2> DEFINE k == [kern[p] EXCEPT !.pc = "grow", !.a = v + 1]
  <2>1. /\ kern' = [kern EXCEPT ![p] = k] /\ pg' = [pg EXCEPT ![p] = pr]
        /\ UNCHANGED <<proc, panic>>
    BY <1>5, <1>9 DEF Goto, SetPage
  <2>2. /\ k \in KernRec /\ k.pc = "grow" /\ k.a = v + 1 /\ k.lim = kern[p].lim
        /\ k.ret = kern[p].ret
    BY <1>0, <1>3, ZenonT(60) DEF KernRec, PC
  <2>3. /\ pr \in PageRec /\ RecOK(pr) /\ Mapped(pr) = Mapped(pg[p]) \cup {v}
        /\ pr.phys_pages = pg[p].phys_pages + 1
    BY <1>0, <1>3, <1>6, <1>9, AddKeeps
  <2> HIDE DEF k, pr
  <2>4. Mapped(pr) = Below(v + 1)
    BY <1>1, <1>2, <1>3, <2>3, SMTT(60) DEF Below, Vpn
  <2>5. LoopOK(proc[p], pr, k)
    BY <1>1, <1>2, <1>3, <2>2, <2>3, <2>4, SizesAssumption DEF LoopOK, Stage
  <2>6. LocalOK(proc[p], pr, k)
    BY <1>0, <2>3, <2>5, RecAddr DEF LocalOK
  <2> QED BY <1>0, <1>7, <2>1, <2>2, <2>3, <2>6, Same, LocalStep, Zenon
<1> QED BY <1>8, <1>9

\* Allocuvm's failure hands the pages it added to deallocuvm.
LEMMA AllocNoMemoryKeeps ==
  ASSUME Inv, NEW p \in Proc, AllocNoMemory(p)
  PROVE  Inv'
<1> DEFINE k == [kern[p] EXCEPT !.pc = "dealloc", !.a = proc[p].sz, !.ret = proc[p].sz]
<1>0. /\ RecOK(pg[p]) /\ LoopOK(proc[p], pg[p], kern[p]) /\ AddrOK(pg[p])
      /\ proc[p].state = "RUNNING" /\ kern[p].pc = "alloc"
      /\ proc[p] \in ProcRec /\ pg[p] \in PageRec /\ kern[p] \in KernRec
  BY InKernel DEF AllocNoMemory
<1>1. /\ Mapped(pg[p]) = Below(kern[p].a) /\ kern[p].a < kern[p].lim
      /\ proc[p].sz <= kern[p].a
      /\ Small(proc[p]) => pg[p].phys_pages <= MAX_PHYS_PAGES
  BY <1>0 DEF LoopOK, Stage
<1>2. /\ kern[p].a \in 0 .. NVPN /\ kern[p].lim \in 0 .. NVPN /\ proc[p].sz \in 0 .. NVPN
  BY <1>0 DEF KernRec, ProcRec
<1>3. kern' = [kern EXCEPT ![p] = k] /\ UNCHANGED <<proc, pg, mem, free, panic>>
  BY DEF AllocNoMemory, Goto
<1>4. /\ k \in KernRec /\ k.pc = "dealloc" /\ k.a = proc[p].sz /\ k.ret = proc[p].sz
      /\ k.lim = kern[p].lim
  BY <1>0, <1>2, ZenonT(60) DEF KernRec, PC
<1>5. kern[p].a \in 0 .. kern[p].lim /\ proc[p].sz <= kern[p].lim
  BY <1>1, <1>2
<1>6. Below(kern[p].a) = {v \in Vpn : v < proc[p].sz \/ (proc[p].sz <= v /\ v < kern[p].a)}
  BY <1>1, <1>2 DEF Below, Vpn
<1> HIDE DEF k
<1>7. \E b \in {0, k.ret}, t \in 0 .. k.lim :
        /\ b <= k.a /\ k.a <= k.lim
        /\ Mapped(pg[p]) = {v \in Vpn : v < b \/ (k.a <= v /\ v < t)}
  BY <1>1, <1>2, <1>4, <1>5, <1>6
<1>8. LoopOK(proc[p], pg[p], k)
  BY <1>1, <1>4, <1>7 DEF LoopOK, Stage
<1> QED BY <1>0, <1>3, <1>4, <1>8, KernStep, Zenon

\* Growproc's call of deallocuvm keeps the invariant.
LEMMA SbrkDownKeeps ==
  ASSUME Inv, NEW p \in Proc, NEW n \in Nat, SbrkDown(p, n)
  PROVE  Inv'
<1> DEFINE newsz == proc[p].sz - n
           ret == IF newsz = 0 THEN proc[p].sz ELSE newsz
           k == [Idle EXCEPT !.pc = "dealloc", !.a = newsz, !.lim = proc[p].sz, !.ret = ret]
<1>1. /\ RecOK(pg[p]) /\ LoopOK(proc[p], pg[p], kern[p])
      /\ proc[p].state = "RUNNING" /\ kern[p].pc # "copy"
      /\ Mapped(pg[p]) = Below(proc[p].sz)
  BY InUser, Zenon DEF SbrkDown, Syscall, User
<1>2. proc[p].sz \in 0 .. NVPN
  BY Same DEF ProcRec
<1>3. newsz \in 0 .. NVPN /\ newsz <= proc[p].sz /\ ret \in 0 .. NVPN
  BY <1>2, SizesAssumption DEF SbrkDown
<1>4. kern' = [kern EXCEPT ![p] = k] /\ UNCHANGED <<proc, pg, mem, free, panic>>
  BY DEF SbrkDown, Goto
<1>5. newsz \in {0, ret}
  OBVIOUS
<1> HIDE DEF newsz, ret
<1>6. /\ k \in KernRec /\ k.pc = "dealloc" /\ k.a = newsz /\ k.lim = proc[p].sz /\ k.ret = ret
  BY <1>2, <1>3, IdleType, ZenonT(60) DEF Idle, KernRec, PC
<1> HIDE DEF k
<1>7. Below(proc[p].sz) = {v \in Vpn : v < newsz \/ (newsz <= v /\ v < proc[p].sz)}
  BY <1>2, <1>3 DEF Below, Vpn
<1>8. \E b \in {0, k.ret}, t \in 0 .. k.lim :
        /\ b <= k.a /\ k.a <= k.lim
        /\ Mapped(pg[p]) = {v \in Vpn : v < b \/ (k.a <= v /\ v < t)}
  BY <1>1, <1>2, <1>3, <1>5, <1>6, <1>7
<1>9. LoopOK(proc[p], pg[p], k)
  <2>1. kern[p].pc # "exec"
    BY Zenon DEF SbrkDown, Syscall, User
  <2>2. Small(proc[p]) => pg[p].phys_pages <= MAX_PHYS_PAGES
    BY <1>1, <2>1, LoopFits, Zenon
  <2> QED BY <1>6, <1>8, <2>2, LoopDealloc, Zenon
<1> QED BY <1>1, <1>4, <1>6, <1>9, KernStep, Zenon

\* A turn of deallocuvm's loop keeps the invariant: remove_page finds the page.
LEMMA DeallocKeeps ==
  ASSUME Inv, NEW p \in Proc, Dealloc(p)
  PROVE  Inv'
<1> DEFINE v == kern[p].a
           f == pg[p].PTE_ADDR[v]
<1>0. /\ RecOK(pg[p]) /\ LoopOK(proc[p], pg[p], kern[p]) /\ AddrOK(pg[p])
      /\ proc[p].state = "RUNNING" /\ kern[p].pc = "dealloc"
      /\ proc[p] \in ProcRec /\ pg[p] \in PageRec /\ kern[p] \in KernRec
  BY InKernel, ZenonT(60) DEF Dealloc
<1>1. Small(proc[p]) => pg[p].phys_pages <= MAX_PHYS_PAGES
  BY <1>0 DEF LoopOK
<1>2. /\ v \in 0 .. NVPN /\ kern[p].lim \in 0 .. NVPN /\ kern[p].ret \in 0 .. NVPN
      /\ pg[p].phys_pages \in Int
  BY <1>0, Zenon DEF KernRec, PageRec
<1>3. PICK b \in {0, kern[p].ret}, t \in 0 .. kern[p].lim :
        /\ b <= v /\ v <= kern[p].lim
        /\ Mapped(pg[p]) = {u \in Vpn : u < b \/ (v <= u /\ u < t)}
  BY <1>0 DEF LoopOK, Stage
<1>4. CASE v = kern[p].lim
  <2> DEFINE c == [proc[p] EXCEPT !.sz = kern[p].ret]
  <2>1. /\ proc' = [proc EXCEPT ![p] = c] /\ kern' = [kern EXCEPT ![p] = Idle]
        /\ UNCHANGED <<pg, mem, free, panic>>
    BY <1>4 DEF Dealloc, Goto
  <2>2. c \in ProcRec /\ c.state = "RUNNING" /\ c.sz = kern[p].ret /\ c.stk = proc[p].stk
    BY <1>0, <1>2 DEF ProcRec
  <2> HIDE DEF c
  <2>3. Mapped(pg[p]) = Below(b)
    BY <1>2, <1>3, <1>4 DEF Below, Vpn
  <2>4. Mapped(pg[p]) = {} \/ Mapped(pg[p]) = Below(c.sz)
    BY <1>3, <2>2, <2>3 DEF Below, Vpn
  <2>5. Small(c) => pg[p].phys_pages <= MAX_PHYS_PAGES
    BY <1>1, <2>2 DEF Small
  <2> QED BY <1>0, <2>1, <2>2, <2>4, <2>5, Same, BackToUser, ZenonT(60)
<1>5. CASE v # kern[p].lim
  <2> DEFINE k == [kern[p] EXCEPT !.a = v + 1]
  <2>1. v \in Vpn /\ v + 1 \in 0 .. NVPN /\ v + 1 <= kern[p].lim /\ b <= v + 1
    BY <1>2, <1>3, <1>5, SizesAssumption DEF Vpn
  <2>2. /\ k \in KernRec /\ k.pc = "dealloc" /\ k.a = v + 1 /\ k.lim = kern[p].lim
        /\ k.ret = kern[p].ret
    BY <1>0, <2>1, SMTT(60) DEF KernRec, PC
  <2>3. ASSUME NEW pr, Mapped(pr) = Mapped(pg[p]) \ {v}, pr.phys_pages <= MAX_PHYS_PAGES \/ ~Small(proc[p])
        PROVE  LoopOK(proc[p], pr, k)
    <3>1. Mapped(pr) = {u \in Vpn : u < b \/ (v + 1 <= u /\ u < t)}
      BY <1>2, <1>3, <2>1, <2>3 DEF Vpn
    <3> HIDE DEF k
    <3>2. \E b2 \in {0, k.ret}, t2 \in 0 .. k.lim :
            /\ b2 <= k.a /\ k.a <= k.lim
            /\ Mapped(pr) = {u \in Vpn : u < b2 \/ (k.a <= u /\ u < t2)}
      BY <1>3, <2>1, <2>2, <3>1
    <3> QED BY <2>2, <2>3, <3>2 DEF LoopOK, Stage
  <2>4. CASE v \notin Mapped(pg[p])
    <3>1. kern' = [kern EXCEPT ![p] = k] /\ UNCHANGED <<proc, pg, mem, free, panic>>
      BY <1>5, <2>4 DEF Dealloc, Goto, Mapped
    <3>2. LoopOK(proc[p], pg[p], k)
      BY <1>1, <2>3, <2>4
    <3> HIDE DEF k
    <3> QED BY <1>0, <2>2, <3>1, <3>2, KernStep, Zenon
  <2>5. CASE v \in Mapped(pg[p])
    <3> DEFINE pr == clear_pte(remove_page(pg[p], v), v)
               S == IF v \in pg[p].PTE_P THEN {f} ELSE {}
    <3>1. find_page_ind(pg[p], v) # -1
      BY <1>0, <2>1, <2>5, FindPage DEF RecOK, Mapped
    <3>2. /\ pg' = [pg EXCEPT ![p] = pr] /\ kfree(S)
          /\ kern' = [kern EXCEPT ![p] = k] /\ UNCHANGED <<proc, panic>>
      BY <1>5, <2>5, <3>1, Zenon DEF Dealloc, Goto, SetPage, Mapped
    <3>3. /\ pr \in PageRec /\ RecOK(pr) /\ Mapped(pr) = Mapped(pg[p]) \ {v}
          /\ pr.phys_pages <= pg[p].phys_pages
      BY <1>0, <2>5, RemoveKeeps, Zenon
    <3>4. S \in SUBSET Frame
      BY <1>0 DEF AddrOK
    <3>5. mem' \in [Frame -> Data] /\ free' \subseteq Frame
      BY <3>2, <3>4, MemoryTypes
    <3> HIDE DEF pr
    <3>6. pr.phys_pages <= MAX_PHYS_PAGES \/ ~Small(proc[p])
      <4>1. pr.phys_pages \in Int
        BY <3>3 DEF PageRec
      <4> QED BY <1>1, <1>2, <3>3, <4>1, SizesAssumption, SMTT(60)
    <3>7. LoopOK(proc[p], pr, k)
      BY <2>3, <3>3, <3>6
    <3> HIDE DEF k
    <3>8. LocalOK(proc[p], pr, k)
      BY <1>0, <3>3, <3>7, RecAddr DEF LocalOK
    <3> QED BY <1>0, <2>2, <3>2, <3>3, <3>5, <3>8, Same, LocalStep, ZenonT(60)
  <2> QED BY <2>4, <2>5
<1> QED BY <1>4, <1>5

-----------------------------------------------------------------------------
\* Exec's init_page_meta starts a record that satisfies the invariant.
LEMMA ExecKeeps ==
  ASSUME Inv, NEW p \in Proc, NEW n \in ExecSizes, Exec(p, n)
  PROVE  Inv'
<1> DEFINE pr == init_page_meta(pg[p].file_size)
           k == [Idle EXCEPT !.pc = "exec", !.lim = n, !.old = Frames(pg[p])]
<1>1. /\ proc[p].state = "RUNNING" /\ kern[p].pc # "copy" /\ AddrOK(pg[p])
      /\ proc[p] \in ProcRec /\ pg[p] \in PageRec
  BY InUser, Same, Zenon DEF Exec, Syscall, User, Inv, LocalOK
<1>2. pg[p].file_size \in 0 .. MAX_SWAP_FILE_SZ
  BY <1>1 DEF PageRec
<1>3. /\ pr \in PageRec /\ RecOK(pr) /\ Mapped(pr) = {}
      /\ pr.taken = {} /\ pr.on_phys = {} /\ pr.PTE_P = {} /\ pr.phys_pages = 0
  BY <1>2, InitKeeps
<1>4. n \in 0 .. NVPN /\ 0 <= n
  BY EnvAssumption, SizesAssumption
<1>5. Frames(pg[p]) \in SUBSET Frame
  BY <1>1 DEF Frames, AddrOK
<1>6. k \in KernRec /\ k.pc = "exec" /\ k.a = 0 /\ k.lim = n
  BY <1>4, <1>5, IdleType, ZenonT(60) DEF Idle, KernRec, PC
<1>7. /\ pg' = [pg EXCEPT ![p] = pr] /\ kern' = [kern EXCEPT ![p] = k]
      /\ UNCHANGED <<proc, mem, free, panic>>
  BY DEF Exec, SetPage, Goto
<1> HIDE DEF pr, k
<1>8. 0 .. 0 - 1 = {} /\ Below(0) = {}
  BY DEF Below, Vpn
<1>9. LoopOK(proc[p], pr, k)
  BY <1>3, <1>4, <1>6, <1>8, SizesAssumption, Zenon DEF LoopOK, Stage
<1>10. LocalOK(proc[p], pr, k)
  BY <1>1, <1>3, <1>9, RecAddr DEF LocalOK
<1> QED BY <1>1, <1>3, <1>6, <1>7, <1>10, Same, LocalStep, ZenonT(60)

\* A new process starts with a record that satisfies the invariant.
LEMMA SpawnKeeps ==
  ASSUME Inv, NEW p \in Proc, NEW n \in SpawnSizes, Spawn(p, n)
  PROVE  Inv'
<1> DEFINE pr == init_page_meta(0)
           k == [Idle EXCEPT !.pc = "exec", !.lim = n]
           c == [proc[p] EXCEPT !.state = "RUNNING"]
<1>1. proc[p].state = "UNUSED" /\ kern[p].pc = "user" /\ proc[p] \in ProcRec
  BY Same, Zenon DEF Spawn, Inv, LocalOK
<1>2. 0 \in 0 .. MAX_SWAP_FILE_SZ
  BY Sizes
<1>3. /\ pr \in PageRec /\ RecOK(pr) /\ Mapped(pr) = {}
      /\ pr.taken = {} /\ pr.on_phys = {} /\ pr.PTE_P = {} /\ pr.phys_pages = 0
  BY <1>2, InitKeeps
<1>4. n \in 0 .. NVPN /\ 0 <= n
  BY EnvAssumption, SizesAssumption
<1>5. c \in ProcRec /\ c.state = "RUNNING"
  BY <1>1 DEF ProcRec
<1>6. k \in KernRec /\ k.pc = "exec" /\ k.a = 0 /\ k.lim = n
  BY <1>4, IdleType, ZenonT(60) DEF Idle, KernRec, PC
<1>7. /\ proc' = [proc EXCEPT ![p] = c] /\ pg' = [pg EXCEPT ![p] = pr]
      /\ kern' = [kern EXCEPT ![p] = k] /\ UNCHANGED <<mem, free, panic>>
  BY Zenon DEF Spawn, SetPage, Goto
<1> HIDE DEF pr, k, c
<1>8. 0 .. 0 - 1 = {} /\ Below(0) = {}
  BY DEF Below, Vpn
<1>9. LoopOK(c, pr, k)
  BY <1>3, <1>4, <1>6, <1>8, SizesAssumption DEF LoopOK, Stage
<1>10. LocalOK(c, pr, k)
  BY <1>3, <1>5, <1>9, RecAddr DEF LocalOK
<1> QED BY <1>1, <1>3, <1>5, <1>6, <1>7, <1>10, Same, LocalStep, ZenonT(60)

\* A page that exec loads goes to the slot of its number, so add_page succeeds.
LEMMA ExecPageKeeps ==
  ASSUME Inv, NEW p \in Proc, ExecPage(p)
  PROVE  Inv'
<1> DEFINE v == kern[p].a
           k == [kern[p] EXCEPT !.a = v + 1]
<1>0. /\ RecOK(pg[p]) /\ LoopOK(proc[p], pg[p], kern[p]) /\ AddrOK(pg[p])
      /\ proc[p].state = "RUNNING" /\ kern[p].pc = "exec"
      /\ proc[p] \in ProcRec /\ pg[p] \in PageRec /\ kern[p] \in KernRec
  BY InKernel DEF ExecPage
<1>1. /\ kern[p].lim \in SpawnSizes \cup ExecSizes
      /\ pg[p].taken = 0 .. v - 1 /\ pg[p].on_phys = pg[p].taken /\ Mapped(pg[p]) = Below(v)
  BY <1>0 DEF LoopOK, Stage
<1>2. v \in 0 .. NVPN /\ v < kern[p].lim /\ kern[p].lim \in 3 .. NVPN
      /\ kern[p].lim <= MAX_TOTAL_PAGES
  BY <1>0, <1>1, EnvAssumption, Zenon DEF KernRec, ExecPage
<1>3. v \in Vpn /\ v \notin Mapped(pg[p]) /\ v + 1 \in 0 .. NVPN /\ v + 1 <= kern[p].lim
      /\ v \in Slot /\ v \in Nat
  <2>1. v \in Nat /\ v < NVPN /\ v < MAX_TOTAL_PAGES /\ v + 1 <= kern[p].lim
    BY <1>2, SizesAssumption
  <2>2. v \in Vpn /\ v \in Slot /\ v + 1 \in 0 .. NVPN
    BY <2>1, SizesAssumption DEF Vpn, Slot
  <2>3. v \notin Mapped(pg[p])
    BY <1>1, <2>1 DEF Below
  <2> QED BY <2>1, <2>2, <2>3
<1>4. find_free_slot(pg[p]) = v
  <2> DEFINE S == Slot \ pg[p].taken
  <2>1. v \in S /\ S \subseteq Nat /\ \A j \in S : v <= j
    BY <1>1, <1>3, SMTT(60) DEF Slot
  <2>2. First(S) \in S /\ First(S) <= v
    BY <2>1, FirstProperty
  <2>3. v <= First(S) /\ First(S) \in Nat
    BY <2>1, <2>2
  <2> HIDE DEF S
  <2>4. First(S) = v
    BY <1>3, <2>2, <2>3
  <2> QED BY <2>4 DEF find_free_slot, S
<1>5. find_free_slot(pg[p]) # -1
  BY <1>3, <1>4
<1>6. PICK f \in free : /\ Alloc(f, Zero)
                        /\ SetPage(p, add_page(mappages(pg[p], v, f), v))
                        /\ Goto(p, k)
  BY DEF ExecPage
<1> DEFINE pr == add_page(mappages(pg[p], v, f), v)
<1>7. f \in Frame
  BY Same
<1>8. mem' \in [Frame -> Data] /\ free' \subseteq Frame
  BY <1>6, <1>7, MemoryTypes, ValuesAssumption
<1>9. /\ pr \in PageRec /\ RecOK(pr) /\ Mapped(pr) = Mapped(pg[p]) \cup {v}
      /\ pr.taken = pg[p].taken \cup {v} /\ pr.on_phys = pg[p].on_phys \cup {v}
  <2>1. /\ pr \in PageRec /\ RecOK(pr) /\ Mapped(pr) = Mapped(pg[p]) \cup {v}
        /\ pr.taken = pg[p].taken \cup {find_free_slot(pg[p])}
        /\ pr.on_phys = pg[p].on_phys \cup {find_free_slot(pg[p])}
    <3> HIDE DEF v
    <3> QED BY <1>0, <1>3, <1>5, <1>7, AddKeeps
  <2> HIDE DEF pr
  <2> QED BY <1>4, <2>1, Zenon
<1>10. /\ kern' = [kern EXCEPT ![p] = k] /\ pg' = [pg EXCEPT ![p] = pr]
       /\ UNCHANGED <<proc, panic>>
  BY <1>6, Zenon DEF Goto, SetPage, ExecPage
<1>11. k \in KernRec /\ k.pc = "exec" /\ k.a = v + 1 /\ k.lim = kern[p].lim
  BY <1>0, <1>3, Zenon DEF KernRec, PC
<1> HIDE DEF pr, k
<1>12. Mapped(pr) = Below(v + 1) /\ pr.taken = 0 .. v + 1 - 1
  BY <1>1, <1>3, <1>9 DEF Below, Vpn
<1>13. pr.phys_pages = v + 1
  <2>1. pr.on_phys = 0 .. v
    BY <1>1, <1>3, <1>9
  <2>2. pr.phys_pages = Cardinality(0 .. v)
    BY <1>9, <2>1, Zenon DEF RecOK, CountOK
  <2>3. 0 \in Int /\ v \in Int /\ ~(0 > v)
    BY <1>3
  <2> HIDE DEF v
  <2>4. Cardinality(0 .. v) = v - 0 + 1
    BY <2>3, FS_Interval
  <2> QED BY <2>2, <2>3, <2>4
<1>14. LoopOK(proc[p], pr, k)
  <2>1. pr.on_phys = pr.taken
    BY <1>1, <1>9
  <2>2. /\ k.lim \in SpawnSizes \cup ExecSizes /\ k.a <= k.lim
        /\ pr.taken = 0 .. k.a - 1 /\ Mapped(pr) = Below(k.a) /\ pr.phys_pages = k.a
    BY <1>1, <1>3, <1>11, <1>12, <1>13
  <2> QED BY <1>11, <2>1, <2>2, LoopExec, Zenon
<1>15. LocalOK(proc[p], pr, k)
  BY <1>0, <1>9, <1>14, RecAddr DEF LocalOK
<1> QED BY <1>0, <1>8, <1>9, <1>10, <1>11, <1>15, Same, LocalStep, ZenonT(60)

\* Exec's commit, with clearpteu on the guard page, keeps the invariant.
LEMMA ExecDoneKeeps ==
  ASSUME Inv, NEW p \in Proc, ExecDone(p)
  PROVE  Inv'
<1> DEFINE n == kern[p].lim
           U == pg[p].PTE_U \ {n - 2}
           pr == [pg[p] EXCEPT !.PTE_U = U]
           c == [proc[p] EXCEPT !.sz = n, !.stk = n - 1]
<1>0. /\ RecOK(pg[p]) /\ LoopOK(proc[p], pg[p], kern[p]) /\ AddrOK(pg[p])
      /\ proc[p].state = "RUNNING" /\ kern[p].pc = "exec"
      /\ proc[p] \in ProcRec /\ pg[p] \in PageRec /\ kern[p] \in KernRec
  BY InKernel DEF ExecDone
<1>1. /\ n \in SpawnSizes \cup ExecSizes /\ Mapped(pg[p]) = Below(n) /\ pg[p].phys_pages = n
  BY <1>0 DEF LoopOK, Stage, ExecDone
<1>2. n \in 3 .. NVPN /\ kern[p].old \in SUBSET Frame
  BY <1>0, <1>1, EnvAssumption DEF KernRec
<1>3. n \in 0 .. NVPN /\ n - 1 \in Vpn /\ U \in SUBSET Vpn
  <2>1. pg[p].PTE_U \in SUBSET Vpn
    BY <1>0 DEF PageRec
  <2>2. n \in 0 .. NVPN /\ n - 1 \in Vpn
    BY <1>2, SizesAssumption DEF Vpn
  <2> QED BY <2>1, <2>2, Zenon
<1>4. SameButBits(pr, pg[p])
  BY <1>0, <1>3, Bits, Zenon
<1>5. c \in ProcRec /\ c.state = "RUNNING" /\ c.sz = n /\ c.stk = n - 1
  BY <1>0, <1>3, Zenon DEF ProcRec
<1>6. /\ proc' = [proc EXCEPT ![p] = c] /\ pg' = [pg EXCEPT ![p] = pr]
      /\ kern' = [kern EXCEPT ![p] = Idle] /\ panic' = panic /\ kfree(kern[p].old)
  <2>1. proc' = [proc EXCEPT ![p].sz = n, ![p].stk = n - 1]
    BY DEF ExecDone
  <2>2. proc' = [proc EXCEPT ![p] = c]
    BY <1>0, <2>1, Same, ZenonT(60) DEF ProcRec
  <2> QED BY <2>2, Zenon DEF ExecDone, SetPage, Goto
<1>7. mem' \in [Frame -> Data] /\ free' \subseteq Frame
  BY <1>2, <1>6, MemoryTypes
<1> HIDE DEF pr, c
<1>8. pr \in PageRec /\ SameMeta(pr, pg[p]) /\ pr.PTE_P = pg[p].PTE_P
      /\ pr.PTE_PG = pg[p].PTE_PG /\ pr.PTE_ADDR = pg[p].PTE_ADDR
  BY <1>4, Zenon DEF SameButBits
<1>9. RecOK(pr)
  BY <1>0, <1>8, SameMetaKeeps, SMTT(60)
<1>10. Mapped(pr) = Below(c.sz) /\ pr.phys_pages = pg[p].phys_pages
  BY <1>1, <1>5, <1>8, SMTT(60) DEF Mapped, SameMeta
<1>11. Small(c) => pr.phys_pages <= MAX_PHYS_PAGES
  BY <1>1, <1>2, <1>5, <1>10, SizesAssumption DEF Small
<1> QED BY <1>0, <1>5, <1>6, <1>7, <1>8, <1>9, <1>10, <1>11, RecAddr, BackToUser, ZenonT(60)

\* A failed exec leaves no record to speak of, and frames that wait can free.
LEMMA ExecFailsKeeps ==
  ASSUME Inv, NEW p \in Proc, ExecFails(p)
  PROVE  Inv'
<1> DEFINE adr == [v \in Vpn |-> NoFrame]
           pr == [pg[p] EXCEPT !.PTE_P = {}, !.PTE_A = {}, !.PTE_U = {}, !.PTE_ADDR = adr]
           k == [Idle EXCEPT !.pc = "failed", !.old = kern[p].old]
<1>0. /\ AddrOK(pg[p]) /\ proc[p].state = "RUNNING" /\ kern[p].pc = "exec"
      /\ proc[p] \in ProcRec /\ pg[p] \in PageRec /\ kern[p] \in KernRec
  BY InKernel DEF ExecFails
<1>1. adr \in [Vpn -> Frame \cup {NoFrame}]
  OBVIOUS
<1> HIDE DEF adr
<1>2. pr \in PageRec /\ pr.PTE_P = {}
  BY <1>0, <1>1, Zenon DEF PageRec
<1>3. k \in KernRec /\ k.pc = "failed"
  BY <1>0, IdleType, ZenonT(60) DEF Idle, KernRec, PC
<1>4. Frames(pg[p]) \in SUBSET Frame
  BY <1>0 DEF Frames, AddrOK
<1>5. /\ pg' = [pg EXCEPT ![p] = pr] /\ kern' = [kern EXCEPT ![p] = k]
      /\ kfree(Frames(pg[p])) /\ UNCHANGED <<proc, panic>>
  BY Zenon DEF ExecFails, SetPage, Goto, adr
<1>6. mem' \in [Frame -> Data] /\ free' \subseteq Frame
  BY <1>4, <1>5, MemoryTypes, Zenon
<1> HIDE DEF pr, k
<1>7. LocalOK(proc[p], pr, k)
  BY <1>0, <1>2, <1>3 DEF LocalOK, AddrOK, Lost
<1> QED BY <1>0, <1>2, <1>3, <1>5, <1>6, <1>7, Same, LocalStep, ZenonT(60)

-----------------------------------------------------------------------------
\* A step of fork: the child's slot q and the parent's local variables change.
LEMMA ForkStep ==
  ASSUME Inv, NEW p \in Proc, NEW q \in Proc, p # q, proc[p].state = "RUNNING",
         kern[q].pc = "user",
         NEW c \in ProcRec, NEW pr \in PageRec, NEW k \in KernRec,
         proc' = [proc EXCEPT ![q] = c], pg' = [pg EXCEPT ![q] = pr],
         kern' = [kern EXCEPT ![p] = k],
         mem' \in [Frame -> Data], free' \subseteq Frame, panic' = panic,
         \A r \in Proc \ {p} : kern[r].pc = "copy" => q \notin kern[r].peer,
         k.pc = "copy" =>
           c.state = "EMBRYO" /\ k.peer = {q} /\ CopyOK(pg[p], pr, k.a),
         LocalOK(proc[p], pg[p], k), LocalOK(c, pr, kern[q])
  PROVE  Inv'
<1>1. TypeOK'
  BY SMTT(60) DEF Inv, TypeOK
<1>2. /\ proc'[q] = c /\ pg'[q] = pr /\ kern'[p] = k
      /\ \A r \in Proc \ {q} : proc'[r] = proc[r] /\ pg'[r] = pg[r]
      /\ \A r \in Proc \ {p} : kern'[r] = kern[r]
  BY SMTT(60) DEF Inv, TypeOK
<1>3. ASSUME NEW r \in Proc PROVE LocalOK(proc'[r], pg'[r], kern'[r])
  <2>1. CASE r = p
    BY <1>2, <2>1, SMTT(60)
  <2>2. CASE r = q
    BY <1>2, <2>2
  <2>3. CASE r # p /\ r # q
    BY <1>2, <2>3, SMTT(60) DEF Inv
  <2> QED BY <2>1, <2>2, <2>3, SMTT(60)
<1>4. \A r \in Proc : kern[r].peer \subseteq Proc
  BY SMTT(60) DEF Inv, TypeOK, KernRec
<1>5. ASSUME NEW r \in Proc, kern'[r].pc = "copy"
      PROVE  /\ \A s \in kern'[r].peer : proc'[s].state = "EMBRYO" /\ CopyOK(pg'[r], pg'[s], kern'[r].a)
             /\ \A s, t \in kern'[r].peer : s = t
  <2>1. CASE r = p
    BY <1>2, <1>5, <2>1, SMTT(60)
  <2>2. CASE r # p
    <3>1. kern'[r] = kern[r] /\ kern[r].pc = "copy" /\ q \notin kern[r].peer /\ r # q
      BY <1>2, <1>5, <2>2, SMTT(60)
    <3>2. pg'[r] = pg[r] /\ \A s \in kern[r].peer : proc'[s] = proc[s] /\ pg'[s] = pg[s]
      BY <1>2, <1>4, <3>1, Zenon
    <3>3. /\ \A s \in kern[r].peer : proc[s].state = "EMBRYO" /\ CopyOK(pg[r], pg[s], kern[r].a)
          /\ \A s, t \in kern[r].peer : s = t
      BY <3>1, SMTT(60) DEF Inv, ForkOK
    <3> QED BY <3>1, <3>2, <3>3, SMTT(60)
  <2> QED BY <2>1, <2>2, SMTT(60)
<1>6. ASSUME NEW r \in Proc, NEW s \in Proc, kern'[r].pc = "copy", kern'[s].pc = "copy", r # s
      PROVE  kern'[r].peer \cap kern'[s].peer = {}
  <2>1. CASE r = p
    BY <1>2, <1>6, <2>1, SMTT(60)
  <2>2. CASE s = p
    BY <1>2, <1>6, <2>2, SMTT(60)
  <2>3. CASE r # p /\ s # p
    BY <1>2, <1>6, <2>3 DEF Inv, ForkOK
  <2> QED BY <2>1, <2>2, <2>3, SMTT(60)
<1>7. ForkOK'
  BY <1>5, <1>6, SMTT(60) DEF ForkOK
<1>8. (\A r \in Proc : LocalOK(proc[r], pg[r], kern[r]))'
  BY <1>3
<1> QED BY <1>1, <1>7, <1>8, Zenon DEF Inv

\* Fork's allocproc starts an empty child that is nobody else's.
LEMMA ForkKeeps ==
  ASSUME Inv, NEW p \in Proc, NEW q \in Proc, Fork(p, q)
  PROVE  Inv'
<1> DEFINE pr == init_page_meta(0)
           c == [proc[q] EXCEPT !.state = "EMBRYO"]
           k == [Idle EXCEPT !.pc = "copy", !.lim = proc[p].sz, !.peer = {q}]
<1>1. /\ RecOK(pg[p]) /\ LoopOK(proc[p], pg[p], kern[p]) /\ proc[p].state = "RUNNING"
      /\ Mapped(pg[p]) = Below(proc[p].sz) /\ kern[p].pc = "user" /\ Text \in pg[p].PTE_P
  BY InUser, Zenon DEF Fork, Syscall, User, Fetched
<1>2. proc[p] \in ProcRec /\ proc[q] \in ProcRec /\ pg[p] \in PageRec
  BY Same
<1>3. proc[p].sz \in 0 .. NVPN
  BY <1>2 DEF ProcRec
<1>4. proc[q].state = "UNUSED" /\ p # q
  BY <1>1 DEF Fork
<1>5. kern[q].pc = "user"
  BY <1>4 DEF Inv, LocalOK
<1>6. c \in ProcRec /\ c.state = "EMBRYO"
  BY <1>2 DEF ProcRec
<1>7. /\ k \in KernRec /\ k.pc = "copy" /\ k.a = 0 /\ k.lim = proc[p].sz /\ k.peer = {q}
  BY <1>3, IdleType, ZenonT(60) DEF Idle, KernRec, PC
<1>8. 0 \in 0 .. MAX_SWAP_FILE_SZ
  BY Sizes
<1>9. pr \in PageRec /\ pr.PTE_P = {} /\ Mapped(pr) = {}
  BY <1>8, InitKeeps
<1>10. \A v \in Vpn : pr.PTE_ADDR[v] = NoFrame
  BY DEF init_page_meta
<1>11. /\ proc' = [proc EXCEPT ![q] = c] /\ pg' = [pg EXCEPT ![q] = pr]
       /\ kern' = [kern EXCEPT ![p] = k] /\ UNCHANGED <<mem, free, panic>>
  BY DEF Fork, SetPage, Goto
<1>12. \A r \in Proc \ {p} : kern[r].pc = "copy" => q \notin kern[r].peer
  BY <1>4 DEF Inv, ForkOK
<1> HIDE DEF pr, c, k
<1>13. CopyOK(pg[p], pr, k.a)
  BY <1>7, <1>9, <1>10 DEF CopyOK, Mapped, Vpn
<1>14. LoopOK(proc[p], pg[p], k)
  <2>1. proc[p].sz \in Nat
    BY <1>3, SizesAssumption
  <2>2. Small(proc[p]) => pg[p].phys_pages <= MAX_PHYS_PAGES
    BY <1>1, LoopFits, Zenon
  <2> QED BY <1>1, <1>7, <2>1, <2>2, LoopFork, Zenon
<1>15. LocalOK(proc[p], pg[p], k)
  BY <1>1, <1>2, <1>14, RecAddr, ZenonT(60) DEF LocalOK
<1>16. LocalOK(c, pr, kern[q])
  BY <1>5, <1>6, <1>9, ZenonT(60) DEF LocalOK, AddrOK
<1> QED BY <1>1, <1>4, <1>5, <1>6, <1>7, <1>9, <1>11, <1>12, <1>13, <1>15, <1>16,
           Same, ForkStep, ZenonT(60)

\* Mappages on the child's page table changes the frame only.
LEMMA AddressFields ==
  ASSUME NEW pr \in PageRec, NEW adr \in [Vpn -> Frame \cup {NoFrame}]
  PROVE  LET q == [pr EXCEPT !.PTE_ADDR = adr]
         IN q \in PageRec /\ q.PTE_P = pr.PTE_P /\ q.PTE_PG = pr.PTE_PG /\ q.PTE_ADDR = adr
BY DEF PageRec

\* One turn of copyuvm's loop: the child has one page more.
LEMMA CopyOneMore ==
  ASSUME Inv, NEW p \in Proc, NEW q \in Proc, In(p, "copy"), q \in kern[p].peer,
         kern[p].a < kern[p].lim,
         NEW pr \in PageRec,
         pr.PTE_P = pg[q].PTE_P \cup ({kern[p].a} \cap pg[p].PTE_P),
         pr.PTE_PG = pg[q].PTE_PG \cup ({kern[p].a} \cap pg[p].PTE_PG),
         \A u \in Vpn : u \in pr.PTE_P <=> pr.PTE_ADDR[u] # NoFrame,
         pg' = [pg EXCEPT ![q] = pr], kern' = [kern EXCEPT ![p] = [kern[p] EXCEPT !.a = @ + 1]],
         mem' \in [Frame -> Data], free' \subseteq Frame, UNCHANGED <<proc, panic>>
  PROVE  Inv'
<1> DEFINE v == kern[p].a
           k == [kern[p] EXCEPT !.a = v + 1]
<1>1. /\ RecOK(pg[p]) /\ proc[p].state = "RUNNING" /\ AddrOK(pg[p])
      /\ Mapped(pg[p]) = Below(proc[p].sz) /\ kern[p].lim = proc[p].sz
      /\ v <= kern[p].lim /\ (Small(proc[p]) => pg[p].phys_pages <= MAX_PHYS_PAGES)
      /\ Text \in pg[p].PTE_P
      /\ proc[q].state = "EMBRYO" /\ kern[q].pc = "user" /\ p # q /\ kern[p].peer = {q}
      /\ CopyOK(pg[p], pg[q], v)
      /\ \A r \in Proc \ {p} : kern[r].pc = "copy" => q \notin kern[r].peer
      /\ kern[p].pc = "copy" /\ v \in 0 .. NVPN /\ kern[p].lim \in 0 .. NVPN
  BY InCopy
<1>2. v \in Vpn /\ v + 1 \in 0 .. NVPN /\ v + 1 <= kern[p].lim
  BY <1>1, SizesAssumption DEF Vpn
<1>3. /\ k \in KernRec /\ k.pc = "copy" /\ k.a = v + 1 /\ k.lim = kern[p].lim
      /\ k.peer = {q}
  BY <1>1, <1>2, Same DEF KernRec, PC
<1>4. kern' = [kern EXCEPT ![p] = k]
  OBVIOUS
<1> HIDE DEF k
<1>5. CopyOK(pg[p], pr, v + 1)
  BY <1>1, <1>2 DEF CopyOK, Vpn
<1>6. LoopOK(proc[p], pg[p], k)
  BY <1>1, <1>2, <1>3, SizesAssumption DEF LoopOK, Stage
<1>7. LocalOK(proc[p], pg[p], k)
  BY <1>1, <1>6 DEF LocalOK
<1>8. AddrOK(pr)
  BY DEF PageRec, AddrOK
<1>9. LocalOK(proc[q], pr, kern[q])
  BY <1>1, <1>8 DEF LocalOK
<1>10. proc' = [proc EXCEPT ![q] = proc[q]] /\ proc[q] \in ProcRec
  BY Same
<1>11. CopyOK(pg[p], pr, k.a) /\ panic' = panic
  BY <1>3, <1>5
<1> QED BY <1>1, <1>3, <1>4, <1>7, <1>9, <1>10, <1>11, ForkStep, ZenonT(60)

\* A turn of copyuvm's loop finds the page present or swapped out, and keeps the
\* invariant.
LEMMA CopyPageKeeps ==
  ASSUME Inv, NEW p \in Proc, NEW q \in Proc, CopyPage(p, q)
  PROVE  Inv'
<1> DEFINE v == kern[p].a
           dst == copy_flags(pg[q], pg[p], v)
<1>0. In(p, "copy") /\ q \in kern[p].peer /\ v < kern[p].lim
  BY SMTT(60) DEF CopyPage
<1>1. /\ RecOK(pg[p]) /\ Mapped(pg[p]) = Below(proc[p].sz) /\ kern[p].lim = proc[p].sz
      /\ CopyOK(pg[p], pg[q], v) /\ v \in 0 .. NVPN /\ kern[p].lim \in 0 .. NVPN
  BY <1>0, InCopy, ZenonT(60)
<1>2. v \in Vpn /\ v \in Mapped(pg[p])
  BY <1>0, <1>1, SizesAssumption, SMTT(60) DEF Vpn, Below
<1>3. /\ pg[p] \in PageRec /\ pg[q] \in PageRec
      /\ dst \in PageRec /\ dst.PTE_P = pg[q].PTE_P \cup ({v} \cap pg[p].PTE_P)
      /\ dst.PTE_PG = pg[q].PTE_PG \cup ({v} \cap pg[p].PTE_PG)
      /\ dst.PTE_ADDR = pg[q].PTE_ADDR
  <2>1. pg[p] \in PageRec /\ pg[q] \in PageRec
    BY Same
  <2>2. v \in Vpn
    BY <1>2
  <2>3. Copied(dst, pg[q], pg[p], v)
    BY <2>1, <2>2, CopyFields
  <2> QED BY <2>1, <2>3, Zenon DEF Copied
<1>4. [kern[p] EXCEPT !.a = @ + 1] = [kern[p] EXCEPT !.a = v + 1]
  OBVIOUS
<1>5. CASE v \in pg[p].PTE_PG
  <2>1. /\ pg' = [pg EXCEPT ![q] = dst] /\ kern' = [kern EXCEPT ![p] = [kern[p] EXCEPT !.a = v + 1]]
        /\ UNCHANGED <<proc, mem, free, panic>>
    BY <1>5 DEF CopyPage, SetPage, Goto
  <2> HIDE DEF dst
  <2>4. v \notin pg[p].PTE_P
    <3>1. pg[p].PTE_P \cap pg[p].PTE_PG = {}
      BY <1>1 DEF RecOK, MetaOK, Resident, Swapped
    <3> QED BY <1>5, <3>1, Zenon
  <2>5. \A u \in Vpn : u \in dst.PTE_P <=> dst.PTE_ADDR[u] # NoFrame
    BY <1>1, <1>3, <2>4 DEF CopyOK
  <2> QED BY <1>0, <1>3, <1>4, <2>1, <2>5, Same, CopyOneMore, ZenonT(60)
<1>6. CASE v \notin pg[p].PTE_PG
  <2>1. v \in pg[p].PTE_P
    BY <1>2, <1>6 DEF Mapped
  <2>2. PICK f \in free :
          /\ Alloc(f, mem[pg[p].PTE_ADDR[v]])
          /\ SetPage(q, [dst EXCEPT !.PTE_ADDR = [@ EXCEPT ![v] = f]])
          /\ Goto(p, [kern[p] EXCEPT !.a = v + 1])
          /\ UNCHANGED <<proc, panic>>
    BY <1>6, <2>1, ZenonT(60) DEF CopyPage
  <2> DEFINE adr == [pg[q].PTE_ADDR EXCEPT ![v] = f]
             pr == [dst EXCEPT !.PTE_ADDR = adr]
  <2>3. f \in Frame /\ pg[q].PTE_ADDR \in [Vpn -> Frame \cup {NoFrame}]
    <3>1. f \in Frame
      BY Same
    <3> HIDE DEF dst
    <3> QED BY <1>3, <3>1 DEF PageRec
  <2>4. adr \in [Vpn -> Frame \cup {NoFrame}]
    BY <2>3, ZenonT(60)
  <2>6. pg' = [pg EXCEPT ![q] = pr]
    BY <1>3, <2>2 DEF SetPage
  <2>7. adr[v] = f /\ \A u \in Vpn : u # v => adr[u] = pg[q].PTE_ADDR[u]
    BY <1>2, <2>3
  <2> HIDE DEF adr, dst, v
  <2>8. /\ pr \in PageRec /\ pr.PTE_P = pg[q].PTE_P \cup ({v} \cap pg[p].PTE_P)
        /\ pr.PTE_PG = pg[q].PTE_PG \cup ({v} \cap pg[p].PTE_PG) /\ pr.PTE_ADDR = adr
    BY <1>3, <2>4, AddressFields
  <2> HIDE DEF pr
  <2>9. \A u \in Vpn : u \in pr.PTE_P <=> pr.PTE_ADDR[u] # NoFrame
    <3>1. pr.PTE_ADDR[v] = f /\ \A u \in Vpn : u # v => pr.PTE_ADDR[u] = pg[q].PTE_ADDR[u]
      BY <2>7, <2>8
    <3>2. \A u \in Vpn : u \in pg[q].PTE_P <=> pg[q].PTE_ADDR[u] # NoFrame
      BY <1>1 DEF CopyOK
    <3>3. pr.PTE_P = pg[q].PTE_P \cup {v}
      <4>1. {v} \cap pg[p].PTE_P = {v}
        BY <2>1
      <4> QED BY <2>8, <4>1
    <3>4. f # NoFrame
      BY <2>3, ValuesAssumption
    <3> QED BY <3>1, <3>2, <3>3, <3>4
  <2>10. mem[pg[p].PTE_ADDR[v]] \in Data
    <3>1. AddrOK(pg[p])
      BY <1>1, <1>3, RecAddr
    <3>2. pg[p].PTE_ADDR[v] \in Frame
      BY <2>1, <3>1 DEF AddrOK
    <3>3. mem \in [Frame -> Data]
      BY Same
    <3> QED BY <3>2, <3>3
  <2>11. mem' \in [Frame -> Data] /\ free' \subseteq Frame
    BY <2>2, <2>3, <2>10, MemoryTypes
  <2>12. kern' = [kern EXCEPT ![p] = [kern[p] EXCEPT !.a = v + 1]] /\ UNCHANGED <<proc, panic>>
    BY <2>2 DEF Goto
  <2> QED BY <1>0, <1>4, <2>6, <2>8, <2>9, <2>11, <2>12, CopyOneMore, Zenon DEF v
<1> QED BY <1>5, <1>6, SMTT(60)

\* A failed copyuvm leaves an unused slot behind and the parent as it was.
LEMMA ForkFailsKeeps ==
  ASSUME Inv, NEW p \in Proc, NEW q \in Proc, In(p, "copy"), q \in kern[p].peer,
         ForkFails(p, q), mem' \in [Frame -> Data], free' \subseteq Frame
  PROVE  Inv'
<1> DEFINE pr == init_page_meta(0)
           c == [proc[q] EXCEPT !.state = "UNUSED"]
<1>1. /\ RecOK(pg[p]) /\ proc[p].state = "RUNNING" /\ AddrOK(pg[p])
      /\ Mapped(pg[p]) = Below(proc[p].sz) /\ (Small(proc[p]) => pg[p].phys_pages <= MAX_PHYS_PAGES)
      /\ kern[q].pc = "user" /\ p # q /\ AddrOK(pg[q])
      /\ \A r \in Proc \ {p} : kern[r].pc = "copy" => q \notin kern[r].peer
  BY InCopy, ZenonT(60)
<1>2. 0 \in 0 .. MAX_SWAP_FILE_SZ
  BY Sizes
<1>3. pr \in PageRec /\ pr.PTE_P = {}
  BY <1>2, InitKeeps
<1>4. c \in ProcRec /\ c.state = "UNUSED"
  BY Same DEF ProcRec
<1>6. /\ proc' = [proc EXCEPT ![q] = c] /\ pg' = [pg EXCEPT ![q] = pr]
      /\ kern' = [kern EXCEPT ![p] = Idle] /\ panic' = panic
  BY DEF ForkFails, SetPage, Goto
<1> HIDE DEF pr, c
<1>7. Idle.pc = "user"
  BY SMTT(60) DEF Idle
<1>8. LoopOK(proc[p], pg[p], Idle)
  BY <1>1, <1>7, LoopIdle, Zenon
<1>9. LocalOK(proc[p], pg[p], Idle) /\ LocalOK(c, pr, kern[q])
  <2>1. LocalOK(proc[p], pg[p], Idle)
    BY <1>1, <1>8, Zenon DEF LocalOK
  <2>2. AddrOK(pr)
    BY <1>3 DEF AddrOK
  <2>3. "UNUSED" # "RUNNING"
    OBVIOUS
  <2> QED BY <1>1, <1>4, <2>1, <2>2, <2>3, Zenon DEF LocalOK
<1> QED BY <1>1, <1>3, <1>4, <1>6, <1>7, <1>9, IdleType, ForkStep, ZenonT(60)

\* A failed copyuvm keeps the invariant.
LEMMA CopyNoMemoryKeeps ==
  ASSUME Inv, NEW p \in Proc, NEW q \in Proc, CopyNoMemory(p, q)
  PROVE  Inv'
<1>1. In(p, "copy") /\ q \in kern[p].peer /\ kfree(Frames(pg[q])) /\ ForkFails(p, q)
  BY DEF CopyNoMemory
<1>2. AddrOK(pg[q])
  BY <1>1, InCopy, ZenonT(60)
<1>3. Frames(pg[q]) \in SUBSET Frame
  BY <1>2 DEF Frames, AddrOK
<1>4. mem' \in [Frame -> Data] /\ free' \subseteq Frame
  BY <1>1, <1>3, MemoryTypes, Zenon
<1> QED BY <1>1, <1>4, ForkFailsKeeps, Zenon

\* Without memory for the page table of the copy it fails too, and
\* panic("can't create pte") is not reached.
LEMMA CopyNoTableKeeps ==
  ASSUME Inv, NEW p \in Proc, NEW q \in Proc, CopyNoTable(p, q)
  PROVE  Inv'
<1>1. /\ In(p, "copy") /\ q \in kern[p].peer /\ ForkFails(p, q)
      /\ pg[p].PTE_ADDR[0] \in Frame
  BY NoTable, Zenon
<1>2. PICK f \in free : Alloc(f, mem[pg[p].PTE_ADDR[0]])
  BY NoTable, Zenon
<1>3. f \in Frame /\ mem[pg[p].PTE_ADDR[0]] \in Data
  <2>1. mem \in [Frame -> Data] /\ free \subseteq Frame
    BY Same
  <2> QED BY <1>1, <2>1, Zenon
<1>4. mem' \in [Frame -> Data] /\ free' \subseteq Frame
  BY <1>2, <1>3, MemoryTypes, Zenon
<1> QED BY <1>1, <1>4, ForkFailsKeeps, Zenon

\* The panic of copy_swap_file's kfree(0) leaves page tables and slots as they are.
LEMMA ForkNoBufferKeeps ==
  ASSUME Inv, NEW p \in Proc, NEW q \in Proc, ForkNoBuffer(p, q)
  PROVE  Inv'
<1> DEFINE k == [kern[p] EXCEPT !.pc = "halt"]
           n == pg[p].swap_len
<1>1. /\ In(p, "copy") /\ q \in kern[p].peer /\ kern' = [kern EXCEPT ![p] = k]
      /\ UNCHANGED <<proc, pg, free>> /\ panic' = "kfree"
      /\ mem' = IF n = 0 THEN mem ELSE [mem EXCEPT ![pg[p].PTE_ADDR[Text]] = pg[p].swap[n - 1]]
  BY Zenon DEF ForkNoBuffer, Goto
<1>2. /\ mem \in [Frame -> Data] /\ pg[p] \in PageRec /\ kern[p] \in KernRec
      /\ proc[p].state = "RUNNING"
  BY <1>1, Same, Zenon DEF In
<1>3. k \in KernRec /\ k.pc = "halt"
  BY <1>2, Zenon DEF KernRec, PC
<1>4. mem' \in [Frame -> Data]
  <2>1. pg[p].swap \in [SwapSlot -> Data] /\ n \in 0 .. MAX_SWAP_FILE_SZ
    BY <1>2 DEF PageRec
  <2>2. n # 0 => n - 1 \in SwapSlot
    BY <2>1, Sizes DEF SwapSlot
  <2>3. n # 0 => pg[p].swap[n - 1] \in Data
    BY <2>1, <2>2, Zenon
  <2> HIDE DEF n
  <2> QED BY <1>1, <1>2, <2>3, Zenon
<1> HIDE DEF k, n
<1>5. TypeOK'
  <2>1. "kfree" \in Messages
    BY DEF Messages
  <2> QED BY <1>1, <1>3, <1>4, <2>1 DEF Inv, TypeOK
<1>6. kern'[p] = k /\ \A r \in Proc \ {p} : kern'[r] = kern[r]
  BY <1>1 DEF Inv, TypeOK
<1>7. ASSUME NEW r \in Proc PROVE LocalOK(proc[r], pg[r], kern'[r])
  <2>1. LocalOK(proc[r], pg[r], kern[r])
    BY Zenon DEF Inv
  <2>2. CASE r = p
    BY <1>2, <1>3, <1>6, <2>1, <2>2 DEF LocalOK, Lost
  <2>3. CASE r # p
    BY <1>6, <2>1, <2>3, Zenon
  <2> QED BY <2>2, <2>3
<1>8. ForkOK'
  <2>1. \A r \in Proc : kern'[r].pc = "copy" => kern'[r] = kern[r]
    BY <1>3, <1>6
  <2>2. ForkOK /\ proc' = proc /\ pg' = pg
    BY <1>1, Zenon DEF Inv
  <2> QED BY <2>1, <2>2 DEF ForkOK
<1>9. (\A r \in Proc : LocalOK(proc[r], pg[r], kern[r]))' /\ panic' \notin MetadataPanics
  BY <1>1, <1>7 DEF MetadataPanics
<1> QED BY <1>5, <1>8, <1>9, Zenon DEF Inv

\* The child's paging record when fork is done.
LEMMA CopiedRecord ==
  ASSUME NEW dst \in PageRec, NEW src \in PageRec, RecOK(src),
         dst.PTE_P = src.PTE_P, dst.PTE_PG = src.PTE_PG,
         \A v \in Vpn : v \in dst.PTE_P <=> dst.PTE_ADDR[v] # NoFrame
  PROVE  LET q == copy_page_arr(dst, src)
         IN /\ q \in PageRec /\ RecOK(q)
            /\ Mapped(q) = Mapped(src) /\ q.phys_pages = src.phys_pages
<1> DEFINE file == copy_swap_file(src)
           q == copy_page_arr(dst, src)
<1>1. file \in [SwapSlot -> Data]
  <2>1. src.swap \in [SwapSlot -> Data]
    BY DEF PageRec
  <2> QED BY <2>1, ValuesAssumption, SMTT(60) DEF copy_swap_file, readFromSwapFile
<1>2. q = [src EXCEPT !.PTE_P = dst.PTE_P, !.PTE_PG = dst.PTE_PG, !.PTE_A = dst.PTE_A,
                      !.PTE_U = dst.PTE_U, !.PTE_ADDR = dst.PTE_ADDR,
                      !.swap = file, !.swap_len = src.file_size]
  BY DEF copy_page_arr
<1> HIDE DEF file, q
<1>3. q \in PageRec
  BY <1>1, <1>2, ZenonT(60) DEF PageRec
<1>4. /\ SameMeta(q, src) /\ q.PTE_P = dst.PTE_P /\ q.PTE_PG = dst.PTE_PG
      /\ q.PTE_ADDR = dst.PTE_ADDR
  BY <1>2 DEF PageRec, SameMeta
<1>5. \A v \in Vpn : v \in src.PTE_P <=> src.PTE_ADDR[v] # NoFrame
  BY DEF RecOK, MetaOK
<1>6. RecOK(q)
  BY <1>4, <1>5, SameMetaKeeps
<1>7. Mapped(q) = Mapped(src) /\ q.phys_pages = src.phys_pages
  BY <1>4 DEF Mapped, SameMeta
<1> QED BY <1>3, <1>6, <1>7, SMTT(60) DEF q

\* After copyuvm and copy_page_arr the child satisfies what the parent does.
LEMMA ForkDoneKeeps ==
  ASSUME Inv, NEW p \in Proc, NEW q \in Proc, ForkDone(p, q)
  PROVE  Inv'
<1> DEFINE pr == copy_page_arr(pg[q], pg[p])
           c == [proc[p] EXCEPT !.killed = proc[q].killed]
<1>0. In(p, "copy") /\ q \in kern[p].peer /\ kern[p].a = kern[p].lim
  BY DEF ForkDone
<1>1. /\ RecOK(pg[p]) /\ proc[p].state = "RUNNING" /\ AddrOK(pg[p])
      /\ Mapped(pg[p]) = Below(proc[p].sz) /\ kern[p].lim = proc[p].sz
      /\ (Small(proc[p]) => pg[p].phys_pages <= MAX_PHYS_PAGES)
      /\ kern[q].pc = "user" /\ p # q /\ CopyOK(pg[p], pg[q], kern[p].a)
      /\ \A r \in Proc \ {p} : kern[r].pc = "copy" => q \notin kern[r].peer
  BY <1>0, InCopy, ZenonT(60)
<1>2. pg[p] \in PageRec /\ pg[q] \in PageRec /\ proc[p] \in ProcRec /\ proc[q] \in ProcRec
  BY Same
<1>3. pg[q].PTE_P = pg[p].PTE_P /\ pg[q].PTE_PG = pg[p].PTE_PG
  <2>1. /\ pg[p].PTE_P \subseteq Vpn /\ pg[p].PTE_PG \subseteq Vpn
        /\ pg[q].PTE_P \subseteq Vpn /\ pg[q].PTE_PG \subseteq Vpn
    BY <1>2 DEF PageRec
  <2>2. \A v \in pg[p].PTE_P \cup pg[p].PTE_PG : v < kern[p].a
    BY <1>0, <1>1 DEF Mapped, Below
  <2> QED BY <1>1, <2>1, <2>2, ZenonT(60) DEF CopyOK
<1>4. \A v \in Vpn : v \in pg[q].PTE_P <=> pg[q].PTE_ADDR[v] # NoFrame
  BY <1>1 DEF CopyOK
<1>5. /\ pr \in PageRec /\ RecOK(pr)
      /\ Mapped(pr) = Mapped(pg[p]) /\ pr.phys_pages = pg[p].phys_pages
  BY <1>1, <1>2, <1>3, <1>4, CopiedRecord, Zenon
<1>6. c \in ProcRec /\ c.state = "RUNNING" /\ c.sz = proc[p].sz /\ c.stk = proc[p].stk
  BY <1>1, <1>2 DEF ProcRec
<1>7. /\ proc' = [proc EXCEPT ![q] = c] /\ pg' = [pg EXCEPT ![q] = pr]
      /\ kern' = [kern EXCEPT ![p] = Idle] /\ UNCHANGED <<mem, free, panic>>
  BY DEF ForkDone, SetPage, Goto
<1> HIDE DEF pr, c
<1>8. Idle.pc = "user"
  BY DEF Idle
<1>9. LoopOK(proc[p], pg[p], Idle)
  BY <1>1, <1>8, LoopIdle
<1>10. LoopOK(c, pr, kern[q])
  BY <1>1, <1>5, <1>6, LoopIdle, Zenon DEF Small
<1>11. LocalOK(proc[p], pg[p], Idle) /\ LocalOK(c, pr, kern[q])
  BY <1>1, <1>5, <1>6, <1>9, <1>10, RecAddr, Zenon DEF LocalOK
<1> QED BY <1>1, <1>5, <1>6, <1>7, <1>8, <1>11, IdleType, Same, ForkStep, Zenon

-----------------------------------------------------------------------------
\* Kill sets a flag only.
LEMMA KillKeeps ==
  ASSUME Inv, NEW p \in Proc, Kill(p)
  PROVE  Inv'
<1> DEFINE c == [proc[p] EXCEPT !.killed = TRUE]
<1>1. c \in ProcRec /\ c.state = proc[p].state /\ c.sz = proc[p].sz /\ c.killed = TRUE
      /\ c.stk = proc[p].stk
  BY Same, ZenonT(60) DEF ProcRec
<1>2. proc' = [proc EXCEPT ![p] = c] /\ UNCHANGED <<pg, kern, mem, free, panic>>
  BY Zenon DEF Kill
<1> HIDE DEF c
<1>3. proc'[p] = c /\ \A r \in Proc \ {p} : proc'[r] = proc[r]
  BY <1>2 DEF Inv, TypeOK
<1>4. TypeOK'
  BY <1>1, <1>2 DEF Inv, TypeOK
<1>5. ASSUME NEW r \in Proc PROVE LocalOK(proc'[r], pg[r], kern[r])
  <2>1. CASE r = p
    <3>1. LocalOK(proc[p], pg[p], kern[p]) /\ proc[p].killed = FALSE
      BY Same, ZenonT(60) DEF Inv, Kill, ProcRec
    <3>2. LoopOK(proc[p], pg[p], kern[p]) => LoopOK(c, pg[p], kern[p])
      BY <1>1, ZenonT(60) DEF LoopOK, Small
    <3>3. LocalOK(c, pg[p], kern[p])
      BY <1>1, <3>1, <3>2, ZenonT(60) DEF LocalOK
    <3> QED BY <1>3, <2>1, <3>3
  <2>2. CASE r # p
    BY <1>3, <2>2, ZenonT(60) DEF Inv
  <2> QED BY <2>1, <2>2
<1>6. ForkOK'
  <2>1. \A r \in Proc : kern[r].peer \subseteq Proc
    BY DEF Inv, TypeOK, KernRec
  <2>2. \A r \in Proc : proc'[r].state = proc[r].state
    BY <1>1, <1>3
  <2> QED BY <1>2, <2>1, <2>2 DEF Inv, ForkOK
<1>7. (\A r \in Proc : LocalOK(proc[r], pg[r], kern[r]))'
  BY <1>2, <1>5
<1> QED BY <1>2, <1>4, <1>6, <1>7 DEF Inv

\* Exit leaves a zombie whose page table wait can free.
LEMMA ExitKeeps ==
  ASSUME Inv, NEW p \in Proc, Exit(p)
  PROVE  Inv'
<1> DEFINE c == [Unused EXCEPT !.state = "ZOMBIE"]
           w == init_page_meta(0)
           pr == [w EXCEPT !.PTE_P = pg[p].PTE_P, !.PTE_ADDR = pg[p].PTE_ADDR]
<1>1. /\ proc[p].state = "RUNNING" /\ kern[p].pc \in {"user", "failed"} /\ AddrOK(pg[p])
      /\ pg[p] \in PageRec /\ kern[p] \in KernRec
  BY Same, Zenon DEF Exit, In, Inv, LocalOK
<1>2. 0 \in 0 .. MAX_SWAP_FILE_SZ
  BY Sizes
<1>3. w \in PageRec
  BY <1>2, InitKeeps
<1>4. /\ proc' = [proc EXCEPT ![p] = c] /\ pg' = [pg EXCEPT ![p] = pr]
      /\ UNCHANGED <<kern, mem, free, panic>>
  BY DEF Exit, SetPage
<1> HIDE DEF w
<1>5. pr \in PageRec /\ pr.PTE_P = pg[p].PTE_P /\ pr.PTE_ADDR = pg[p].PTE_ADDR
  BY <1>1, <1>3, ZenonT(60) DEF PageRec
<1>6. c \in ProcRec /\ c.state = "ZOMBIE"
  <2>1. Unused \in ProcRec
    BY SizesAssumption DEF Unused, ProcRec, Vpn
  <2> QED BY <2>1 DEF ProcRec
<1> HIDE DEF pr, c
<1>7. LocalOK(c, pr, kern[p])
  BY <1>1, <1>5, <1>6 DEF LocalOK, AddrOK
<1> QED BY <1>1, <1>4, <1>5, <1>6, <1>7, Same, LocalStep, ZenonT(60)

\* Wait frees frames and leaves an unused slot.
LEMMA ReapKeeps ==
  ASSUME Inv, NEW p \in Proc, Reap(p)
  PROVE  Inv'
<1> DEFINE pr == init_page_meta(0)
<1>1. /\ proc[p].state = "ZOMBIE" /\ kern[p].pc \in {"user", "failed"} /\ AddrOK(pg[p])
      /\ kern[p] \in KernRec
  BY Same, Zenon DEF Reap, Inv, LocalOK
<1>2. 0 \in 0 .. MAX_SWAP_FILE_SZ
  BY Sizes
<1>3. pr \in PageRec /\ pr.PTE_P = {}
  BY <1>2, InitKeeps
<1>4. Unused \in ProcRec /\ Unused.state = "UNUSED"
  BY SizesAssumption DEF Unused, ProcRec, Vpn
<1>5. Held(p) \in SUBSET Frame
  <2>1. kern[p].old \in SUBSET Frame
    BY <1>1 DEF KernRec
  <2> QED BY <1>1, <2>1 DEF Held, Frames, AddrOK
<1>6. /\ proc' = [proc EXCEPT ![p] = Unused] /\ pg' = [pg EXCEPT ![p] = pr]
      /\ kern' = [kern EXCEPT ![p] = Idle] /\ panic' = panic
      /\ mem' \in [Frame -> Data] /\ free' \subseteq Frame
  BY <1>5, MemoryTypes, ZenonT(60) DEF Reap, SetPage, Goto
<1>7. Idle.pc = "user"
  BY DEF Idle
<1> HIDE DEF pr
<1>8. LocalOK(Unused, pr, Idle)
  BY <1>3, <1>4, <1>7, Zenon DEF LocalOK, AddrOK
<1>9. proc[p].state # "EMBRYO" /\ kern[p].pc # "copy" /\ Idle.pc # "copy"
  BY <1>1, <1>7
<1> QED BY <1>3, <1>4, <1>6, <1>8, <1>9, IdleType, LocalStep, ZenonT(60)

-----------------------------------------------------------------------------
\* The invariant holds initially.
LEMMA InitInv == Init => Inv
<1> SUFFICES ASSUME Init PROVE Inv
  OBVIOUS
<1>1. 0 \in 0 .. MAX_SWAP_FILE_SZ
  BY Sizes
<1>2. init_page_meta(0) \in PageRec /\ init_page_meta(0).PTE_P = {}
  BY <1>1, InitKeeps
<1>3. Unused \in ProcRec /\ Unused.state = "UNUSED"
  BY SizesAssumption DEF Unused, ProcRec, Vpn
<1>4. Idle.pc = "user"
  BY DEF Idle
<1>5. TypeOK
  BY <1>2, <1>3, IdleType, ValuesAssumption, ZenonT(60) DEF Init, TypeOK, Messages
<1>6. ASSUME NEW p \in Proc PROVE LocalOK(proc[p], pg[p], kern[p])
  BY <1>2, <1>3, <1>4, ZenonT(60) DEF Init, LocalOK, AddrOK
<1>7. ForkOK /\ panic \notin MetadataPanics
  BY <1>4, ZenonT(60) DEF Init, ForkOK, MetadataPanics
<1> QED BY <1>5, <1>6, <1>7 DEF Inv

\* One lemma per action.
LEMMA NextInv == Inv /\ [Next]_vars => Inv'
<1> SUFFICES ASSUME Inv, [Next]_vars PROVE Inv'
  BY SMTT(60)
<1>1. CASE UNCHANGED vars
  BY <1>1, Zenon DEF vars, Inv, TypeOK, ForkOK
<1>2. ASSUME NEW p \in Proc, KernelStep(p) PROVE Inv'
  <2>1. CASE Scan(p) \/ SwapOut(p) \/ SwapIn(p) \/ SwapInNoMemory(p)
    BY <2>1, ScanKeeps, SwapOutStep, SwapInStep, SwapInNoMemoryKeeps
  <2>2. CASE Grow(p) \/ AllocPage(p) \/ AllocNoMemory(p) \/ Dealloc(p)
    BY <2>2, GrowKeeps, AllocPageKeeps, AllocNoMemoryKeeps, DeallocKeeps
  <2>3. CASE ExecPage(p) \/ ExecDone(p) \/ ExecFails(p)
    BY <2>3, ExecPageKeeps, ExecDoneKeeps, ExecFailsKeeps
  <2>4. CASE \E q \in Proc : \/ CopyPage(p, q) \/ CopyNoMemory(p, q) \/ CopyNoTable(p, q)
                            \/ ForkDone(p, q) \/ ForkNoBuffer(p, q)
    BY <2>4, CopyPageKeeps, CopyNoMemoryKeeps, CopyNoTableKeeps, ForkDoneKeeps,
       ForkNoBufferKeeps, ZenonT(60)
  <2> QED BY <1>2, <2>1, <2>2, <2>3, <2>4 DEF KernelStep
<1>3. ASSUME NEW p \in Proc, UserStep(p) PROVE Inv'
  <2>1. CASE \E v \in Vpn : Load(p, v) \/ PageFault(p, v)
    BY <2>1, LoadKeeps, PageFaultKeeps
  <2>2. CASE \E v \in Vpn, d \in Data \ {Junk} : Store(p, v, d) \/ SysBuffer(p, v, d)
    BY <2>2, StoreKeeps, SysBufferKeeps
  <2>3. CASE \E n \in 1 .. MaxGrow : Sbrk(p, n)
    BY <2>3, SbrkKeeps
  <2>4. CASE \E n \in 1 .. NVPN : SbrkDown(p, n)
    BY <2>4, SbrkDownKeeps
  <2>5. CASE \E q \in Proc : Fork(p, q)
    BY <2>5, ForkKeeps
  <2>6. CASE \E n \in ExecSizes : Exec(p, n)
    BY <2>6, ExecKeeps
  <2>7. CASE \E n \in SpawnSizes : Spawn(p, n)
    BY <2>7, SpawnKeeps
  <2>8. CASE Kill(p) \/ Exit(p) \/ Reap(p)
    BY <2>8, KillKeeps, ExitKeeps, ReapKeeps
  <2> QED BY <1>3, <2>1, <2>2, <2>3, <2>4, <2>5, <2>6, <2>7, <2>8 DEF UserStep
<1> QED BY <1>1, <1>2, <1>3 DEF Next

\* The inductive invariant holds of every reachable state.
THEOREM Invariance == Spec => []Inv
BY InitInv, NextInv, PTL DEF Spec

\* Every variable keeps its type: in particular no list of pages[] ever leaves
\* the array and no table of offsets holds anything but offsets.
THEOREM TypeCorrect == Spec => []TypeOK
<1>1. Inv => TypeOK
  BY DEF Inv
<1> QED BY <1>1, Invariance, PTL

\* Pages[] describes the page table, for any number of processes, pages and frames.
THEOREM PagesDescribedHolds == Spec => []PagesDescribed
<1>1. Inv => PagesDescribed
  BY Zenon DEF Inv, PagesDescribed, Active, LocalOK, Lost, RecOK
<1> QED BY <1>1, Invariance, PTL

\* The list that get_page_to_swap walks is one circle of exactly the resident pages.
THEOREM ResidentListHolds == Spec => []ResidentList
<1>1. Inv => ResidentList
  BY Zenon DEF Inv, ResidentList, Active, LocalOK, Lost, RecOK
<1> QED BY <1>1, Invariance, PTL

\* Free_offset and get_offset never share or lose an offset of the swap file.
THEOREM OffsetsPartitionedHolds == Spec => []OffsetsPartitioned
<1>1. Inv => OffsetsPartitioned
  BY DEF Inv, OffsetsPartitioned, Active, LocalOK, Lost, RecOK
<1> QED BY <1>1, Invariance, PTL

\* None of the panics that guard pages[], the page table and the table of
\* offsets is ever reached.
THEOREM MetadataNeverPanics == Spec => [](panic \notin MetadataPanics)
<1>1. Inv => panic \notin MetadataPanics
  BY DEF Inv
<1> QED BY <1>1, Invariance, PTL

\* The counters count what they say, and no process whose image had at most
\* MAX_PHYS_PAGES pages ever has more resident ones, whatever the sizes of the
\* images that other processes, or the same one at other times, load.
THEOREM PhysLimitHolds == Spec => []PhysLimit
<1>1. Inv => PhysLimit
  <2> SUFFICES ASSUME Inv, NEW p \in Proc, Active(p)
               PROVE  /\ pg[p].phys_pages = Cardinality(Resident(pg[p]))
                      /\ pg[p].num_of_pages = Cardinality(pg[p].taken)
                      /\ ImageSize(p) <= MAX_PHYS_PAGES => pg[p].phys_pages <= MAX_PHYS_PAGES
    BY Zenon DEF PhysLimit
  <2>1. RecOK(pg[p]) /\ LoopOK(proc[p], pg[p], kern[p])
    BY Zenon DEF Inv, Active, LocalOK, Lost
  <2>2. Resident(pg[p]) = pg[p].on_phys
    BY <2>1, Zenon DEF RecOK, MetaOK, Resident
  <2>3. CASE kern[p].pc = "exec"
    <3>1. pg[p].phys_pages = kern[p].a /\ kern[p].a <= kern[p].lim /\ ImageSize(p) = kern[p].lim
      BY <2>1, <2>3 DEF LoopOK, Stage, ImageSize
    <3>2. kern[p].a \in 0 .. NVPN /\ kern[p].lim \in 0 .. NVPN
      BY Same, Zenon DEF KernRec
    <3>3. ImageSize(p) <= MAX_PHYS_PAGES => pg[p].phys_pages <= MAX_PHYS_PAGES
      BY <3>1, <3>2, SizesAssumption
    <3> QED BY <2>1, <2>2, <3>3, Zenon DEF RecOK, CountOK
  <2>4. CASE kern[p].pc # "exec"
    <3>1. ImageSize(p) = proc[p].stk + 1 /\ proc[p].stk \in Vpn
      BY <2>4, Same, Zenon DEF ImageSize, ProcRec
    <3>2. ImageSize(p) <= MAX_PHYS_PAGES => Small(proc[p])
      BY <3>1, SizesAssumption DEF Small, Vpn
    <3>3. Small(proc[p]) => pg[p].phys_pages <= MAX_PHYS_PAGES
      BY <2>1, <2>4, Zenon DEF LoopOK
    <3> QED BY <2>1, <2>2, <3>2, <3>3, Zenon DEF RecOK, CountOK
  <2> QED BY <2>3, <2>4, Zenon
<1> QED BY <1>1, Invariance, PTL
=============================================================================
