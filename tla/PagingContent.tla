--------------------------- MODULE PagingContent ----------------------------
(***************************************************************************)
(* The steps of faults, eviction, sbrk, exec, kill and wait that no program*)
(* can see: each keeps DataInv and changes nothing that a program finds in *)
(* its memory.  The parts of such a step that all share come first: what a *)
(* step of one process leaves alone, and the refinement mapping around it. *)
(***************************************************************************)
EXTENDS PagingSteps

\* The refinement mapping, before and after a step.
LEMMA ViewOf ==
  ASSUME NEW p \in Proc
  PROVE  /\ UserImage[p] = [v \in UserPages(p) |-> Content(pg[p], mem, v)]
         /\ UserImage'[p] = [v \in UserPages(p)' |-> Content(pg'[p], mem', v)]
<1>1. UserImage[p] = [v \in UserPages(p) |-> Content(pg[p], mem, v)]
  BY Zenon DEF UserImage, UserPages, UserPage, Content, Mapped
<1>2. UserImage'[p] = [v \in UserPages(p)' |-> Content(pg'[p], mem', v)]
  BY Zenon DEF UserImage, UserPages, UserPage, Content, Mapped
<1> QED BY <1>1, <1>2

\* Whether a slot runs a program, loads one or has none.
LEMMA RunOf ==
  ASSUME NEW p \in Proc
  PROVE  /\ UserRun[p] = IF proc[p].state # "RUNNING" \/ kern[p].pc = "halt" THEN "none"
                         ELSE IF kern[p].pc \in {"exec", "failed"} THEN "exec" ELSE "run"
         /\ UserRun'[p] = IF proc'[p].state # "RUNNING" \/ kern'[p].pc = "halt" THEN "none"
                          ELSE IF kern'[p].pc \in {"exec", "failed"} THEN "exec" ELSE "run"
BY DEF UserRun

\* A process sees no change if its pages are the same and keep their content.
LEMMA ViewSame ==
  ASSUME NEW p \in Proc, UserPages(p)' = UserPages(p),
         \A v \in UserPages(p) : Content(pg'[p], mem', v) = Content(pg[p], mem, v)
  PROVE  UserImage'[p] = UserImage[p]
<1>1. /\ UserImage[p] = [v \in UserPages(p) |-> Content(pg[p], mem, v)]
      /\ UserImage'[p] = [v \in UserPages(p)' |-> Content(pg'[p], mem', v)]
  BY ViewOf
<1>2. [v \in UserPages(p)' |-> Content(pg'[p], mem', v)]
        = [v \in UserPages(p) |-> Content(pg'[p], mem', v)]
  BY Zenon
<1>3. [v \in UserPages(p) |-> Content(pg'[p], mem', v)]
        = [v \in UserPages(p) |-> Content(pg[p], mem, v)]
  OBVIOUS
<1> QED BY <1>1, <1>2, <1>3, Zenon

\* A slot that a step leaves alone.
LEMMA SlotSame ==
  ASSUME NEW r \in Proc, proc'[r] = proc[r], pg'[r] = pg[r], kern'[r] = kern[r],
         \A v \in pg[r].PTE_P : mem'[pg[r].PTE_ADDR[v]] = mem[pg[r].PTE_ADDR[v]]
  PROVE  /\ UserRun'[r] = UserRun[r] /\ UserImage'[r] = UserImage[r]
         /\ UserSize(r)' = UserSize(r)
         /\ \A v : Content(pg'[r], mem', v) = Content(pg[r], mem, v)
<1>1. UserRun'[r] = UserRun[r]
  BY RunOf
<1>2. UserSize(r)' = UserSize(r)
  BY DEF UserSize
<1>3. UserPages(r)' = UserPages(r)
  BY <1>1, <1>2 DEF UserPages
<1>4. ASSUME NEW v PROVE Content(pg'[r], mem', v) = Content(pg[r], mem, v)
  BY DEF Content
<1> QED BY <1>1, <1>2, <1>3, <1>4, ViewSame

\* Its invariant holds after the step too.
LEMMA DataSame ==
  ASSUME DataInv, NEW r \in Proc, proc'[r] = proc[r], pg'[r] = pg[r], kern'[r] = kern[r],
         \A v \in pg[r].PTE_P : mem'[pg[r].PTE_ADDR[v]] = mem[pg[r].PTE_ADDR[v]],
         kern[r].pc = "copy" => \A q \in kern[r].peer :
           pg'[q] = pg[q] /\ \A v \in pg[q].PTE_P :
                               /\ mem'[pg[q].PTE_ADDR[v]] = mem[pg[q].PTE_ADDR[v]]
                               /\ v \in pg[r].PTE_P
  PROVE  DataOK(r)'
<1>1. DataOK(r)
  BY DEF DataInv
<1>2. /\ UserSize(r)' = UserSize(r)
      /\ \A v : Content(pg'[r], mem', v) = Content(pg[r], mem, v)
  BY SlotSame
<1>3. (Stage(kern[r]) \in {"grow", "alloc"} =>
        \A v \in Mapped(pg[r]) : v >= proc[r].sz => Content(pg[r], mem, v) = Zero)'
  BY <1>1, <1>2 DEF DataOK
<1>4. (kern[r].pc = "dealloc" =>
        /\ kern[r].lim = proc[r].sz \/ kern[r].ret = proc[r].sz
        /\ UserSize(r) <= kern[r].a
        /\ \A v \in Mapped(pg[r]) : v < UserSize(r) \/ v >= kern[r].a)'
  BY <1>1, <1>2 DEF DataOK
<1>5. (kern[r].pc = "exec" => \A v \in pg[r].PTE_P : mem[pg[r].PTE_ADDR[v]] = Zero)'
  BY <1>1 DEF DataOK
<1>6. (kern[r].pc = "copy" =>
        \A q \in kern[r].peer : \A v \in pg[q].PTE_P :
          mem[pg[q].PTE_ADDR[v]] = mem[pg[r].PTE_ADDR[v]])'
  BY <1>1 DEF DataOK
<1> QED BY <1>3, <1>4, <1>5, <1>6 DEF DataOK

\* The frames of the other slots keep their contents.
LEMMA Elsewhere ==
  ASSUME Inv, Owned, NEW x \in Proc, MemKept(x), NEW r \in Proc \ {x}
  PROVE  \A v \in pg[r].PTE_P : mem'[pg[r].PTE_ADDR[v]] = mem[pg[r].PTE_ADDR[v]]
<1>1. Held(r) \subseteq Frame /\ Held(r) \cap free = {}
  BY OwnedHere
<1>2. Held(r) \cap Held(x) = {}
  BY DEF Owned, FramesExclusive, Held
<1>3. \A v \in pg[r].PTE_P : pg[r].PTE_ADDR[v] \in Held(r)
  BY DEF Held, Frames
<1> QED BY <1>1, <1>2, <1>3 DEF MemKept

\* A child that copyuvm is filling has pages that its parent has, and is no
\* process that takes a step.
LEMMA Peers ==
  ASSUME Inv, NEW r \in Proc, kern[r].pc = "copy", NEW q \in kern[r].peer
  PROVE  /\ q \in Proc /\ proc[q].state = "EMBRYO" /\ q # r
         /\ \A v \in pg[q].PTE_P : v \in pg[r].PTE_P
<1>1. q \in Proc /\ pg[q] \in PageRec
  <2>1. kern[r] \in KernRec
    BY Same
  <2>2. q \in Proc
    BY <2>1 DEF KernRec
  <2> QED BY <2>2, Same
<1>2. proc[q].state = "EMBRYO" /\ CopyOK(pg[r], pg[q], kern[r].a)
  BY DEF Inv, ForkOK
<1>3. \A v \in pg[q].PTE_P : v \in pg[r].PTE_P
  BY <1>1, <1>2 DEF CopyOK, PageRec
<1>4. q # r
  <2>1. LocalOK(proc[q], pg[q], kern[q])
    BY <1>1 DEF Inv
  <2> QED BY <1>2, <2>1 DEF LocalOK
<1> QED BY <1>1, <1>2, <1>3, <1>4

\* The other processes see no change, and their invariant holds.
LEMMA OthersSame ==
  ASSUME Inv, Owned, DataInv, NEW p \in Proc, Local(p), MemKept(p), proc[p].state # "EMBRYO"
  PROVE  \A r \in Proc \ {p} :
           /\ UserRun'[r] = UserRun[r] /\ UserImage'[r] = UserImage[r] /\ DataOK(r)'
<1> SUFFICES ASSUME NEW r \in Proc \ {p}
             PROVE  /\ UserRun'[r] = UserRun[r] /\ UserImage'[r] = UserImage[r] /\ DataOK(r)'
  OBVIOUS
<1>1. proc'[r] = proc[r] /\ pg'[r] = pg[r] /\ kern'[r] = kern[r]
  BY DEF Local
<1>2. \A v \in pg[r].PTE_P : mem'[pg[r].PTE_ADDR[v]] = mem[pg[r].PTE_ADDR[v]]
  BY Elsewhere
<1>3. ASSUME kern[r].pc = "copy", NEW q \in kern[r].peer
      PROVE  /\ pg'[q] = pg[q]
             /\ \A v \in pg[q].PTE_P : /\ mem'[pg[q].PTE_ADDR[v]] = mem[pg[q].PTE_ADDR[v]]
                                       /\ v \in pg[r].PTE_P
  <2>1. q \in Proc /\ q # p /\ \A v \in pg[q].PTE_P : v \in pg[r].PTE_P
    BY <1>3, Peers
  <2>2. q \in Proc \ {p}
    BY <2>1
  <2>3. \A v \in pg[q].PTE_P : mem'[pg[q].PTE_ADDR[v]] = mem[pg[q].PTE_ADDR[v]]
    BY <2>2, Elsewhere
  <2>4. pg'[q] = pg[q]
    BY <2>2 DEF Local
  <2> QED BY <2>1, <2>3, <2>4
<1>4. UserRun'[r] = UserRun[r] /\ UserImage'[r] = UserImage[r]
  BY <1>1, <1>2, SlotSame, Zenon
<1>5. DataOK(r)'
  BY <1>1, <1>2, <1>3, DataSame, Zenon
<1> QED BY <1>4, <1>5

\* A step that changes only what the slot x sees.
LEMMA ViewStep ==
  ASSUME NEW x \in Proc,
         \A r \in Proc \ {x} : UserRun'[r] = UserRun[r] /\ UserImage'[r] = UserImage[r]
  PROVE  /\ UserRun' = [UserRun EXCEPT ![x] = UserRun'[x]]
         /\ UserImage' = [UserImage EXCEPT ![x] = UserImage'[x]]
<1>1. /\ UserRun' = [r \in Proc |-> UserRun'[r]] /\ UserRun = [r \in Proc |-> UserRun[r]]
      /\ UserImage' = [r \in Proc |-> UserImage'[r]] /\ UserImage = [r \in Proc |-> UserImage[r]]
  BY DEF UserRun, UserImage
<1> QED BY <1>1

\* A step that nobody sees.
LEMMA ViewHidden ==
  ASSUME NEW x \in Proc, UserRun'[x] = UserRun[x], UserImage'[x] = UserImage[x],
         \A r \in Proc \ {x} : UserRun'[r] = UserRun[r] /\ UserImage'[r] = UserImage[r]
  PROVE  UM!Hidden
<1>1. /\ UserRun' = [r \in Proc |-> UserRun'[r]] /\ UserRun = [r \in Proc |-> UserRun[r]]
      /\ UserImage' = [r \in Proc |-> UserImage'[r]] /\ UserImage = [r \in Proc |-> UserImage[r]]
  BY DEF UserRun, UserImage
<1>2. UserRun' = UserRun /\ UserImage' = UserImage
  BY <1>1
<1> QED BY <1>2 DEF UM!Hidden, UM!vars

\* A hidden step of p.
LEMMA HiddenStep ==
  ASSUME Inv, Owned, DataInv, NEW p \in Proc, Local(p), MemKept(p), proc[p].state # "EMBRYO",
         UserRun'[p] = UserRun[p], UserPages(p)' = UserPages(p),
         \A v \in UserPages(p) : Content(pg'[p], mem', v) = Content(pg[p], mem, v),
         DataOK(p)'
  PROVE  DataInv' /\ UM!Hidden
<1>1. \A r \in Proc \ {p} : UserRun'[r] = UserRun[r] /\ UserImage'[r] = UserImage[r] /\ DataOK(r)'
  BY OthersSame
<1>2. UserImage'[p] = UserImage[p]
  BY ViewSame
<1>3. UM!Hidden
  BY <1>1, <1>2, ViewHidden
<1>4. DataInv'
  BY <1>1 DEF DataInv
<1> QED BY <1>3, <1>4

\* A panic changes nothing that a program sees.
LEMMA FrozenHidden ==
  ASSUME DataInv, Frozen
  PROVE  DataInv' /\ UM!Hidden
<1>1. proc' = proc /\ pg' = pg /\ kern' = kern /\ mem' = mem
  BY DEF Frozen
<1>2. UserRun' = UserRun /\ UserImage' = UserImage
  BY <1>1 DEF UserRun, UserImage, UserSize, UserPage
<1>3. UM!Hidden
  BY <1>2 DEF UM!Hidden, UM!vars
<1>4. DataInv'
  BY <1>1 DEF DataInv, DataOK, UserSize
<1> QED BY <1>3, <1>4

-----------------------------------------------------------------------------
\* Outside sbrk, fork and exec the invariant says nothing.
LEMMA DataIdle ==
  ASSUME NEW p \in Proc, Stage(kern'[p]) \in {"user", "swapin"}
  PROVE  DataOK(p)' /\ kern'[p].pc # "dealloc"
<1>1. /\ kern'[p].pc \notin {"grow", "alloc", "dealloc", "exec", "copy"}
      /\ Stage(kern'[p]) \notin {"grow", "alloc"}
  BY DEF Stage
<1> QED BY <1>1 DEF DataOK

\* Only sbrk's deallocuvm shows programs a size other than p->sz.
LEMMA SizeOf ==
  ASSUME NEW p \in Proc
  PROVE  /\ kern[p].pc # "dealloc" => UserSize(p) = proc[p].sz
         /\ kern'[p].pc # "dealloc" => UserSize(p)' = proc'[p].sz
BY DEF UserSize

\* A quiet step that does not write changes no content.
LEMMA QuietView ==
  ASSUME Inv, NEW p \in Proc, Quiet(p), mem' = mem
  PROVE  /\ \A v : Content(pg'[p], mem', v) = Content(pg[p], mem, v)
         /\ Mapped(pg'[p]) = Mapped(pg[p]) /\ MemKept(p) /\ Local(p)
         /\ proc[p].state # "EMBRYO" /\ UserRun[p] = "run" /\ UserRun'[p] = "run"
<1>1. /\ SameButBits(pg'[p], pg[p]) /\ SameFile(pg'[p], pg[p]) /\ Local(p)
      /\ Active(p) /\ kern[p].pc # "exec"
      /\ kern'[p].pc \notin {"exec", "copy", "failed", "halt"}
      /\ proc'[p].state = proc[p].state
  BY DEF Quiet
<1>2. /\ pg'[p].taken = pg[p].taken /\ pg'[p].pte = pg[p].pte /\ pg'[p].offset = pg[p].offset
      /\ pg'[p].PTE_P = pg[p].PTE_P /\ pg'[p].PTE_ADDR = pg[p].PTE_ADDR
      /\ pg'[p].PTE_PG = pg[p].PTE_PG
  BY <1>1, Zenon DEF SameButBits, SameMeta
<1>3. ASSUME NEW v PROVE Content(pg'[p], mem', v) = Content(pg[p], mem, v)
  BY <1>1, <1>2, ContentSame
<1>4. proc[p].state = "RUNNING" /\ kern[p].pc \notin {"failed", "halt"}
  BY <1>1 DEF Active
<1>5. UserRun[p] = "run" /\ UserRun'[p] = "run"
  BY <1>1, <1>4, RunOf
<1> QED BY <1>1, <1>2, <1>3, <1>4, <1>5 DEF Mapped, MemKept

\* A quiet step that nobody sees.
LEMMA QuietStep ==
  ASSUME Inv, Owned, DataInv, NEW p \in Proc, Quiet(p), mem' = mem,
         UserSize(p)' = UserSize(p), DataOK(p)'
  PROVE  DataInv' /\ UM!Hidden
<1>1. /\ \A v : Content(pg'[p], mem', v) = Content(pg[p], mem, v)
      /\ Mapped(pg'[p]) = Mapped(pg[p]) /\ MemKept(p) /\ Local(p)
      /\ proc[p].state # "EMBRYO" /\ UserRun[p] = "run" /\ UserRun'[p] = "run"
  BY QuietView
<1>2. UserPages(p)' = UserPages(p) /\ UserRun'[p] = UserRun[p]
  BY <1>1 DEF UserPages
<1> QED BY <1>1, <1>2, HiddenStep

\* Loads and page faults.
LEMMA LoadHidden ==
  ASSUME Inv, Owned, DataInv, NEW p \in Proc, NEW v \in Vpn, Load(p, v) \/ PageFault(p, v)
  PROVE  DataInv' /\ UM!Hidden
<1>1. CASE Load(p, v)
  <2>1. /\ Quiet(p) /\ mem' = mem /\ proc'[p] = proc[p] /\ kern'[p] = kern[p]
        /\ kern[p].pc = "user"
    BY <1>1, LoadEffect
  <2>2. Stage(kern'[p]) \in {"user", "swapin"}
    BY <2>1 DEF Stage
  <2>3. UserSize(p)' = UserSize(p)
    BY <2>1, SizeOf
  <2> QED BY <2>1, <2>2, <2>3, DataIdle, QuietStep, Zenon
<1>2. CASE PageFault(p, v)
  <2>1. CASE Frozen
    BY <2>1, FrozenHidden
  <2>2. CASE ~Frozen
    <3>1. /\ Quiet(p) /\ mem' = mem /\ proc'[p].sz = proc[p].sz /\ kern[p].pc = "user"
          /\ Stage(kern'[p]) \in {"user", "swapin"}
      BY <1>2, <2>2, PageFaultEffect
    <3>2. DataOK(p)' /\ kern'[p].pc # "dealloc"
      BY <3>1, DataIdle
    <3>3. UserSize(p)' = UserSize(p)
      BY <3>1, <3>2, SizeOf
    <3> QED BY <3>1, <3>2, <3>3, QuietStep
  <2> QED BY <2>1, <2>2
<1> QED BY <1>1, <1>2

\* What holds of a process that is at work.
LEMMA ActiveOK ==
  ASSUME Inv, NEW p \in Proc, Active(p)
  PROVE  /\ RecOK(pg[p]) /\ LoopOK(proc[p], pg[p], kern[p]) /\ pg[p] \in PageRec
         /\ proc[p].state = "RUNNING"
<1>1. LocalOK(proc[p], pg[p], kern[p]) /\ pg[p] \in PageRec
  BY Same DEF Inv
<1> QED BY <1>1, Zenon DEF LocalOK, Active, Lost

\* Sizes and page numbers are numbers.
LEMMA Numbers ==
  ASSUME Inv, NEW p \in Proc
  PROVE  /\ proc[p].sz \in Int /\ kern[p].a \in Int /\ kern[p].lim \in Int /\ kern[p].ret \in Int
         /\ proc[p].sz >= 0 /\ proc[p].sz <= NVPN /\ kern[p].lim <= NVPN
         /\ Mapped(pg[p]) \subseteq Vpn /\ Vpn \subseteq Nat /\ NVPN \in Nat
<1>1. proc[p] \in ProcRec /\ kern[p] \in KernRec /\ pg[p] \in PageRec
  BY Same
<1>2. NVPN \in Nat /\ Vpn \subseteq Nat
  BY Sizes, SizesAssumption
<1>3. proc[p].sz \in 0 .. NVPN
  BY <1>1 DEF ProcRec
<1>4. kern[p].a \in 0 .. NVPN /\ kern[p].lim \in 0 .. NVPN /\ kern[p].ret \in 0 .. NVPN
  BY <1>1 DEF KernRec
<1>5. Mapped(pg[p]) \subseteq Vpn
  BY <1>1 DEF PageRec, Mapped
<1> QED BY <1>2, <1>3, <1>4, <1>5

\* The walk for a victim, and a kalloc that fails during a page fault.
LEMMA ScanHidden ==
  ASSUME Inv, Owned, DataInv, NEW p \in Proc, Scan(p) \/ SwapInNoMemory(p)
  PROVE  DataInv' /\ UM!Hidden
<1>1. CASE Scan(p)
  <2>1. /\ Quiet(p) /\ mem' = mem /\ proc'[p] = proc[p]
        /\ kern[p].pc = "scan" /\ kern'[p].pc \in {"scan", "swapout"}
        /\ Stage(kern'[p]) = Stage(kern[p])
    BY <1>1, ScanEffect
  <2>2. /\ \A v : Content(pg'[p], mem', v) = Content(pg[p], mem, v)
        /\ Mapped(pg'[p]) = Mapped(pg[p])
    BY <2>1, QuietView
  <2>3. DataOK(p)
    BY DEF DataInv
  <2>4. DataOK(p)'
    BY <2>1, <2>2, <2>3, Zenon DEF DataOK
  <2>5. UserSize(p)' = UserSize(p)
    BY <2>1, SizeOf
  <2> QED BY <2>1, <2>4, <2>5, QuietStep, Zenon
<1>2. CASE SwapInNoMemory(p)
  <2>1. /\ Quiet(p) /\ mem' = mem /\ proc'[p] = proc[p]
        /\ kern[p].pc = "swapin" /\ kern'[p].pc = "user"
    BY <1>2, SwapInNoMemoryEffect
  <2>2. Stage(kern'[p]) \in {"user", "swapin"}
    BY <2>1 DEF Stage
  <2>3. UserSize(p)' = UserSize(p)
    BY <2>1, SizeOf
  <2> QED BY <2>1, <2>2, <2>3, DataIdle, QuietStep, Zenon
<1> QED BY <1>1, <1>2

\* The start of sbrk: the process has no page beyond its size.
LEMMA SbrkHidden ==
  ASSUME Inv, Owned, DataInv, NEW p \in Proc, NEW n, Sbrk(p, n)
  PROVE  DataInv' /\ UM!Hidden
<1>1. /\ Quiet(p) /\ mem' = mem /\ proc'[p] = proc[p] /\ pg'[p] = pg[p]
      /\ kern[p].pc = "user" /\ kern'[p].pc = "grow"
  BY SbrkEffect
<1>2. \A v \in Mapped(pg[p]) : ~(v >= proc[p].sz)
  <2>1. LoopOK(proc[p], pg[p], kern[p])
    BY <1>1, ActiveOK, Zenon DEF Quiet
  <2>2. Mapped(pg[p]) = {} \/ Mapped(pg[p]) = Below(proc[p].sz)
    BY <1>1, <2>1 DEF LoopOK, Stage
  <2> QED BY <2>2, Numbers DEF Below
<1>3. DataOK(p)'
  BY <1>1, <1>2 DEF DataOK
<1>4. UserSize(p)' = UserSize(p)
  BY <1>1, SizeOf
<1> QED BY <1>1, <1>3, <1>4, QuietStep

\* Allocuvm's loop goes on.
LEMMA GrowHidden ==
  ASSUME Inv, Owned, DataInv, NEW p \in Proc, Grow(p), kern[p].a # kern[p].lim
  PROVE  DataInv' /\ UM!Hidden
<1>1. /\ Quiet(p) /\ mem' = mem /\ kern[p].pc = "grow" /\ pg'[p] = pg[p]
      /\ Stage(kern'[p]) = "alloc" /\ proc'[p] = proc[p] /\ kern'[p].pc # "dealloc"
  BY GrowEffect
<1>2. kern'[p].pc \notin {"exec", "copy"}
  BY <1>1 DEF Quiet
<1>3. DataOK(p)
  BY DEF DataInv
<1>4. Stage(kern[p]) = "grow"
  BY <1>1 DEF Stage
<1>5. DataOK(p)'
  BY <1>1, <1>2, <1>3, <1>4 DEF DataOK
<1>6. UserSize(p)' = UserSize(p)
  BY <1>1, SizeOf
<1> QED BY <1>1, <1>5, <1>6, QuietStep

\* Allocuvm gives up: deallocuvm starts at the old size.
LEMMA AllocNoMemoryHidden ==
  ASSUME Inv, Owned, DataInv, NEW p \in Proc, AllocNoMemory(p)
  PROVE  DataInv' /\ UM!Hidden
<1>1. /\ Quiet(p) /\ mem' = mem /\ proc'[p] = proc[p] /\ pg'[p] = pg[p]
      /\ kern[p].pc = "alloc" /\ kern'[p].pc = "dealloc"
      /\ kern'[p].a = proc[p].sz /\ kern'[p].ret = proc[p].sz /\ kern'[p].lim = kern[p].lim
  BY AllocNoMemoryEffect
<1>2. proc[p].sz < kern[p].lim /\ proc[p].sz \in Int /\ Mapped(pg[p]) \subseteq Int
  <2>1. LoopOK(proc[p], pg[p], kern[p])
    BY <1>1, ActiveOK DEF Quiet
  <2>2. proc[p].sz <= kern[p].a /\ kern[p].a < kern[p].lim
    BY <1>1, <2>1, ZenonT(60) DEF LoopOK, Stage
  <2> QED BY <2>2, Numbers
<1>3. UserSize(p)' = proc[p].sz /\ UserSize(p) = proc[p].sz
  BY <1>1, <1>2 DEF UserSize
<1>4. DataOK(p)'
  <2>1. /\ Stage(kern'[p]) \notin {"grow", "alloc"}
        /\ kern'[p].pc # "exec" /\ kern'[p].pc # "copy"
    BY <1>1 DEF Stage
  <2>2. kern'[p].ret = proc'[p].sz /\ UserSize(p)' <= kern'[p].a
    BY <1>1, <1>2, <1>3
  <2>3. \A v \in Mapped(pg'[p]) : v < UserSize(p)' \/ v >= kern'[p].a
    BY <1>1, <1>2, <1>3
  <2> QED BY <2>1, <2>2, <2>3, Zenon DEF DataOK
<1> QED BY <1>1, <1>3, <1>4, QuietStep

\* Kalloc writes the frame it takes, kfree those it gets.
LEMMA KeptAlloc ==
  ASSUME Inv, NEW x \in Proc, NEW f \in free, NEW d, Alloc(f, d)
  PROVE  MemKept(x) /\ mem'[f] = d /\ \A g \in Frame \ {f} : mem'[g] = mem[g]
BY Same DEF Alloc, MemKept

\* The same for the frames that are freed.
LEMMA KeptFree ==
  ASSUME Inv, NEW x \in Proc, NEW S, S \subseteq Held(x), kfree(S)
  PROVE  MemKept(x) /\ \A g \in Frame \ S : mem'[g] = mem[g]
BY DEF kfree, MemKept

\* What deallocuvm's loop leaves of a size, which is what the program sees at the end.
LEMMA DeallocEnd ==
  ASSUME Inv, DataInv, NEW p \in Proc, Active(p), kern[p].pc = "dealloc", kern[p].a = kern[p].lim
  PROVE  \A v \in Mapped(pg[p]) : v < kern[p].ret <=> v < UserSize(p)
<1> SUFFICES ASSUME NEW v \in Mapped(pg[p]) PROVE v < kern[p].ret <=> v < UserSize(p)
  OBVIOUS
<1>1. DataOK(p) /\ LoopOK(proc[p], pg[p], kern[p])
  BY ActiveOK DEF DataInv
<1>2. PICK b \in {0, kern[p].ret}, t \in 0 .. kern[p].lim :
        Mapped(pg[p]) = {w \in Vpn : w < b \/ (kern[p].a <= w /\ w < t)}
  <2>1. Stage(kern[p]) = "dealloc"
    BY DEF Stage
  <2> QED BY <1>1, <2>1 DEF LoopOK
<1>3. /\ v < UserSize(p) \/ v >= kern[p].a
      /\ kern[p].lim = proc[p].sz \/ kern[p].ret = proc[p].sz
  BY <1>1, ZenonT(60) DEF DataOK
<1>4. /\ v \in Nat /\ kern[p].a \in Int /\ kern[p].lim \in Int /\ kern[p].ret \in Int
      /\ proc[p].sz \in Int
  BY Numbers, Zenon
<1>5. v < b \/ (kern[p].a <= v /\ v < t)
  BY <1>2
<1>6. UserSize(p) = IF kern[p].lim = proc[p].sz
                    THEN IF kern[p].ret = proc[p].sz THEN 0 ELSE kern[p].ret
                    ELSE proc[p].sz
  BY DEF UserSize
<1>7. v < UserSize(p)
  BY <1>3, <1>4, <1>5, <1>6
<1> QED BY <1>3, <1>4, <1>5, <1>6, <1>7

\* Deallocuvm's loop: the pages it removes are gone for the program already.
LEMMA DeallocHidden ==
  ASSUME Inv, Owned, DataInv, NEW p \in Proc, Dealloc(p)
  PROVE  DataInv' /\ UM!Hidden
<1>0. Active(p) /\ kern[p].pc = "dealloc" /\ DataOK(p)
  BY DeallocEffect DEF DataInv
<1>1. CASE kern[p].a = kern[p].lim
  <2>1. /\ Quiet(p) /\ mem' = mem /\ pg'[p] = pg[p] /\ proc'[p].sz = kern[p].ret
        /\ kern'[p].pc = "user"
    BY <1>1, DeallocEffect
  <2>2. /\ \A v : Content(pg'[p], mem', v) = Content(pg[p], mem, v)
        /\ MemKept(p) /\ Local(p)
        /\ proc[p].state # "EMBRYO" /\ UserRun[p] = "run" /\ UserRun'[p] = "run"
    BY <2>1, QuietView, Zenon
  <2>3. DataOK(p)' /\ UserSize(p)' = kern[p].ret
    <3>1. Stage(kern'[p]) \in {"user", "swapin"}
      BY <2>1 DEF Stage
    <3> QED BY <2>1, <3>1, DataIdle, SizeOf
  <2>4. UserPages(p)' = UserPages(p)
    <3>1. \A v \in Mapped(pg[p]) : v < kern[p].ret <=> v < UserSize(p)
      BY <1>0, <1>1, DeallocEnd, Zenon
    <3> QED BY <2>1, <2>2, <2>3, <3>1 DEF UserPages
  <2>5. UserRun'[p] = UserRun[p]
    BY <2>2
  <2> QED BY <2>2, <2>3, <2>4, <2>5, HiddenStep, Zenon
<1>2. CASE kern[p].a # kern[p].lim
  <2> DEFINE a == kern[p].a
  <2>1. /\ kern'[p].pc = "dealloc" /\ kern'[p].a = a + 1
        /\ kern'[p].lim = kern[p].lim /\ kern'[p].ret = kern[p].ret
        /\ \/ /\ Quiet(p) /\ mem' = mem /\ pg'[p] = pg[p] /\ proc'[p] = proc[p]
              /\ a \notin Mapped(pg[p])
           \/ PageGone(p)
    BY <1>2, DeallocEffect
  <2>2. proc'[p] = proc[p] /\ UserSize(p)' = UserSize(p) /\ Stage(kern'[p]) = "dealloc"
    BY <1>0, <2>1, ZenonT(60) DEF UserSize, PageGone, Stage
  <2>3. a \in Int /\ Mapped(pg[p]) \subseteq Int /\ UserSize(p) \in Int
    BY Numbers DEF UserSize
  <2>4. /\ kern[p].lim = proc[p].sz \/ kern[p].ret = proc[p].sz
        /\ UserSize(p) <= a
        /\ \A v \in Mapped(pg[p]) : v < UserSize(p) \/ v >= a
    BY <1>0 DEF DataOK
  <2>5. ASSUME Mapped(pg'[p]) = Mapped(pg[p]) \ {a} PROVE DataOK(p)'
    BY <2>1, <2>2, <2>3, <2>4, <2>5 DEF DataOK
  <2>6. CASE /\ Quiet(p) /\ mem' = mem /\ pg'[p] = pg[p] /\ a \notin Mapped(pg[p])
    <3>1. Mapped(pg'[p]) = Mapped(pg[p]) \ {a}
      BY <2>6
    <3> QED BY <2>2, <2>5, <2>6, <3>1, QuietStep, Zenon
  <2>7. CASE PageGone(p)
    <3> DEFINE f == pg[p].PTE_ADDR[a]
               S == IF a \in pg[p].PTE_P THEN {f} ELSE {}
    <3>1. /\ Local(p) /\ a \in Mapped(pg[p]) /\ PageRemoved(pg'[p], pg[p], a)
          /\ SameFile(pg'[p], pg[p]) /\ kfree(S)
      BY <2>7, Zenon DEF PageGone
    <3>2. Mapped(pg'[p]) = Mapped(pg[p]) \ {a}
      <4>1. pg'[p].PTE_PG = pg[p].PTE_PG \ {a} /\ pg'[p].PTE_P = pg[p].PTE_P \ {a}
        BY <3>1, Zenon DEF PageRemoved
      <4> QED BY <4>1 DEF Mapped
    <3>3. S \subseteq Held(p) /\ OneEach(pg[p]) /\ Held(p) \subseteq Frame
      BY OwnedHere, Zenon DEF Held, Frames
    <3>4. MemKept(p) /\ \A g \in Frame \ S : mem'[g] = mem[g]
      <4> HIDE DEF S
      <4> QED BY <3>1, <3>3, KeptFree, Zenon
    <3>5. \A u \in pg[p].PTE_P \ {a} : mem'[pg[p].PTE_ADDR[u]] = mem[pg[p].PTE_ADDR[u]]
      <4>1. \A u \in pg[p].PTE_P : pg[p].PTE_ADDR[u] \in Frame
        BY <3>3 DEF Held, Frames
      <4> QED BY <3>3, <3>4, <4>1, Zenon DEF OneEach
    <3>6. RecOK(pg[p]) /\ pg[p] \in PageRec /\ proc[p].state = "RUNNING"
      BY <1>0, ActiveOK
    <3>7. \A u \in Mapped(pg[p]) \ {a} : Content(pg'[p], mem', u) = Content(pg[p], mem, u)
      <4> HIDE DEF a
      <4>1. SameFrames(pg[p], mem, mem', pg[p].PTE_P \ {a})
        BY <3>5 DEF SameFrames
      <4>2. SameContents(pg[p], mem, pg'[p], mem', Mapped(pg[p]) \ {a})
        BY <3>1, <3>6, <4>1, ContentRemoved
      <4> QED BY <4>2 DEF SameContents
    <3>8. UserRun'[p] = UserRun[p] /\ UserRun[p] = "run"
      BY <1>0, <2>1, <2>2, <3>6, RunOf, Zenon
    <3>9. UserPages(p)' = UserPages(p) /\ UserPages(p) \subseteq Mapped(pg[p]) \ {a}
      BY <2>2, <2>3, <2>4, <3>2, <3>8 DEF UserPages
    <3>10. DataOK(p)'
      BY <2>5, <3>2
    <3>11. proc[p].state # "EMBRYO"
      BY <3>6
    <3> QED BY <3>1, <3>4, <3>7, <3>8, <3>9, <3>10, <3>11, HiddenStep, Zenon
  <2> QED BY <2>1, <2>6, <2>7, Zenon
<1> QED BY <1>1, <1>2

\* The resident pages of p outside the frames S keep their content, if only S is written.
LEMMA KeptFrames ==
  ASSUME Inv, Owned, NEW p \in Proc, NEW S, \A g \in Frame \ S : mem'[g] = mem[g]
  PROVE  \A u \in pg[p].PTE_P : pg[p].PTE_ADDR[u] \notin S =>
           mem'[pg[p].PTE_ADDR[u]] = mem[pg[p].PTE_ADDR[u]]
<1>1. Held(p) \subseteq Frame
  BY OwnedHere
<1>2. \A u \in pg[p].PTE_P : pg[p].PTE_ADDR[u] \in Frame
  BY <1>1 DEF Held, Frames
<1> QED BY <1>2

\* The eviction of a page moves its content to the swap file.
LEMMA SwapOutHidden ==
  ASSUME Inv, Owned, DataInv, NEW p \in Proc, SwapOut(p)
  PROVE  DataInv' /\ UM!Hidden
<1>1. /\ Active(p) /\ kern[p].pc = "swapout" /\ kern'[p].pc = kern[p].then
      /\ kern[p].then \in {"swapin", "alloc"}
  BY SwapOutEffect
<1>2. PICK v \in pg[p].PTE_P : PageEvicted(p, v)
  BY SwapOutEffect
<1> DEFINE f == pg[p].PTE_ADDR[v]
<1>3. /\ Local(p) /\ proc'[p] = proc[p] /\ PageOut(pg'[p], pg[p], v) /\ get_offset_ind(pg[p]) # -1
      /\ FileWritten(pg'[p], pg[p], mem[f]) /\ kfree({f})
  BY <1>2, Zenon DEF PageEvicted
<1>4. /\ RecOK(pg[p]) /\ pg[p] \in PageRec /\ proc[p].state = "RUNNING" /\ SwapOK(pg[p])
      /\ OneEach(pg[p])
  BY <1>1, ActiveOK, OwnedHere, Zenon
<1>5. MemKept(p) /\ \A g \in Frame \ {f} : mem'[g] = mem[g]
  <2>1. {f} \subseteq Held(p)
    BY DEF Held, Frames
  <2> HIDE DEF f
  <2> QED BY <1>3, <2>1, KeptFree, Zenon
<1>6. \A u \in pg[p].PTE_P \ {v} : mem'[pg[p].PTE_ADDR[u]] = mem[pg[p].PTE_ADDR[u]]
  <2>1. \A u \in pg[p].PTE_P \ {v} : pg[p].PTE_ADDR[u] \notin {f}
    BY <1>4 DEF OneEach
  <2> HIDE DEF f
  <2>2. \A u \in pg[p].PTE_P : pg[p].PTE_ADDR[u] \notin {f} =>
          mem'[pg[p].PTE_ADDR[u]] = mem[pg[p].PTE_ADDR[u]]
    BY <1>5, KeptFrames
  <2> QED BY <2>1, <2>2
<1>7. \A u \in Mapped(pg[p]) : Content(pg'[p], mem', u) = Content(pg[p], mem, u)
  <2>1. /\ pg[p] \in PageRec /\ RecOK(pg[p]) /\ SwapOK(pg[p]) /\ get_offset_ind(pg[p]) # -1
        /\ PageOut(pg'[p], pg[p], v) /\ FileWritten(pg'[p], pg[p], mem[pg[p].PTE_ADDR[v]])
    BY <1>3, <1>4
  <2>2. SameFrames(pg[p], mem, mem', pg[p].PTE_P \ {v})
    BY <1>6 DEF SameFrames
  <2>3. SameContents(pg[p], mem, pg'[p], mem', Mapped(pg[p]))
    BY <2>1, <2>2, ContentOut, Zenon
  <2> QED BY <2>3 DEF SameContents
<1>8. Mapped(pg'[p]) = Mapped(pg[p])
  <2>1. pg'[p].PTE_PG = pg[p].PTE_PG \cup {v} /\ pg'[p].PTE_P = pg[p].PTE_P \ {v}
    BY <1>3, Zenon DEF PageOut
  <2> QED BY <2>1 DEF Mapped
<1>9. /\ UserRun'[p] = UserRun[p] /\ UserRun[p] = "run" /\ proc[p].state # "EMBRYO"
      /\ UserSize(p)' = UserSize(p) /\ Stage(kern'[p]) = Stage(kern[p])
  BY <1>1, <1>3, <1>4, RunOf, SizeOf, Zenon DEF Stage
<1>10. UserPages(p)' = UserPages(p) /\ UserPages(p) \subseteq Mapped(pg[p])
  BY <1>8, <1>9, ZenonT(60) DEF UserPages
<1>11. DataOK(p)'
  <2>1. DataOK(p) /\ kern'[p].pc \notin {"dealloc", "exec", "copy"}
    BY <1>1 DEF DataInv
  <2> QED BY <1>3, <1>7, <1>8, <1>9, <2>1, Zenon DEF DataOK
<1> HIDE DEF f
<1> QED BY <1>3, <1>5, <1>7, <1>9, <1>10, <1>11, HiddenStep, Zenon

\* Reading a page in moves its content to a frame.
LEMMA SwapInHidden ==
  ASSUME Inv, Owned, DataInv, NEW p \in Proc, SwapIn(p)
  PROVE  DataInv' /\ UM!Hidden
<1> DEFINE v == kern[p].a
<1>1. /\ Active(p) /\ kern[p].pc = "swapin" /\ v \in pg[p].PTE_PG
      /\ Frozen \/ (kern'[p] = Idle /\ \E f \in free : PageRead(p, v, f))
  BY SwapInEffect
<1>2. CASE Frozen
  BY <1>2, FrozenHidden
<1>3. CASE kern'[p] = Idle /\ \E f \in free : PageRead(p, v, f)
  <2>1. PICK f \in free : PageRead(p, v, f)
    BY <1>3
  <2>2. /\ Local(p) /\ proc'[p] = proc[p] /\ PageIn(pg'[p], pg[p], v, f)
        /\ SameFile(pg'[p], pg[p]) /\ Alloc(f, UserPage(p, v))
    BY <2>1 DEF PageRead
  <2>3. UserPage(p, v) = Content(pg[p], mem, v)
    BY Zenon DEF UserPage, Content
  <2>4. MemKept(p) /\ mem'[f] = Content(pg[p], mem, v) /\ \A g \in Frame \ {f} : mem'[g] = mem[g]
    BY <2>2, <2>3, KeptAlloc, Zenon
  <2>5. RecOK(pg[p]) /\ pg[p] \in PageRec /\ proc[p].state = "RUNNING"
    BY <1>1, ActiveOK
  <2> HIDE DEF v
  <2>6. \A u \in pg[p].PTE_P : mem'[pg[p].PTE_ADDR[u]] = mem[pg[p].PTE_ADDR[u]]
    <3>1. \A u \in pg[p].PTE_P : pg[p].PTE_ADDR[u] \notin {f}
      <4>1. Held(p) \cap free = {}
        BY OwnedHere
      <4> QED BY <4>1 DEF Held, Frames
    <3>2. \A u \in pg[p].PTE_P : pg[p].PTE_ADDR[u] \notin {f} =>
            mem'[pg[p].PTE_ADDR[u]] = mem[pg[p].PTE_ADDR[u]]
      BY <2>4, KeptFrames
    <3> QED BY <3>1, <3>2
  <2>7. \A u \in Mapped(pg[p]) : Content(pg'[p], mem', u) = Content(pg[p], mem, u)
    <3>1. SameFrames(pg[p], mem, mem', pg[p].PTE_P \ {v})
      BY <2>6 DEF SameFrames
    <3>2. /\ pg[p] \in PageRec /\ RecOK(pg[p]) /\ v \in pg[p].PTE_PG
          /\ PageIn(pg'[p], pg[p], v, f) /\ SameFile(pg'[p], pg[p])
          /\ mem'[f] = Content(pg[p], mem, v)
      BY <1>1, <2>2, <2>4, <2>5, Zenon
    <3>3. SameContents(pg[p], mem, pg'[p], mem', Mapped(pg[p]))
      BY <3>1, <3>2, ContentIn, Zenon
    <3> QED BY <3>3 DEF SameContents
  <2>8. Mapped(pg'[p]) = Mapped(pg[p])
    <3>1. pg'[p].PTE_PG = pg[p].PTE_PG \ {v} /\ pg'[p].PTE_P = pg[p].PTE_P \cup {v}
      BY <2>2, Zenon DEF PageIn
    <3> QED BY <1>1, <3>1 DEF Mapped
  <2>9. kern'[p].pc = "user"
    BY <1>3, IdleFields
  <2>10. /\ UserRun'[p] = UserRun[p] /\ UserRun[p] = "run" /\ proc[p].state # "EMBRYO"
         /\ UserSize(p)' = UserSize(p)
    BY <1>1, <2>2, <2>5, <2>9, RunOf, SizeOf, Zenon
  <2>11. DataOK(p)'
    <3>1. Stage(kern'[p]) \in {"user", "swapin"}
      BY <2>9 DEF Stage
    <3> QED BY <3>1, DataIdle
  <2>12. UserPages(p)' = UserPages(p) /\ UserPages(p) \subseteq Mapped(pg[p])
    BY <2>8, <2>10, Zenon DEF UserPages
  <2> QED BY <2>2, <2>4, <2>7, <2>10, <2>11, <2>12, HiddenStep, Zenon
<1> QED BY <1>1, <1>2, <1>3

\* A frame from kalloc backs no page yet.
LEMMA NewFrame ==
  ASSUME Inv, Owned, NEW p \in Proc, NEW f \in free, NEW d, Alloc(f, d)
  PROVE  /\ MemKept(p) /\ mem'[f] = d
         /\ \A u \in pg[p].PTE_P : mem'[pg[p].PTE_ADDR[u]] = mem[pg[p].PTE_ADDR[u]]
<1>1. MemKept(p) /\ mem'[f] = d /\ \A g \in Frame \ {f} : mem'[g] = mem[g]
  BY KeptAlloc
<1>2. \A u \in pg[p].PTE_P : pg[p].PTE_ADDR[u] \notin {f} =>
        mem'[pg[p].PTE_ADDR[u]] = mem[pg[p].PTE_ADDR[u]]
  BY <1>1, KeptFrames
<1>3. Held(p) \cap free = {}
  BY OwnedHere
<1>4. \A u \in pg[p].PTE_P : pg[p].PTE_ADDR[u] \notin {f}
  BY <1>3 DEF Held, Frames
<1> QED BY <1>1, <1>2, <1>4, Zenon

\* The order of the integers is total.
LEMMA NotLess ==
  ASSUME NEW a \in Int, NEW b \in Int, b <= a
  PROVE  ~(a < b)
OBVIOUS

\* A new page of allocuvm is zero, and the program has it only when sbrk returns.
LEMMA AllocPageHidden ==
  ASSUME Inv, Owned, DataInv, NEW p \in Proc, AllocPage(p)
  PROVE  DataInv' /\ UM!Hidden
<1> DEFINE v == kern[p].a
<1>1. /\ Active(p) /\ kern[p].pc = "alloc" /\ Local(p) /\ SameFile(pg'[p], pg[p])
      /\ proc'[p].sz = proc[p].sz /\ proc'[p].state = proc[p].state
  BY AllocPageEffect, Zenon
<1>2. PICK f \in free :
        /\ PageMapped(p, v, f, Zero)
        /\ \/ kern'[p].pc = "grow" /\ PageAdded(pg'[p], pg[p], v, f)
           \/ /\ kern'[p].pc = "user" /\ pg'[p].taken = pg[p].taken /\ pg'[p].pte = pg[p].pte
              /\ pg'[p].offset = pg[p].offset /\ pg'[p].PTE_PG = pg[p].PTE_PG \ {v}
  BY AllocPageEffect
<1>3. /\ Alloc(f, Zero) /\ v \in Vpn /\ v \notin Mapped(pg[p])
      /\ pg'[p].PTE_P = pg[p].PTE_P \cup {v} /\ pg'[p].PTE_ADDR = [pg[p].PTE_ADDR EXCEPT ![v] = f]
  BY <1>2, Zenon DEF PageMapped
<1>4. /\ RecOK(pg[p]) /\ pg[p] \in PageRec /\ proc[p].state = "RUNNING"
      /\ Stage(kern[p]) = "alloc" /\ LoopOK(proc[p], pg[p], kern[p])
  BY <1>1, ActiveOK, Zenon DEF Stage
<1>5. ~(v < proc[p].sz) /\ v \in Int /\ proc[p].sz \in Int
  <2>1. proc[p].sz <= v
    BY <1>4 DEF LoopOK
  <2>2. v \in Int /\ proc[p].sz \in Int
    BY Numbers, Zenon
  <2> QED BY <2>1, <2>2, NotLess, Zenon
<1> HIDE DEF v
<1>6. /\ MemKept(p) /\ mem'[f] = Zero
      /\ \A u \in pg[p].PTE_P : mem'[pg[p].PTE_ADDR[u]] = mem[pg[p].PTE_ADDR[u]]
  BY <1>3, NewFrame, Zenon
<1>7. Mapped(pg'[p]) = Mapped(pg[p]) \cup {v}
  <2>1. pg'[p].PTE_PG = pg[p].PTE_PG \/ pg'[p].PTE_PG = pg[p].PTE_PG \ {v}
    BY <1>2, Zenon DEF PageAdded
  <2> QED BY <1>3, <2>1 DEF Mapped
<1>8. /\ UserRun'[p] = UserRun[p] /\ UserRun[p] = "run" /\ proc[p].state # "EMBRYO"
      /\ UserSize(p)' = proc[p].sz /\ UserSize(p) = proc[p].sz
  BY <1>1, <1>2, <1>4, RunOf, SizeOf, Zenon
<1>9. UserPages(p)' = UserPages(p) /\ UserPages(p) \subseteq Mapped(pg[p])
  BY <1>5, <1>7, <1>8, ZenonT(60) DEF UserPages
<1>10. CASE kern'[p].pc = "grow" /\ PageAdded(pg'[p], pg[p], v, f)
  <2>6. Content(pg'[p], mem', v) = Zero
    <3>1. pg[p].PTE_ADDR \in [Vpn -> Frame \cup {NoFrame}]
      BY <1>4, ZenonT(60) DEF PageRec
    <3>2. Content(pg'[p], mem', v) = mem'[f]
      BY <1>3, <3>1, ContentNew
    <3> QED BY <1>6, <3>2
  <2>1. \A u \in Mapped(pg[p]) : Content(pg'[p], mem', u) = Content(pg[p], mem, u)
    <3>1. /\ pg[p] \in PageRec /\ RecOK(pg[p]) /\ v \in Vpn /\ v \notin Mapped(pg[p])
          /\ PageAdded(pg'[p], pg[p], v, f) /\ SameFile(pg'[p], pg[p])
      BY <1>1, <1>3, <1>4, <1>10, Zenon
    <3>2. SameFrames(pg[p], mem, mem', pg[p].PTE_P)
      BY <1>6, Zenon DEF SameFrames
    <3>3. SameContents(pg[p], mem, pg'[p], mem', Mapped(pg[p]))
      BY <3>1, <3>2, ContentAdded, Zenon
    <3> QED BY <3>3 DEF SameContents
  <2>2. DataOK(p) /\ Stage(kern'[p]) = "grow"
    BY <1>10, Zenon DEF DataInv, Stage
  <2>3. \A u \in Mapped(pg[p]) : u >= proc[p].sz => Content(pg[p], mem, u) = Zero
    BY <1>4, <2>2, Zenon DEF DataOK
  <2>4. \A u \in Mapped(pg'[p]) : u >= proc'[p].sz => Content(pg'[p], mem', u) = Zero
    BY <1>1, <1>7, <2>1, <2>3, <2>6
  <2>5. DataOK(p)'
    BY <1>10, <2>2, <2>4, Zenon DEF DataOK
  <2> QED BY <1>1, <1>6, <1>8, <1>9, <2>1, <2>5, HiddenStep, Zenon
<1>11. CASE /\ kern'[p].pc = "user" /\ pg'[p].taken = pg[p].taken /\ pg'[p].pte = pg[p].pte
            /\ pg'[p].offset = pg[p].offset
  <2>1. ASSUME NEW u \in Mapped(pg[p]) PROVE Content(pg'[p], mem', u) = Content(pg[p], mem, u)
    <3>1. u # v /\ u \in Vpn
      BY <1>3, Numbers, Zenon
    <3>2. pg[p].PTE_ADDR \in [Vpn -> Frame \cup {NoFrame}]
      BY <1>4 DEF PageRec
    <3>3. u \in pg'[p].PTE_P <=> u \in pg[p].PTE_P
      BY <1>3, <3>1, Zenon
    <3>4. pg'[p].PTE_ADDR[u] = pg[p].PTE_ADDR[u]
      BY <1>3, <3>1, <3>2, Zenon
    <3>5. /\ pg'[p].taken = pg[p].taken /\ pg'[p].pte = pg[p].pte /\ pg'[p].offset = pg[p].offset
          /\ SameFile(pg'[p], pg[p]) /\ (u \in pg'[p].PTE_P <=> u \in pg[p].PTE_P)
          /\ u \in pg[p].PTE_P => /\ pg'[p].PTE_ADDR[u] = pg[p].PTE_ADDR[u]
                                  /\ mem'[pg[p].PTE_ADDR[u]] = mem[pg[p].PTE_ADDR[u]]
      BY <1>1, <1>6, <1>11, <3>3, <3>4, Zenon
    <3> QED BY <3>5, ContentFull
  <2>2. DataOK(p)'
    <3>1. Stage(kern'[p]) \in {"user", "swapin"}
      BY <1>11, Zenon DEF Stage
    <3> QED BY <3>1, DataIdle
  <2> QED BY <1>1, <1>6, <1>8, <1>9, <2>1, <2>2, HiddenStep, Zenon
<1> QED BY <1>2, <1>10, <1>11, Zenon

\* A page of the image that exec loads is zero; no program sees it yet.
LEMMA ExecPageHidden ==
  ASSUME Inv, Owned, DataInv, NEW p \in Proc, ExecPage(p)
  PROVE  DataInv' /\ UM!Hidden
<1> DEFINE v == kern[p].a
<1>1. /\ Active(p) /\ kern[p].pc = "exec" /\ kern'[p].pc = "exec" /\ Local(p)
      /\ proc'[p] = proc[p]
  BY ExecPageEffect, Zenon
<1>2. PICK f \in free : PageMapped(p, v, f, Zero)
  BY ExecPageEffect
<1>3. /\ Alloc(f, Zero) /\ v \in Vpn /\ v \notin pg[p].PTE_P
      /\ pg'[p].PTE_P = pg[p].PTE_P \cup {v} /\ pg'[p].PTE_ADDR = [pg[p].PTE_ADDR EXCEPT ![v] = f]
  BY <1>2, Zenon DEF PageMapped, Mapped
<1> HIDE DEF v
<1>4. proc[p].state = "RUNNING" /\ pg[p] \in PageRec
  BY <1>1, ActiveOK, Zenon
<1>5. /\ MemKept(p) /\ mem'[f] = Zero
      /\ \A u \in pg[p].PTE_P : mem'[pg[p].PTE_ADDR[u]] = mem[pg[p].PTE_ADDR[u]]
  BY <1>3, NewFrame
<1>6. UserRun'[p] = "exec" /\ UserRun[p] = "exec" /\ proc[p].state # "EMBRYO"
  BY <1>1, <1>4, RunOf
<1>7. UserPages(p)' = {} /\ UserPages(p) = {}
  BY <1>6 DEF UserPages
<1>8. \A u \in pg'[p].PTE_P : mem'[pg'[p].PTE_ADDR[u]] = Zero
  <2>1. \A u \in pg[p].PTE_P : mem[pg[p].PTE_ADDR[u]] = Zero
    BY <1>1 DEF DataInv, DataOK
  <2>2. pg[p].PTE_ADDR \in [Vpn -> Frame \cup {NoFrame}] /\ pg[p].PTE_P \subseteq Vpn
    BY <1>4, Zenon DEF PageRec
  <2>3. pg'[p].PTE_ADDR[v] = f /\ \A u \in pg[p].PTE_P : pg'[p].PTE_ADDR[u] = pg[p].PTE_ADDR[u]
    BY <1>3, <2>2, Zenon
  <2> QED BY <1>3, <1>5, <2>1, <2>3, Zenon
<1>9. DataOK(p)'
  <2>1. Stage(kern'[p]) = "exec"
    BY <1>1 DEF Stage
  <2> QED BY <1>1, <1>8, <2>1 DEF DataOK
<1>10. /\ UserRun'[p] = UserRun[p] /\ UserPages(p)' = UserPages(p)
       /\ \A u \in UserPages(p) : Content(pg'[p], mem', u) = Content(pg[p], mem, u)
  BY <1>6, <1>7
<1> QED BY <1>1, <1>5, <1>6, <1>9, <1>10, HiddenStep, Zenon

\* An exec that fails: no program sees the image that it gives up.
LEMMA ExecFailsHidden ==
  ASSUME Inv, Owned, DataInv, NEW p \in Proc, ExecFails(p)
  PROVE  DataInv' /\ UM!Hidden
<1>1. /\ Active(p) /\ kern[p].pc = "exec" /\ kern'[p].pc = "failed" /\ Local(p)
      /\ proc'[p] = proc[p] /\ kfree(Frames(pg[p]))
  BY ExecFailsEffect, Zenon
<1>2. MemKept(p)
  <2>1. Frames(pg[p]) \subseteq Held(p)
    BY DEF Held
  <2> QED BY <1>1, <2>1, KeptFree, Zenon
<1>3. proc[p].state = "RUNNING"
  BY <1>1, ActiveOK
<1>4. UserRun'[p] = "exec" /\ UserRun[p] = "exec" /\ proc[p].state # "EMBRYO"
  BY <1>1, <1>3, RunOf
<1>5. UserPages(p)' = {} /\ UserPages(p) = {}
  BY <1>4 DEF UserPages
<1>6. DataOK(p)'
  <2>1. Stage(kern'[p]) = "failed"
    BY <1>1, Zenon DEF Stage
  <2> QED BY <1>1, <2>1, Zenon DEF DataOK
<1>7. /\ UserRun'[p] = UserRun[p] /\ UserPages(p)' = UserPages(p)
      /\ \A u \in UserPages(p) : Content(pg'[p], mem', u) = Content(pg[p], mem, u)
  BY <1>4, <1>5
<1> QED BY <1>1, <1>2, <1>4, <1>6, <1>7, HiddenStep, Zenon

\* Kill sets a flag that no program sees.
LEMMA KillHidden ==
  ASSUME Inv, DataInv, NEW p \in Proc, Kill(p)
  PROVE  DataInv' /\ UM!Hidden
<1>1. /\ Local(p) /\ mem' = mem /\ pg'[p] = pg[p] /\ kern'[p] = kern[p]
      /\ proc'[p].state = proc[p].state /\ proc'[p].sz = proc[p].sz
  BY KillEffect, Zenon
<1>2. \A r \in Proc : /\ proc'[r].state = proc[r].state /\ proc'[r].sz = proc[r].sz
                      /\ pg'[r] = pg[r] /\ kern'[r] = kern[r]
  BY <1>1, Zenon DEF Local
<1>3. ASSUME NEW r \in Proc
      PROVE  UserRun'[r] = UserRun[r] /\ UserSize(r)' = UserSize(r)
  BY <1>2, RunOf DEF UserSize
<1>4. ASSUME NEW r \in Proc PROVE UserImage'[r] = UserImage[r]
  <2>1. UserPages(r)' = UserPages(r)
    BY <1>2, <1>3 DEF UserPages
  <2>2. \A v \in UserPages(r) : Content(pg'[r], mem', v) = Content(pg[r], mem, v)
    BY <1>1, <1>2, Zenon
  <2> QED BY <2>1, <2>2, ViewSame, Zenon
<1>5. UM!Hidden
  BY <1>3, <1>4, ViewHidden
<1>6. ASSUME NEW r \in Proc PROVE DataOK(r)'
  <2>1. DataOK(r)
    BY DEF DataInv
  <2>2. ASSUME kern[r].pc = "copy" PROVE \A q \in kern[r].peer : q \in Proc
    BY <2>2, Peers
  <2>3. /\ pg'[r] = pg[r] /\ kern'[r] = kern[r] /\ proc'[r].sz = proc[r].sz
        /\ UserSize(r)' = UserSize(r)
    BY <1>2, <1>3, ZenonT(60)
  <2>4. (Stage(kern[r]) \in {"grow", "alloc"} =>
          \A v \in Mapped(pg[r]) : v >= proc[r].sz => Content(pg[r], mem, v) = Zero)'
    BY <1>1, <2>1, <2>3, Zenon DEF DataOK
  <2>5. (kern[r].pc = "dealloc" =>
          /\ kern[r].lim = proc[r].sz \/ kern[r].ret = proc[r].sz
          /\ UserSize(r) <= kern[r].a
          /\ \A v \in Mapped(pg[r]) : v < UserSize(r) \/ v >= kern[r].a)'
    BY <2>1, <2>3, Zenon DEF DataOK
  <2>6. (kern[r].pc = "exec" => \A v \in pg[r].PTE_P : mem[pg[r].PTE_ADDR[v]] = Zero)'
    BY <1>1, <2>1, <2>3, Zenon DEF DataOK
  <2>7. (kern[r].pc = "copy" =>
          \A q \in kern[r].peer : \A v \in pg[q].PTE_P :
            mem[pg[q].PTE_ADDR[v]] = mem[pg[r].PTE_ADDR[v]])'
    BY <1>1, <1>2, <2>1, <2>2, <2>3 DEF DataOK
  <2> QED BY <2>4, <2>5, <2>6, <2>7, Zenon DEF DataOK
<1> QED BY <1>5, <1>6 DEF DataInv

\* Wait frees the memory of a program that has exited.
LEMMA ReapHidden ==
  ASSUME Inv, Owned, DataInv, NEW p \in Proc, Reap(p)
  PROVE  DataInv' /\ UM!Hidden
<1>1. /\ Local(p) /\ kern'[p].pc = "user" /\ kfree(Held(p))
      /\ proc[p].state = "ZOMBIE" /\ proc'[p].state = "UNUSED"
  BY ReapEffect, IdleFields, ZenonT(60)
<1>2. MemKept(p)
  BY <1>1, KeptFree, Zenon
<1>3. UserRun'[p] = "none" /\ UserRun[p] = "none"
  BY <1>1, RunOf
<1>4. UserPages(p)' = {} /\ UserPages(p) = {}
  BY <1>3 DEF UserPages
<1>5. DataOK(p)'
  <2>1. Stage(kern'[p]) \in {"user", "swapin"}
    BY <1>1, Zenon DEF Stage
  <2> QED BY <2>1, DataIdle, Zenon
<1>6. /\ UserRun'[p] = UserRun[p] /\ UserPages(p)' = UserPages(p) /\ proc[p].state # "EMBRYO"
      /\ \A u \in UserPages(p) : Content(pg'[p], mem', u) = Content(pg[p], mem, u)
  BY <1>1, <1>3, <1>4
<1> QED BY <1>1, <1>2, <1>5, <1>6, HiddenStep, Zenon
=============================================================================
