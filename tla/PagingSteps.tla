---------------------------- MODULE PagingSteps -----------------------------
(***************************************************************************)
(* What each action of module Paging does to one slot of the process table,*)
(* how much of the swap file is written, and what the operations of swap.c *)
(* do to the contents of pages, wherever these are.                        *)
(***************************************************************************)
EXTENDS PagingLemmas

\* What Owned says of one slot.
LEMMA OwnedHere ==
  ASSUME Inv, Owned, NEW p \in Proc
  PROVE  /\ OneEach(pg[p]) /\ Frames(pg[p]) \cap kern[p].old = {}
         /\ Held(p) \cap free = {} /\ Held(p) \subseteq Frame
         /\ kern[p].pc \notin {"exec", "failed"} => kern[p].old = {}
         /\ Active(p) => SwapOK(pg[p])
         /\ proc[p].state = "UNUSED" => pg[p].PTE_P = {}
<1>1. Frames(pg[p]) \subseteq Frame
  BY DEF Inv, LocalOK, AddrOK, Frames
<1>2. kern[p].old \subseteq Frame
  BY DEF Inv, TypeOK, KernRec
<1> QED
  BY <1>1, <1>2, Zenon DEF Owned, FramesExclusive, OneEach, Held

\* Such a step, from what an action says.
LEMMA LocalEffect ==
  ASSUME Inv, NEW p \in Proc, NEW c, NEW pr, NEW k,
         proc' = [proc EXCEPT ![p] = c], pg' = [pg EXCEPT ![p] = pr],
         kern' = [kern EXCEPT ![p] = k]
  PROVE  Local(p) /\ proc'[p] = c /\ pg'[p] = pr /\ kern'[p] = k
BY DEF Inv, TypeOK, Local

\* The state is a table of slots.
LEMMA Tables ==
  ASSUME Inv
  PROVE  proc \in [Proc -> ProcRec] /\ pg \in [Proc -> PageRec] /\ kern \in [Proc -> KernRec]
BY DEF Inv, TypeOK

-----------------------------------------------------------------------------
\* The paging record of a process in the kernel, or about to run, is in use.
LEMMA RunsActive ==
  ASSUME Inv, NEW p \in Proc
  PROVE  /\ User(p) => Active(p) /\ kern[p].pc = "user"
         /\ \A pc : In(p, pc) /\ pc \notin {"user", "failed", "halt"} => Active(p) /\ kern[p].pc = pc
BY Zenon DEF User, In, Active

\* The fields of Idle, and of what is made from it.
LEMMA IdleFields ==
  /\ Idle.pc = "user" /\ Idle.old = {} /\ Idle.then = "user"
  /\ \A v, i : LET k == [Idle EXCEPT !.pc = "scan", !.cur = i, !.a = v, !.then = "swapin"]
               IN k.pc = "scan" /\ k.then = "swapin" /\ k.a = v /\ k.old = {}
  /\ \A v : LET k == [Idle EXCEPT !.pc = "swapin", !.a = v]
            IN k.pc = "swapin" /\ k.a = v /\ k.old = {}
  /\ \A pc, a, lim, ret :
       LET k == [Idle EXCEPT !.pc = pc, !.a = a, !.lim = lim, !.ret = ret]
       IN k.pc = pc /\ k.a = a /\ k.lim = lim /\ k.ret = ret /\ k.old = {}
BY DEF Idle

\* A process that does not exec has no image to replace.
LEMMA NothingOld ==
  ASSUME Owned, NEW p \in Proc, kern[p].pc \notin {"exec", "failed"}
  PROVE  kern[p].old = {}
BY DEF Owned

\* A step that leaves the paging record as it is is quiet.
LEMMA QuietRecord ==
  ASSUME Inv, NEW p \in Proc, Active(p), kern[p].pc \notin {"exec", "copy"}, Local(p),
         pg'[p] = pg[p], free' = free, proc'[p].state = proc[p].state,
         kern'[p].old = kern[p].old, kern'[p].pc \notin {"exec", "copy", "failed", "halt"}
  PROVE  Quiet(p)
<1>1. pg[p] \in PageRec
  BY Same
<1>2. SameButBits(pg[p], pg[p]) /\ SameFile(pg[p], pg[p])
  BY <1>1, Zenon DEF SameButBits, SameMeta, SameFile
<1> QED BY <1>2 DEF Quiet

\* References to memory set the accessed bit, and a store changes a frame.
LEMMA TouchEffect ==
  ASSUME Inv, NEW p \in Proc, NEW v \in Vpn, User(p),
         SetPage(p, [pg[p] EXCEPT !.PTE_A = @ \cup {v}]), UNCHANGED <<proc, kern, free>>
  PROVE  Quiet(p) /\ proc'[p] = proc[p] /\ kern'[p] = kern[p] /\ kern[p].pc = "user"
<1> DEFINE A == pg[p].PTE_A \cup {v}
           pr == [pg[p] EXCEPT !.PTE_A = A]
<1>1. pg[p] \in PageRec /\ A \in SUBSET Vpn
  BY Same DEF PageRec
<1>2. SameButBits(pr, pg[p]) /\ SameFile(pr, pg[p])
  <2>1. SameButBits(pr, pg[p])
    BY <1>1, Bits, ZenonT(60)
  <2>2. SameFile(pr, pg[p])
    BY <1>1 DEF SameFile, PageRec
  <2> QED BY <2>1, <2>2
<1>3. pg' = [pg EXCEPT ![p] = pr]
  BY DEF SetPage
<1> HIDE DEF pr
<1>4. proc' = [proc EXCEPT ![p] = proc[p]] /\ kern' = [kern EXCEPT ![p] = kern[p]]
  BY Same
<1>5. Local(p) /\ proc'[p] = proc[p] /\ pg'[p] = pr /\ kern'[p] = kern[p]
  BY <1>3, <1>4, LocalEffect, Zenon
<1> QED BY <1>2, <1>5, RunsActive DEF Quiet

\* A page fault kills the process or starts the search for the page.
LEMMA PageFaultEffect ==
  ASSUME Inv, Owned, NEW p \in Proc, NEW v \in Vpn, PageFault(p, v)
  PROVE  /\ mem' = mem
         /\ \/ Frozen
            \/ /\ Quiet(p) /\ proc'[p].sz = proc[p].sz /\ kern[p].pc = "user"
               /\ Stage(kern'[p]) \in {"user", "swapin"}
<1>0. /\ Active(p) /\ kern[p].pc = "user" /\ kern[p].old = {}
      /\ proc[p] \in ProcRec
  BY RunsActive, NothingOld, Same, Zenon DEF PageFault
<1>1. CASE v \in pg[p].PTE_P
  BY <1>1, Zenon DEF PageFault, Crash, Frozen
<1>2. CASE v \notin pg[p].PTE_P /\ v \notin pg[p].PTE_PG
  <2> DEFINE c == [proc[p] EXCEPT !.killed = TRUE]
  <2>1. proc' = [proc EXCEPT ![p] = c] /\ UNCHANGED <<pg, kern, mem, free>>
    BY <1>2 DEF PageFault
  <2>2. c.state = proc[p].state /\ c.sz = proc[p].sz
    BY <1>0 DEF ProcRec
  <2>3. mem' = mem /\ free' = free
    BY <2>1
  <2> HIDE DEF c
  <2>5. Local(p) /\ proc'[p] = c /\ pg'[p] = pg[p] /\ kern'[p] = kern[p]
    BY <2>1, Tables DEF Local
  <2>4. Quiet(p)
    BY <1>0, <2>2, <2>3, <2>5, QuietRecord
  <2> QED BY <1>0, <2>2, <2>3, <2>4, <2>5, Zenon DEF Stage
<1>3. CASE v \notin pg[p].PTE_P /\ v \in pg[p].PTE_PG
  <2> DEFINE k == IF pg[p].phys_pages = MAX_PHYS_PAGES
                  THEN [Idle EXCEPT !.pc = "scan", !.cur = pg[p].headp,
                                    !.a = v, !.then = "swapin"]
                  ELSE [Idle EXCEPT !.pc = "swapin", !.a = v]
  <2>1. kern' = [kern EXCEPT ![p] = k] /\ UNCHANGED <<proc, pg, mem, free>>
    BY <1>3 DEF PageFault, Goto
  <2>2. k.old = {} /\ k.pc \in {"scan", "swapin"} /\ (k.pc = "scan" => k.then = "swapin")
    BY DEF Idle
  <2> HIDE DEF k
  <2>3. mem' = mem /\ free' = free
    BY <2>1
  <2>4. k.pc \notin {"exec", "copy", "failed", "halt"} /\ Stage(k) = "swapin"
    BY <2>2 DEF Stage
  <2>5. Local(p) /\ proc'[p] = proc[p] /\ pg'[p] = pg[p] /\ kern'[p] = k
    BY <2>1, Tables DEF Local
  <2>6. /\ proc'[p].state = proc[p].state /\ kern'[p].old = kern[p].old
        /\ kern'[p].pc \notin {"exec", "copy", "failed", "halt"} /\ kern[p].pc \notin {"exec", "copy"}
    BY <1>0, <2>2, <2>4, <2>5
  <2>7. Quiet(p)
    BY <1>0, <2>3, <2>5, <2>6, QuietRecord, Zenon
  <2> QED BY <1>0, <2>3, <2>4, <2>5, <2>7, Zenon
<1> QED BY <1>1, <1>2, <1>3

\* A turn of get_page_to_swap's loop clears an accessed bit at most.
LEMMA ScanEffect ==
  ASSUME Inv, NEW p \in Proc, Scan(p)
  PROVE  /\ Quiet(p) /\ mem' = mem /\ proc'[p] = proc[p] /\ SameKern(p)
         /\ kern[p].pc = "scan" /\ kern'[p].pc \in {"scan", "swapout"}
         /\ Stage(kern'[p]) = Stage(kern[p])
<1> DEFINE i == kern[p].cur
           v == pg[p].pte[i]
           nx == pg[p].nextp[i]
<1>0. /\ RecOK(pg[p]) /\ LoopOK(proc[p], pg[p], kern[p]) /\ kern[p].pc = "scan"
      /\ pg[p] \in PageRec /\ kern[p] \in KernRec /\ Active(p)
  BY InKernel, RunsActive, ZenonT(60) DEF Scan
<1>1. i \in pg[p].on_phys /\ kern[p].pc \notin {"exec", "copy"}
  BY <1>0, LoopVictim
<1>3. CASE v \notin pg[p].PTE_A
  <2> DEFINE k == [kern[p] EXCEPT !.pc = "swapout"]
  <2>1. kern' = [kern EXCEPT ![p] = k] /\ UNCHANGED <<proc, pg, mem, free>>
    BY <1>1, <1>3 DEF Scan, Goto
  <2>2. /\ k.pc = "swapout" /\ k.a = kern[p].a /\ k.lim = kern[p].lim /\ k.old = kern[p].old
        /\ k.ret = kern[p].ret /\ k.then = kern[p].then /\ k.peer = kern[p].peer
    BY <1>0 DEF KernRec
  <2> HIDE DEF k
  <2>3. mem' = mem /\ free' = free
    BY <2>1
  <2>4. Local(p) /\ proc'[p] = proc[p] /\ pg'[p] = pg[p] /\ kern'[p] = k
    BY <2>1, Tables DEF Local
  <2>5. Quiet(p)
    BY <1>0, <2>2, <2>3, <2>4, QuietRecord
  <2> QED BY <1>0, <2>2, <2>3, <2>4, <2>5, Zenon DEF SameKern, Stage
<1>4. CASE v \in pg[p].PTE_A
  <2> DEFINE A == pg[p].PTE_A \ {v}
             pr == [pg[p] EXCEPT !.PTE_A = A]
             pc2 == IF nx = pg[p].headp THEN "swapout" ELSE kern[p].pc
             k == [kern[p] EXCEPT !.cur = nx, !.pc = pc2]
  <2>1. /\ pg' = [pg EXCEPT ![p] = pr] /\ kern' = [kern EXCEPT ![p] = k]
        /\ UNCHANGED <<proc, mem, free>>
    BY <1>1, <1>4 DEF Scan, Goto, SetPage
  <2>2. /\ k.pc = pc2 /\ k.a = kern[p].a /\ k.lim = kern[p].lim /\ k.old = kern[p].old
        /\ k.ret = kern[p].ret /\ k.then = kern[p].then /\ k.peer = kern[p].peer
    BY <1>0, Zenon DEF KernRec
  <2>3. A \in SUBSET Vpn /\ pc2 \in {"scan", "swapout"}
    BY <1>0 DEF PageRec
  <2>4. SameButBits(pr, pg[p])
    BY <1>0, <2>3, Bits, ZenonT(60)
  <2>5. SameFile(pr, pg[p])
    BY <1>0 DEF SameFile, PageRec
  <2>6. mem' = mem /\ free' = free
    BY <2>1
  <2> HIDE DEF k, pr, pc2
  <2>7. Local(p) /\ proc'[p] = proc[p] /\ pg'[p] = pr /\ kern'[p] = k
    BY <2>1, Tables DEF Local
  <2>8. Quiet(p)
    BY <1>0, <2>2, <2>3, <2>4, <2>5, <2>6, <2>7 DEF Quiet
  <2> QED BY <1>0, <2>2, <2>3, <2>6, <2>7, <2>8, Zenon DEF SameKern, Stage
<1> QED BY <1>3, <1>4

\* Handle_pgflt without memory goes back to the instruction.
LEMMA SwapInNoMemoryEffect ==
  ASSUME Inv, Owned, NEW p \in Proc, SwapInNoMemory(p)
  PROVE  /\ Quiet(p) /\ mem' = mem /\ proc'[p] = proc[p] /\ kern'[p] = Idle
         /\ kern[p].pc = "swapin" /\ kern'[p].pc = "user"
<1>0. /\ Active(p) /\ kern[p].pc = "swapin" /\ kern[p].old = {}
      /\ Idle.pc = "user" /\ Idle.old = {}
  BY RunsActive, NothingOld, IdleFields DEF SwapInNoMemory
<1>1. kern' = [kern EXCEPT ![p] = Idle] /\ UNCHANGED <<proc, pg, mem, free>>
  BY DEF SwapInNoMemory, Goto
<1>2. /\ Local(p) /\ proc'[p] = proc[p] /\ pg'[p] = pg[p] /\ kern'[p] = Idle
      /\ mem' = mem /\ free' = free
  BY <1>1, Tables DEF Local
<1>3. /\ proc'[p].state = proc[p].state /\ kern'[p].old = kern[p].old
      /\ kern'[p].pc \notin {"exec", "copy", "failed", "halt"} /\ kern[p].pc \notin {"exec", "copy"}
  BY <1>0, <1>2
<1>4. Quiet(p)
  BY <1>0, <1>2, <1>3, QuietRecord, Zenon
<1> QED BY <1>0, <1>2, <1>4, Zenon

\* Sbrk(n) enters allocuvm's loop.
LEMMA SbrkEffect ==
  ASSUME Inv, Owned, NEW p \in Proc, NEW n, Sbrk(p, n)
  PROVE  /\ Quiet(p) /\ mem' = mem /\ proc'[p] = proc[p] /\ pg'[p] = pg[p]
         /\ kern[p].pc = "user" /\ kern'[p].pc = "grow"
<1> DEFINE k == [Idle EXCEPT !.pc = "grow", !.a = proc[p].sz,
                             !.lim = proc[p].sz + n, !.ret = proc[p].sz + n]
<1>0. Active(p) /\ kern[p].pc = "user" /\ kern[p].old = {}
  BY RunsActive, NothingOld, Zenon DEF Sbrk, Syscall
<1>1. kern' = [kern EXCEPT ![p] = k] /\ UNCHANGED <<proc, pg, mem, free>>
  BY DEF Sbrk, Goto
<1>2. k.pc = "grow" /\ k.old = {}
  BY IdleFields
<1> HIDE DEF k
<1>3. /\ Local(p) /\ proc'[p] = proc[p] /\ pg'[p] = pg[p] /\ kern'[p] = k
      /\ mem' = mem /\ free' = free
  BY <1>1, Tables DEF Local
<1>4. /\ proc'[p].state = proc[p].state /\ kern'[p].old = kern[p].old
      /\ kern'[p].pc \notin {"exec", "copy", "failed", "halt"} /\ kern[p].pc \notin {"exec", "copy"}
  BY <1>0, <1>2, <1>3
<1>5. Quiet(p)
  BY <1>0, <1>3, <1>4, QuietRecord, Zenon
<1> QED BY <1>0, <1>2, <1>3, <1>5, Zenon

\* The head of allocuvm's loop stores the new size, or looks for a frame.
LEMMA GrowEffect ==
  ASSUME Inv, Owned, NEW p \in Proc, Grow(p)
  PROVE  /\ Quiet(p) /\ mem' = mem /\ kern[p].pc = "grow" /\ pg'[p] = pg[p]
         /\ \/ /\ kern[p].a = kern[p].lim /\ kern'[p].pc = "user"
               /\ proc'[p].sz = kern[p].ret
            \/ /\ kern[p].a # kern[p].lim /\ Stage(kern'[p]) = "alloc" /\ SameKern(p)
               /\ proc'[p] = proc[p] /\ kern'[p].pc # "dealloc"
<1>0. /\ Active(p) /\ kern[p].pc = "grow" /\ kern[p].old = {}
      /\ proc[p] \in ProcRec /\ kern[p] \in KernRec /\ Idle.pc = "user" /\ Idle.old = {}
  BY RunsActive, NothingOld, IdleFields, Same DEF Grow
<1>1. CASE kern[p].a = kern[p].lim
  <2> DEFINE c == [proc[p] EXCEPT !.sz = kern[p].ret]
  <2>1. /\ proc' = [proc EXCEPT ![p] = c] /\ kern' = [kern EXCEPT ![p] = Idle]
        /\ UNCHANGED <<pg, mem, free>>
    BY <1>1 DEF Grow, Goto
  <2>2. c.state = proc[p].state /\ c.sz = kern[p].ret
    BY <1>0 DEF ProcRec
  <2> HIDE DEF c
  <2>3. /\ Local(p) /\ proc'[p] = c /\ pg'[p] = pg[p] /\ kern'[p] = Idle
        /\ mem' = mem /\ free' = free
    BY <2>1, Tables DEF Local
  <2>4. /\ proc'[p].state = proc[p].state /\ kern'[p].old = kern[p].old
        /\ kern'[p].pc \notin {"exec", "copy", "failed", "halt"} /\ kern[p].pc \notin {"exec", "copy"}
    BY <1>0, <2>2, <2>3
  <2>5. Quiet(p)
    BY <1>0, <2>3, <2>4, QuietRecord, Zenon
  <2> QED BY <1>0, <1>1, <2>2, <2>3, <2>5, Zenon
<1>2. CASE kern[p].a # kern[p].lim
  <2> DEFINE k == IF pg[p].phys_pages >= MAX_PHYS_PAGES
                  THEN [kern[p] EXCEPT !.pc = "scan", !.cur = pg[p].headp, !.then = "alloc"]
                  ELSE [kern[p] EXCEPT !.pc = "alloc"]
  <2>1. kern' = [kern EXCEPT ![p] = k] /\ UNCHANGED <<proc, pg, mem, free>>
    BY <1>2 DEF Grow, Goto
  <2>2. /\ k.a = kern[p].a /\ k.lim = kern[p].lim /\ k.ret = kern[p].ret
        /\ k.peer = kern[p].peer /\ k.old = kern[p].old
        /\ k.pc \in {"scan", "alloc"} /\ (k.pc = "scan" => k.then = "alloc")
    BY <1>0 DEF KernRec
  <2> HIDE DEF k
  <2>3. /\ Local(p) /\ proc'[p] = proc[p] /\ pg'[p] = pg[p] /\ kern'[p] = k
        /\ mem' = mem /\ free' = free
    BY <2>1, Tables DEF Local
  <2>4. /\ proc'[p].state = proc[p].state /\ kern'[p].old = kern[p].old
        /\ kern'[p].pc \notin {"exec", "copy", "failed", "halt"} /\ kern[p].pc \notin {"exec", "copy"}
    BY <1>0, <2>2, <2>3
  <2>5. Quiet(p)
    BY <1>0, <2>3, <2>4, QuietRecord, Zenon
  <2>6. Stage(k) = "alloc" /\ k.pc # "dealloc"
    BY <2>2 DEF Stage
  <2> QED BY <1>0, <1>2, <2>2, <2>3, <2>5, <2>6, Zenon DEF SameKern
<1> QED BY <1>1, <1>2

\* Allocuvm without memory calls deallocuvm for the pages it has added.
LEMMA AllocNoMemoryEffect ==
  ASSUME Inv, Owned, NEW p \in Proc, AllocNoMemory(p)
  PROVE  /\ Quiet(p) /\ mem' = mem /\ proc'[p] = proc[p] /\ pg'[p] = pg[p]
         /\ kern[p].pc = "alloc" /\ kern'[p].pc = "dealloc"
         /\ kern'[p].a = proc[p].sz /\ kern'[p].ret = proc[p].sz /\ kern'[p].lim = kern[p].lim
<1> DEFINE k == [kern[p] EXCEPT !.pc = "dealloc", !.a = proc[p].sz, !.ret = proc[p].sz]
<1>0. Active(p) /\ kern[p].pc = "alloc" /\ kern[p].old = {} /\ kern[p] \in KernRec
  BY RunsActive, NothingOld, Same DEF AllocNoMemory
<1>1. kern' = [kern EXCEPT ![p] = k] /\ UNCHANGED <<proc, pg, mem, free>>
  BY DEF AllocNoMemory, Goto
<1>2. /\ k.pc = "dealloc" /\ k.a = proc[p].sz /\ k.ret = proc[p].sz
      /\ k.lim = kern[p].lim /\ k.old = kern[p].old
  BY <1>0 DEF KernRec
<1> HIDE DEF k
<1>3. /\ Local(p) /\ proc'[p] = proc[p] /\ pg'[p] = pg[p] /\ kern'[p] = k
      /\ mem' = mem /\ free' = free
  BY <1>1, Tables DEF Local
<1>4. /\ proc'[p].state = proc[p].state /\ kern'[p].old = kern[p].old
      /\ kern'[p].pc \notin {"exec", "copy", "failed", "halt"} /\ kern[p].pc \notin {"exec", "copy"}
  BY <1>0, <1>2, <1>3
<1>5. Quiet(p)
  BY <1>0, <1>3, <1>4, QuietRecord, Zenon
<1> QED BY <1>0, <1>2, <1>3, <1>5, Zenon

\* Sbrk(-n) enters deallocuvm's loop.
LEMMA SbrkDownEffect ==
  ASSUME Inv, Owned, NEW p \in Proc, NEW n, SbrkDown(p, n)
  PROVE  /\ Quiet(p) /\ mem' = mem /\ proc'[p] = proc[p] /\ pg'[p] = pg[p]
         /\ kern[p].pc = "user" /\ kern'[p].pc = "dealloc"
         /\ kern'[p].a = proc[p].sz - n /\ kern'[p].lim = proc[p].sz
         /\ kern'[p].ret = IF proc[p].sz - n = 0 THEN proc[p].sz ELSE proc[p].sz - n
<1> DEFINE newsz == proc[p].sz - n
           ret == IF newsz = 0 THEN proc[p].sz ELSE newsz
           k == [Idle EXCEPT !.pc = "dealloc", !.a = newsz, !.lim = proc[p].sz, !.ret = ret]
<1>0. Active(p) /\ kern[p].pc = "user" /\ kern[p].old = {}
  BY RunsActive, NothingOld, Zenon DEF SbrkDown, Syscall
<1>1. kern' = [kern EXCEPT ![p] = k] /\ UNCHANGED <<proc, pg, mem, free>>
  BY DEF SbrkDown, Goto
<1>2. /\ k.pc = "dealloc" /\ k.old = {} /\ k.a = newsz /\ k.lim = proc[p].sz /\ k.ret = ret
  <2> HIDE DEF newsz, ret
  <2> QED BY DEF Idle
<1> HIDE DEF k
<1>3. /\ Local(p) /\ proc'[p] = proc[p] /\ pg'[p] = pg[p] /\ kern'[p] = k
      /\ mem' = mem /\ free' = free
  BY <1>1, Tables DEF Local
<1>4. /\ proc'[p].state = proc[p].state /\ kern'[p].old = kern[p].old
      /\ kern'[p].pc \notin {"exec", "copy", "failed", "halt"} /\ kern[p].pc \notin {"exec", "copy"}
  BY <1>0, <1>2, <1>3, Zenon
<1>5. Quiet(p)
  BY <1>0, <1>3, <1>4, QuietRecord, Zenon
<1> QED BY <1>0, <1>2, <1>3, <1>5, Zenon

\* A turn of deallocuvm's loop ends it, steps over a page or removes one.
LEMMA DeallocEffect ==
  ASSUME Inv, Owned, NEW p \in Proc, Dealloc(p)
  PROVE  /\ Active(p) /\ kern[p].pc = "dealloc"
         /\ \/ /\ Quiet(p) /\ mem' = mem /\ pg'[p] = pg[p]
               /\ kern[p].a = kern[p].lim /\ proc'[p].sz = kern[p].ret /\ kern'[p].pc = "user"
            \/ /\ kern'[p].pc = "dealloc" /\ kern'[p].a = kern[p].a + 1
               /\ kern[p].a # kern[p].lim
               /\ kern'[p].lim = kern[p].lim /\ kern'[p].ret = kern[p].ret
               /\ kern'[p].old = {}
               /\ \/ /\ Quiet(p) /\ mem' = mem /\ pg'[p] = pg[p] /\ proc'[p] = proc[p]
                     /\ kern[p].a \notin Mapped(pg[p])
                  \/ PageGone(p)
<1>0. /\ Active(p) /\ kern[p].pc = "dealloc" /\ kern[p].old = {}
      /\ proc[p] \in ProcRec /\ kern[p] \in KernRec /\ Idle.pc = "user" /\ Idle.old = {}
  <2>1. In(p, "dealloc")
    BY Zenon DEF Dealloc
  <2> QED BY <2>1, RunsActive, NothingOld, IdleFields, Same
<1>1. CASE kern[p].a = kern[p].lim
  <2> DEFINE c == [proc[p] EXCEPT !.sz = kern[p].ret]
  <2>1. /\ proc' = [proc EXCEPT ![p] = c] /\ kern' = [kern EXCEPT ![p] = Idle]
        /\ UNCHANGED <<pg, mem, free>>
    BY <1>1 DEF Dealloc, Goto
  <2>2. c.state = proc[p].state /\ c.sz = kern[p].ret
    BY <1>0 DEF ProcRec
  <2> HIDE DEF c
  <2>3. /\ Local(p) /\ proc'[p] = c /\ pg'[p] = pg[p] /\ kern'[p] = Idle
        /\ mem' = mem /\ free' = free
    BY <2>1, Tables DEF Local
  <2>4. /\ proc'[p].state = proc[p].state /\ kern'[p].old = kern[p].old
        /\ kern'[p].pc \notin {"exec", "copy", "failed", "halt"} /\ kern[p].pc \notin {"exec", "copy"}
    BY <1>0, <2>2, <2>3
  <2>5. Quiet(p)
    BY <1>0, <2>3, <2>4, QuietRecord, Zenon
  <2> QED BY <1>0, <1>1, <2>2, <2>3, <2>5, Zenon
<1>2. CASE kern[p].a # kern[p].lim
  <2> DEFINE v == kern[p].a
             k == [kern[p] EXCEPT !.a = v + 1]
             f == pg[p].PTE_ADDR[v]
  <2>1. /\ k.a = v + 1 /\ k.pc = "dealloc" /\ k.lim = kern[p].lim /\ k.ret = kern[p].ret
        /\ k.old = {}
    BY <1>0 DEF KernRec
  <2>2. CASE v \notin pg[p].PTE_P \cup pg[p].PTE_PG
    <3>1. kern' = [kern EXCEPT ![p] = k] /\ UNCHANGED <<proc, pg, mem, free>>
      BY <1>2, <2>2, Zenon DEF Dealloc, Goto
    <3> HIDE DEF k
    <3>2. /\ Local(p) /\ proc'[p] = proc[p] /\ pg'[p] = pg[p] /\ kern'[p] = k
          /\ mem' = mem /\ free' = free
      BY <3>1, Tables DEF Local
    <3>3. /\ proc'[p].state = proc[p].state /\ kern'[p].old = kern[p].old
          /\ kern'[p].pc \notin {"exec", "copy", "failed", "halt"} /\ kern[p].pc \notin {"exec", "copy"}
      BY <1>0, <2>1, <3>2
    <3>4. Quiet(p)
      BY <1>0, <3>2, <3>3, QuietRecord, Zenon
    <3>5. v \notin Mapped(pg[p])
      BY <2>2 DEF Mapped
    <3> QED BY <1>0, <1>2, <2>1, <3>2, <3>4, <3>5, Zenon
  <2>3. CASE v \in pg[p].PTE_P \cup pg[p].PTE_PG
    <3>0. /\ v \in Mapped(pg[p]) /\ find_page_ind(pg[p], v) # -1 /\ v \in Vpn
          /\ RecOK(pg[p]) /\ pg[p] \in PageRec
      <4>1. RecOK(pg[p]) /\ pg[p] \in PageRec
        <5>1. In(p, "dealloc")
          BY Zenon DEF Dealloc
        <5> QED BY <5>1, InKernel
      <4>2. v \in Vpn
        BY <2>3, <4>1, Zenon DEF PageRec
      <4> QED BY <2>3, <4>1, <4>2, FindPage DEF Mapped, RecOK
    <3> DEFINE pr == clear_pte(remove_page(pg[p], v), v)
    <3>1. /\ kern' = [kern EXCEPT ![p] = k] /\ pg' = [pg EXCEPT ![p] = pr] /\ proc' = proc
          /\ kfree(IF v \in pg[p].PTE_P THEN {f} ELSE {})
      BY <1>2, <2>3, <3>0 DEF Dealloc, Goto, SetPage
    <3>2. PageRemoved(pr, pg[p], v)
      BY <3>0, RemoveKeeps
    <3>3. SameFile(pr, pg[p])
      BY <3>0, RemovedFile
    <3> HIDE DEF k, pr
    <3>4. Local(p) /\ proc'[p] = proc[p] /\ pg'[p] = pr /\ kern'[p] = k
      BY <3>1, Tables DEF Local
    <3>5. PageGone(p)
      BY <3>0, <3>1, <3>2, <3>3, <3>4, Zenon DEF PageGone
    <3> QED BY <1>0, <1>2, <2>1, <3>4, <3>5, Zenon
  <2> QED BY <2>2, <2>3
<1> QED BY <1>1, <1>2

\* The rest of free_page evicts a resident page and goes on with what needed room.
LEMMA SwapOutEffect ==
  ASSUME Inv, Owned, NEW p \in Proc, SwapOut(p)
  PROVE  /\ Active(p) /\ kern[p].pc = "swapout" /\ kern'[p].pc = kern[p].then
         /\ kern[p].then \in {"swapin", "alloc"} /\ SameKern(p)
         /\ \E v \in pg[p].PTE_P : PageEvicted(p, v)
<1> DEFINE v == pg[p].pte[kern[p].cur]
           f == pg[p].PTE_ADDR[v]
           pr == swap_to_file(pg[p], v, mem[f])
           k == [kern[p] EXCEPT !.pc = kern[p].then, !.then = "user", !.cur = 0]
<1>0. /\ RecOK(pg[p]) /\ LoopOK(proc[p], pg[p], kern[p]) /\ AddrOK(pg[p])
      /\ kern[p].pc = "swapout" /\ pg[p] \in PageRec /\ kern[p] \in KernRec
      /\ Active(p) /\ SwapOK(pg[p])
  <2>1. In(p, "swapout")
    BY Zenon DEF SwapOut
  <2>2. Active(p)
    BY <2>1, RunsActive
  <2> QED BY <2>1, <2>2, InKernel, OwnedHere
<1>1. v \in pg[p].PTE_P /\ f \in Frame /\ v \in Vpn
  <2> HIDE DEF f
  <2>1. kern[p].cur \in pg[p].on_phys
    BY <1>0, LoopVictim, Zenon
  <2>2. v \in pg[p].PTE_P
    BY <1>0, <2>1 DEF RecOK, MetaOK, Resident
  <2> HIDE DEF v
  <2> QED BY <1>0, <2>2 DEF AddrOK, f, PageRec
<1>2. kern[p].then \in {"swapin", "alloc"} /\ pg[p].phys_pages >= MAX_PHYS_PAGES
  <2>1. kern[p].then # "user" /\ pg[p].phys_pages >= MAX_PHYS_PAGES
    BY <1>0, LoopVictim
  <2> QED BY <1>0, <2>1 DEF KernRec
<1>3. get_offset_ind(pg[p]) # -1
  BY <1>0, <1>2, OffsetLeft
<1>4. pg' = [pg EXCEPT ![p] = pr] /\ kfree({f}) /\ kern' = [kern EXCEPT ![p] = k] /\ proc' = proc
  BY <1>3, ZenonT(60) DEF SwapOut, SetPage, Goto
<1>5. mem[f] \in Data
  <2> HIDE DEF f, v
  <2>1. mem \in [Frame -> Data]
    BY Same
  <2> QED BY <1>1, <2>1
<1>6. PageOut(pr, pg[p], v)
  BY <1>0, <1>1, <1>3, <1>5, SwapOutKeeps, ZenonT(60)
<1>7. FileWritten(pr, pg[p], mem[f])
  BY <1>0, <1>1, <1>3, <1>5, SwapOutWrites, ZenonT(60)
<1>8. /\ k.pc = kern[p].then /\ k.a = kern[p].a /\ k.lim = kern[p].lim
      /\ k.ret = kern[p].ret /\ k.peer = kern[p].peer /\ k.old = kern[p].old
  BY <1>0, ZenonT(60) DEF KernRec
<1> HIDE DEF k, pr, v
<1>9. Local(p) /\ proc'[p] = proc[p] /\ pg'[p] = pr /\ kern'[p] = k
  BY <1>4, Tables DEF Local
<1>10. PageEvicted(p, v) /\ SameKern(p)
  BY <1>3, <1>4, <1>6, <1>7, <1>8, <1>9, Zenon DEF PageEvicted, SameKern
<1> QED BY <1>0, <1>1, <1>2, <1>8, <1>9, <1>10, Zenon

\* Handle_pgflt from kalloc on reads the page into a free frame, or panics.
LEMMA SwapInEffect ==
  ASSUME Inv, NEW p \in Proc, SwapIn(p)
  PROVE  /\ Active(p) /\ kern[p].pc = "swapin" /\ kern[p].a \in pg[p].PTE_PG
         /\ \/ Frozen
            \/ kern'[p] = Idle /\ \E f \in free : PageRead(p, kern[p].a, f)
<1> DEFINE v == kern[p].a
           i == find_page_ind(pg[p], v)
<1>0. /\ RecOK(pg[p]) /\ LoopOK(proc[p], pg[p], kern[p]) /\ Active(p)
      /\ kern[p].pc = "swapin" /\ pg[p] \in PageRec
  <2>1. In(p, "swapin")
    BY Zenon DEF SwapIn
  <2> QED BY <2>1, InKernel, RunsActive
<1>1. v \in pg[p].PTE_PG /\ v \in Vpn /\ v \notin pg[p].PTE_P
  <2>1. v \in pg[p].PTE_PG /\ v \in Vpn
    BY <1>0, Zenon DEF LoopOK, Stage, PageRec
  <2>2. v \notin pg[p].PTE_P
    BY <1>0, <2>1, FindPage, Zenon DEF RecOK
  <2> QED BY <2>1, <2>2, Zenon
<1>2. CASE pg[p].headp = -1
  BY <1>0, <1>1, <1>2 DEF SwapIn, Crash, Frozen
<1>3. CASE pg[p].headp # -1
  <2>1. i \in Swapped(pg[p]) /\ i \in Slot
    <3>1. MetaOK(pg[p]) /\ pg[p].taken \subseteq Slot
      BY <1>0, Zenon DEF RecOK, PageRec
    <3>2. i \in pg[p].taken \ pg[p].on_phys
      BY <1>0, <1>1, <3>1, FindPage, Zenon
    <3> QED BY <3>1, <3>2 DEF Swapped
  <2>2. free_offset_ind(pg[p]) # -1
    BY <1>0, <2>1, FreeOffsetFinds, Sizes, Zenon DEF RecOK
  <2>3. PICK f \in free :
          /\ SetPage(p, swap_from_file(mappages(pg[p], v, f), v))
          /\ Alloc(f, readFromSwapFile(pg[p], pg[p].offset[i]))
          /\ Goto(p, Idle)
          /\ UNCHANGED <<proc, panic>>
    BY <1>3, <2>2 DEF SwapIn
  <2> DEFINE pr == swap_from_file(mappages(pg[p], v, f), v)
  <2>4. f \in Frame
    BY Same
  <2>5. PageIn(pr, pg[p], v, f)
    BY <1>0, <1>1, <1>3, <2>4, SwapInKeeps, Zenon
  <2>6. SameFile(pr, pg[p])
    BY <1>0, <1>1, <2>4, FileKeptTwice
  <2>7. Alloc(f, UserPage(p, v))
    BY <1>1, <2>3, Zenon DEF UserPage
  <2>8. pg' = [pg EXCEPT ![p] = pr] /\ kern' = [kern EXCEPT ![p] = Idle] /\ proc' = proc
    BY <2>3 DEF SetPage, Goto
  <2> HIDE DEF pr
  <2>9. Local(p) /\ proc'[p] = proc[p] /\ pg'[p] = pr /\ kern'[p] = Idle
    BY <2>8, Tables DEF Local
  <2>10. PageRead(p, v, f)
    BY <2>5, <2>6, <2>7, <2>9, Zenon DEF PageRead
  <2> QED BY <1>0, <1>1, <2>9, <2>10, Zenon
<1> QED BY <1>2, <1>3

\* The body of allocuvm's loop maps a page and adds it to pages[], or kills the
\* process when pages[] is full.
LEMMA AllocPageEffect ==
  ASSUME Inv, Owned, NEW p \in Proc, AllocPage(p)
  PROVE  /\ Active(p) /\ kern[p].pc = "alloc" /\ kern[p].old = {} /\ kern'[p].old = {}
         /\ proc'[p].sz = proc[p].sz /\ proc'[p].state = proc[p].state
         /\ Local(p) /\ SameFile(pg'[p], pg[p])
         /\ \E f \in free : /\ PageMapped(p, kern[p].a, f, Zero)
                            /\ \/ kern'[p].pc = "grow" /\ PageAdded(pg'[p], pg[p], kern[p].a, f)
                               \/ /\ kern'[p].pc = "user" /\ proc'[p].killed
                                  /\ pg'[p].taken = pg[p].taken /\ pg'[p].pte = pg[p].pte
                                  /\ pg'[p].offset = pg[p].offset
                                  /\ pg'[p].PTE_PG = pg[p].PTE_PG \ {kern[p].a}
<1> DEFINE v == kern[p].a
<1>0. /\ RecOK(pg[p]) /\ LoopOK(proc[p], pg[p], kern[p]) /\ Active(p) /\ kern[p].old = {}
      /\ kern[p].pc = "alloc" /\ pg[p] \in PageRec /\ proc[p] \in ProcRec /\ kern[p] \in KernRec
  <2>1. In(p, "alloc")
    BY Zenon DEF AllocPage
  <2> QED BY <2>1, InKernel, RunsActive, NothingOld
<1>1. v \in Vpn /\ v \notin Mapped(pg[p])
  <2>1. Mapped(pg[p]) = Below(v) /\ v < kern[p].lim
    BY <1>0 DEF LoopOK, Stage
  <2>2. v \in 0 .. NVPN /\ kern[p].lim \in 0 .. NVPN
    BY <1>0 DEF KernRec
  <2> QED BY <2>1, <2>2, SizesAssumption DEF Vpn, Below
<1>2. find_page_ind(pg[p], v) = -1
  BY <1>0, <1>1, FindPage DEF RecOK, Mapped
<1>3. PICK f \in free :
        /\ Alloc(f, Zero)
        /\ SetPage(p, add_page(mappages(pg[p], v, f), v))
        /\ IF find_free_slot(pg[p]) = -1
           THEN /\ proc' = [proc EXCEPT ![p].killed = TRUE]
                /\ Goto(p, Idle)
           ELSE /\ Goto(p, [kern[p] EXCEPT !.pc = "grow", !.a = v + 1])
                /\ UNCHANGED proc
        /\ UNCHANGED panic
  BY <1>2 DEF AllocPage
<1> DEFINE pr == add_page(mappages(pg[p], v, f), v)
<1>4. f \in Frame
  BY Same
<1>5. SameFile(pr, pg[p])
  BY <1>0, <1>1, <1>4, FileKeptTwice
<1>6. pg' = [pg EXCEPT ![p] = pr]
  BY <1>3 DEF SetPage
<1>7. CASE find_free_slot(pg[p]) = -1
  <2> DEFINE c == [proc[p] EXCEPT !.killed = TRUE]
  <2>1. proc' = [proc EXCEPT ![p] = c] /\ kern' = [kern EXCEPT ![p] = Idle]
    BY <1>3, <1>7 DEF Goto
  <2>2. c.state = proc[p].state /\ c.killed /\ c.sz = proc[p].sz
    BY <1>0, ZenonT(60) DEF ProcRec
  <2>3. /\ pr.PTE_P = pg[p].PTE_P \cup {v} /\ pr.PTE_ADDR = [pg[p].PTE_ADDR EXCEPT ![v] = f]
        /\ pr.taken = pg[p].taken /\ pr.pte = pg[p].pte /\ pr.offset = pg[p].offset
        /\ pr.PTE_PG = pg[p].PTE_PG \ {v}
    <3>1. pg[p] \in PageRec /\ v \in Vpn /\ f \in Frame /\ find_free_slot(pg[p]) = -1
      BY <1>0, <1>1, <1>4, <1>7
    <3> HIDE DEF v
    <3> QED BY <3>1, AddFullType
  <2> HIDE DEF c, pr
  <2>4. Local(p) /\ proc'[p] = c /\ pg'[p] = pr /\ kern'[p] = Idle
    BY <1>6, <2>1, Tables DEF Local
  <2>5. PageMapped(p, v, f, Zero)
    BY <1>1, <1>3, <2>3, <2>4, Zenon DEF PageMapped
  <2>6. kern'[p].pc = "user" /\ kern'[p].old = {}
    BY <2>4, IdleFields
  <2> QED BY <1>0, <1>5, <2>2, <2>3, <2>4, <2>5, <2>6, Zenon
<1>8. CASE find_free_slot(pg[p]) # -1
  <2> DEFINE k == [kern[p] EXCEPT !.pc = "grow", !.a = v + 1]
  <2>1. kern' = [kern EXCEPT ![p] = k] /\ proc' = proc
    BY <1>3, <1>8 DEF Goto
  <2>2. k.pc = "grow" /\ k.old = {}
    BY <1>0, ZenonT(60) DEF KernRec
  <2>3. PageAdded(pr, pg[p], v, f)
    BY <1>0, <1>1, <1>4, <1>8, AddKeeps
  <2>4. pr.PTE_P = pg[p].PTE_P \cup {v} /\ pr.PTE_ADDR = [pg[p].PTE_ADDR EXCEPT ![v] = f]
    <3> HIDE DEF pr
    <3> QED BY <2>3, Zenon DEF PageAdded
  <2> HIDE DEF k, pr
  <2>5. Local(p) /\ proc'[p] = proc[p] /\ pg'[p] = pr /\ kern'[p] = k
    BY <1>6, <2>1, Tables DEF Local
  <2>6. PageMapped(p, v, f, Zero)
    BY <1>1, <1>3, <2>4, <2>5, Zenon DEF PageMapped
  <2> QED BY <1>0, <1>5, <2>2, <2>3, <2>5, <2>6, Zenon
<1> QED BY <1>7, <1>8, Zenon

-----------------------------------------------------------------------------
\* A read of a page sets a bit.
LEMMA LoadEffect ==
  ASSUME Inv, NEW p \in Proc, NEW v \in Vpn, Load(p, v)
  PROVE  /\ Quiet(p) /\ mem' = mem /\ proc'[p] = proc[p] /\ kern'[p] = kern[p]
         /\ kern[p].pc = "user"
<1>1. /\ User(p) /\ SetPage(p, [pg[p] EXCEPT !.PTE_A = @ \cup {v}])
      /\ UNCHANGED <<proc, kern, mem, free>>
  BY Zenon DEF Load
<1> QED BY <1>1, TouchEffect, Zenon

\* A write to a resident page, by an instruction or by the kernel into a buffer,
\* sets a bit and the contents of the page's frame; the kernel's may also panic.
LEMMA WriteEffect ==
  ASSUME Inv, NEW p \in Proc, NEW v \in Vpn, NEW d, Store(p, v, d) \/ SysBuffer(p, v, d)
  PROVE  \/ Frozen
         \/ /\ Quiet(p) /\ proc'[p] = proc[p] /\ kern'[p] = kern[p] /\ kern[p].pc = "user"
            /\ v \in pg[p].PTE_P /\ mem' = [mem EXCEPT ![pg[p].PTE_ADDR[v]] = d]
<1>1. \/ Frozen
      \/ /\ User(p) /\ SetPage(p, [pg[p] EXCEPT !.PTE_A = @ \cup {v}])
         /\ UNCHANGED <<proc, kern, free>>
         /\ v \in pg[p].PTE_P /\ mem' = [mem EXCEPT ![pg[p].PTE_ADDR[v]] = d]
  BY Zenon DEF Store, SysBuffer, Syscall, Crash, Frozen
<1> QED BY <1>1, TouchEffect, Zenon

\* Exec sets the old image aside.
LEMMA ExecEffect ==
  ASSUME Inv, Owned, NEW p \in Proc, NEW n, Exec(p, n)
  PROVE  /\ Active(p) /\ kern[p].pc = "user" /\ kern[p].old = {}
         /\ ImageStarts(p, pg[p].file_size) /\ kern'[p].old = Frames(pg[p])
<1> DEFINE k == [Idle EXCEPT !.pc = "exec", !.lim = n, !.old = Frames(pg[p])]
           pr == init_page_meta(pg[p].file_size)
<1>0. Active(p) /\ kern[p].pc = "user" /\ kern[p].old = {}
  BY RunsActive, NothingOld, Zenon DEF Exec, Syscall
<1>1. /\ kern' = [kern EXCEPT ![p] = k] /\ pg' = [pg EXCEPT ![p] = pr]
      /\ UNCHANGED <<proc, mem, free>>
  BY DEF Exec, Goto, SetPage
<1>2. k.pc = "exec" /\ k.old = Frames(pg[p])
  BY DEF Idle
<1>3. pg[p].file_size \in 0 .. MAX_SWAP_FILE_SZ
  BY Same DEF PageRec
<1> HIDE DEF k, pr
<1>4. /\ Local(p) /\ proc'[p] = proc[p] /\ pg'[p] = pr /\ kern'[p] = k
      /\ mem' = mem /\ free' = free
  BY <1>1, Tables DEF Local
<1>5. proc'[p].state = "RUNNING"
  BY <1>0, <1>4 DEF Active
<1> QED BY <1>0, <1>2, <1>3, <1>4, <1>5, Zenon DEF ImageStarts, pr

\* A new process starts with exec.
LEMMA SpawnEffect ==
  ASSUME Inv, Owned, NEW p \in Proc, NEW n, Spawn(p, n)
  PROVE  /\ proc[p].state = "UNUSED" /\ kern[p].pc = "user" /\ kern[p].old = {}
         /\ ImageStarts(p, 0) /\ kern'[p].old = {}
<1> DEFINE k == [Idle EXCEPT !.pc = "exec", !.lim = n]
           pr == init_page_meta(0)
           c == [proc[p] EXCEPT !.state = "RUNNING"]
<1>0. proc[p].state = "UNUSED" /\ kern[p].pc = "user" /\ kern[p].old = {} /\ proc[p] \in ProcRec
  <2>1. proc[p].state = "UNUSED"
    BY Zenon DEF Spawn
  <2>2. kern[p].pc = "user"
    <3>1. LocalOK(proc[p], pg[p], kern[p])
      BY DEF Inv
    <3> QED BY <2>1, <3>1 DEF LocalOK
  <2> QED BY <2>1, <2>2, NothingOld, Same
<1>1. /\ kern' = [kern EXCEPT ![p] = k] /\ pg' = [pg EXCEPT ![p] = pr]
      /\ proc' = [proc EXCEPT ![p] = c] /\ UNCHANGED <<mem, free>>
  BY Zenon DEF Spawn, Goto, SetPage
<1>2. k.pc = "exec" /\ k.old = {}
  BY DEF Idle
<1>3. c.state = "RUNNING"
  BY <1>0 DEF ProcRec
<1>4. 0 \in 0 .. MAX_SWAP_FILE_SZ
  BY Sizes
<1> HIDE DEF k, pr, c
<1>5. /\ Local(p) /\ proc'[p] = c /\ pg'[p] = pr /\ kern'[p] = k
      /\ mem' = mem /\ free' = free
  BY <1>1, Tables DEF Local
<1> QED BY <1>0, <1>2, <1>3, <1>4, <1>5, Zenon DEF ImageStarts, pr

\* Add_page finds a slot when there is one.
LEMMA FreeSlotFound ==
  ASSUME NEW pr, NEW i \in Slot \ pr.taken
  PROVE  find_free_slot(pr) # -1
<1> DEFINE S == Slot \ pr.taken
<1>1. i \in S /\ S \subseteq Nat
  BY Sizes, Zenon
<1>2. First(S) \in S
  <2> HIDE DEF S
  <2> QED BY <1>1, FirstProperty, Zenon
<1>3. First(S) # -1
  <2> HIDE DEF S
  <2> QED BY <1>1, <1>2
<1> QED BY <1>3 DEF find_free_slot

\* Exec loads one page more.
LEMMA ExecPageEffect ==
  ASSUME Inv, NEW p \in Proc, ExecPage(p)
  PROVE  /\ Active(p) /\ kern[p].pc = "exec" /\ kern'[p].pc = "exec"
         /\ kern'[p].old = kern[p].old /\ proc'[p] = proc[p]
         /\ Local(p) /\ SameFile(pg'[p], pg[p])
         /\ \E f \in free : /\ PageMapped(p, kern[p].a, f, Zero)
                            /\ PageAdded(pg'[p], pg[p], kern[p].a, f)
<1> DEFINE v == kern[p].a
           k == [kern[p] EXCEPT !.a = v + 1]
<1>0. /\ RecOK(pg[p]) /\ LoopOK(proc[p], pg[p], kern[p]) /\ Active(p)
      /\ kern[p].pc = "exec" /\ pg[p] \in PageRec /\ kern[p] \in KernRec /\ v < kern[p].lim
  <2>1. In(p, "exec") /\ v < kern[p].lim
    BY Zenon DEF ExecPage
  <2> QED BY <2>1, InKernel, RunsActive
<1>1. v \in Vpn /\ v \notin Mapped(pg[p]) /\ find_free_slot(pg[p]) # -1
  <2>1. /\ Mapped(pg[p]) = Below(v) /\ pg[p].taken = 0 .. v - 1
        /\ kern[p].lim \in SpawnSizes \cup ExecSizes
    BY <1>0, Zenon DEF LoopOK, Stage
  <2>2. v \in 0 .. NVPN /\ kern[p].lim \in 0 .. NVPN
    BY <1>0 DEF KernRec
  <2>3. kern[p].lim <= MAX_TOTAL_PAGES
    BY <2>1, EnvAssumption, Zenon
  <2>4. v \in Slot \ pg[p].taken
    BY <1>0, <2>1, <2>2, <2>3, SizesAssumption DEF Slot
  <2>5. find_free_slot(pg[p]) # -1
    BY <2>4, FreeSlotFound
  <2> QED BY <1>0, <2>1, <2>2, <2>5, SizesAssumption DEF Vpn, Below
<1>2. PICK f \in free : /\ Alloc(f, Zero)
                        /\ SetPage(p, add_page(mappages(pg[p], v, f), v))
                        /\ Goto(p, k)
  BY Zenon DEF ExecPage
<1> DEFINE pr == add_page(mappages(pg[p], v, f), v)
<1>3. f \in Frame
  BY Same
<1>4. SameFile(pr, pg[p])
  BY <1>0, <1>1, <1>3, FileKeptTwice, Zenon
<1>5. PageAdded(pr, pg[p], v, f)
  BY <1>0, <1>1, <1>3, AddKeeps
<1>6. pg' = [pg EXCEPT ![p] = pr] /\ kern' = [kern EXCEPT ![p] = k] /\ proc' = proc
  BY <1>2, Zenon DEF SetPage, Goto, ExecPage
<1>7. k.pc = "exec" /\ k.old = kern[p].old
  BY <1>0, ZenonT(60) DEF KernRec
<1>8. pr.PTE_P = pg[p].PTE_P \cup {v} /\ pr.PTE_ADDR = [pg[p].PTE_ADDR EXCEPT ![v] = f]
  <2> HIDE DEF pr
  <2> QED BY <1>5, Zenon DEF PageAdded
<1> HIDE DEF k, pr
<1>9. Local(p) /\ proc'[p] = proc[p] /\ pg'[p] = pr /\ kern'[p] = k
  BY <1>6, Tables DEF Local
<1>10. PageMapped(p, v, f, Zero)
  BY <1>1, <1>2, <1>8, <1>9, Zenon DEF PageMapped
<1> QED BY <1>0, <1>4, <1>5, <1>7, <1>9, <1>10, Zenon

\* Exec's commit frees the old image.
LEMMA ExecDoneEffect ==
  ASSUME Inv, NEW p \in Proc, ExecDone(p)
  PROVE  /\ Active(p) /\ kern[p].pc = "exec" /\ kern[p].a = kern[p].lim /\ kern'[p] = Idle
         /\ proc'[p].state = proc[p].state /\ proc'[p].sz = kern[p].lim
         /\ Local(p) /\ SameButBits(pg'[p], pg[p]) /\ SameFile(pg'[p], pg[p])
         /\ kfree(kern[p].old)
<1> DEFINE n == kern[p].lim
           U == pg[p].PTE_U \ {n - 2}
           pr == [pg[p] EXCEPT !.PTE_U = U]
           c == [proc[p] EXCEPT !.sz = n, !.stk = n - 1]
<1>0. /\ Active(p) /\ kern[p].pc = "exec" /\ kern[p].a = kern[p].lim
      /\ proc[p] \in ProcRec /\ pg[p] \in PageRec
  <2>1. In(p, "exec") /\ kern[p].a = kern[p].lim
    BY Zenon DEF ExecDone
  <2> QED BY <2>1, RunsActive, Same
<1>1. U \in SUBSET Vpn
  BY <1>0 DEF PageRec
<1>2. SameButBits(pr, pg[p])
  BY <1>0, <1>1, Bits, Zenon
<1>3. SameFile(pr, pg[p])
  BY <1>0 DEF SameFile, PageRec
<1>4. c.state = proc[p].state /\ c.sz = n
  BY <1>0, Zenon DEF ProcRec
<1>5. /\ proc' = [proc EXCEPT ![p] = c] /\ pg' = [pg EXCEPT ![p] = pr]
      /\ kern' = [kern EXCEPT ![p] = Idle] /\ kfree(kern[p].old)
  <2>1. proc' = [proc EXCEPT ![p].sz = n, ![p].stk = n - 1]
    BY DEF ExecDone
  <2>2. proc' = [proc EXCEPT ![p] = c]
    BY <1>0, <2>1, Same, ZenonT(60) DEF ProcRec
  <2> QED BY <2>2, Zenon DEF ExecDone, SetPage, Goto
<1> HIDE DEF pr, c
<1>6. Local(p) /\ proc'[p] = c /\ pg'[p] = pr /\ kern'[p] = Idle
  BY <1>5, Tables DEF Local
<1> QED BY <1>0, <1>2, <1>3, <1>4, <1>5, <1>6, Zenon

\* An exec that fails frees the new image and keeps the old one aside.
LEMMA ExecFailsEffect ==
  ASSUME Inv, NEW p \in Proc, ExecFails(p)
  PROVE  /\ Active(p) /\ kern[p].pc = "exec" /\ kern'[p].pc = "failed"
         /\ kern'[p].old = kern[p].old /\ proc'[p] = proc[p]
         /\ Local(p) /\ pg'[p].PTE_P = {} /\ kfree(Frames(pg[p]))
<1> DEFINE pr == [pg[p] EXCEPT !.PTE_P = {}, !.PTE_A = {}, !.PTE_U = {},
                               !.PTE_ADDR = [v \in Vpn |-> NoFrame]]
           k == [Idle EXCEPT !.pc = "failed", !.old = kern[p].old]
<1>0. Active(p) /\ kern[p].pc = "exec" /\ pg[p] \in PageRec
  <2>1. In(p, "exec")
    BY Zenon DEF ExecFails
  <2> QED BY <2>1, RunsActive, Same
<1>1. /\ pg' = [pg EXCEPT ![p] = pr] /\ kern' = [kern EXCEPT ![p] = k] /\ proc' = proc
      /\ kfree(Frames(pg[p]))
  BY Zenon DEF ExecFails, SetPage, Goto
<1>2. k.pc = "failed" /\ k.old = kern[p].old
  BY DEF Idle
<1>3. pr.PTE_P = {}
  BY <1>0 DEF PageRec
<1> HIDE DEF pr, k
<1>4. Local(p) /\ proc'[p] = proc[p] /\ pg'[p] = pr /\ kern'[p] = k
  BY <1>1, Tables DEF Local
<1> QED BY <1>0, <1>1, <1>2, <1>3, <1>4, Zenon

\* Kill sets a flag.
LEMMA KillEffect ==
  ASSUME Inv, NEW p \in Proc, Kill(p)
  PROVE  /\ Local(p) /\ mem' = mem /\ free' = free /\ pg'[p] = pg[p] /\ kern'[p] = kern[p]
         /\ proc'[p].state = proc[p].state /\ proc'[p].sz = proc[p].sz
         /\ proc[p].killed = FALSE
<1> DEFINE c == [proc[p] EXCEPT !.killed = TRUE]
<1>1. c.state = proc[p].state /\ c.sz = proc[p].sz
  BY Same, ZenonT(60) DEF ProcRec
<1>2. proc' = [proc EXCEPT ![p] = c] /\ UNCHANGED <<pg, kern, mem, free>>
  BY Zenon DEF Kill
<1>3. proc[p].killed = FALSE
  <2>1. proc[p].killed \in BOOLEAN /\ ~proc[p].killed
    BY Same, Zenon DEF Kill, ProcRec
  <2> QED BY <2>1, Zenon
<1> HIDE DEF c
<1>4. /\ Local(p) /\ proc'[p] = c /\ pg'[p] = pg[p] /\ kern'[p] = kern[p]
      /\ mem' = mem /\ free' = free
  BY <1>2, Tables DEF Local
<1> QED BY <1>1, <1>3, <1>4, Zenon

\* Exit leaves the page table of the zombie.
LEMMA ExitEffect ==
  ASSUME Inv, NEW p \in Proc, Exit(p)
  PROVE  /\ Local(p) /\ mem' = mem /\ free' = free /\ kern'[p] = kern[p]
         /\ proc[p].state = "RUNNING" /\ kern[p].pc \in {"user", "failed"}
         /\ proc'[p].state = "ZOMBIE"
         /\ pg'[p].PTE_P = pg[p].PTE_P /\ pg'[p].PTE_ADDR = pg[p].PTE_ADDR
<1> DEFINE c == [Unused EXCEPT !.state = "ZOMBIE"]
           w == init_page_meta(0)
           pr == [w EXCEPT !.PTE_P = pg[p].PTE_P, !.PTE_ADDR = pg[p].PTE_ADDR]
<1>1. proc[p].state = "RUNNING" /\ kern[p].pc \in {"user", "failed"}
  BY Zenon DEF Exit, In
<1>2. /\ proc' = [proc EXCEPT ![p] = c] /\ pg' = [pg EXCEPT ![p] = pr]
      /\ UNCHANGED <<kern, mem, free>>
  BY Zenon DEF Exit, SetPage
<1>3. pr.PTE_P = pg[p].PTE_P /\ pr.PTE_ADDR = pg[p].PTE_ADDR
  <2>1. "PTE_P" \in DOMAIN w /\ "PTE_ADDR" \in DOMAIN w
    BY DEF init_page_meta
  <2> HIDE DEF w
  <2> QED BY <2>1, Zenon
<1>4. c.state = "ZOMBIE"
  BY DEF Unused
<1> HIDE DEF c, pr
<1>5. /\ Local(p) /\ proc'[p] = c /\ pg'[p] = pr /\ kern'[p] = kern[p]
      /\ mem' = mem /\ free' = free
  BY <1>2, Tables DEF Local
<1> QED BY <1>1, <1>3, <1>4, <1>5, Zenon

\* Wait frees the zombie's page table and its slot.
LEMMA ReapEffect ==
  ASSUME Inv, NEW p \in Proc, Reap(p)
  PROVE  /\ Local(p) /\ kern'[p] = Idle /\ kern[p].pc \in {"user", "failed"} /\ kfree(Held(p))
         /\ proc[p].state = "ZOMBIE" /\ proc'[p].state = "UNUSED"
         /\ pg'[p] = init_page_meta(0)
<1> DEFINE pr == init_page_meta(0)
<1>1. proc[p].state = "ZOMBIE" /\ kern[p].pc \in {"user", "failed"}
  BY Zenon DEF Reap, Inv, LocalOK
<1>2. /\ proc' = [proc EXCEPT ![p] = Unused] /\ pg' = [pg EXCEPT ![p] = pr]
      /\ kern' = [kern EXCEPT ![p] = Idle] /\ kfree(Held(p))
  BY Zenon DEF Reap, SetPage, Goto
<1>3. Unused.state = "UNUSED"
  BY DEF Unused
<1> HIDE DEF pr
<1>4. Local(p) /\ proc'[p] = Unused /\ pg'[p] = pr /\ kern'[p] = Idle
  BY <1>2, Tables DEF Local
<1> QED BY <1>1, <1>2, <1>3, <1>4, Zenon DEF pr

\* Allocproc gives the child a slot.
LEMMA ForkEffect ==
  ASSUME Inv, Owned, NEW p \in Proc, NEW q \in Proc, Fork(p, q)
  PROVE  /\ Forking(p, q) /\ mem' = mem /\ free' = free
         /\ kern[p].pc = "user" /\ kern'[p].pc = "copy" /\ kern'[p].peer = {q}
         /\ proc[q].state = "UNUSED" /\ proc'[q].state = "EMBRYO"
         /\ pg'[q] = init_page_meta(0)
<1> DEFINE pr == init_page_meta(0)
           c == [proc[q] EXCEPT !.state = "EMBRYO"]
           k == [Idle EXCEPT !.pc = "copy", !.lim = proc[p].sz, !.peer = {q}]
<1>1. Active(p) /\ kern[p].pc = "user"
  BY RunsActive, Zenon DEF Fork, Syscall
<1>2. proc[q].state = "UNUSED" /\ p # q
  <2>1. proc[q].state = "UNUSED"
    BY Zenon DEF Fork
  <2> QED BY <1>1, <2>1 DEF Active
<1>3. kern[q].pc = "user"
  <2>1. LocalOK(proc[q], pg[q], kern[q])
    BY DEF Inv
  <2> QED BY <1>2, <2>1 DEF LocalOK
<1>4. /\ proc' = [proc EXCEPT ![q] = c] /\ pg' = [pg EXCEPT ![q] = pr]
      /\ kern' = [kern EXCEPT ![p] = k] /\ UNCHANGED <<mem, free>>
  BY Zenon DEF Fork, SetPage, Goto
<1>5. c.state = "EMBRYO"
  BY Same DEF ProcRec
<1>6. k.pc = "copy" /\ k.peer = {q} /\ k.old = {}
  BY DEF Idle
<1> HIDE DEF pr, c, k
<1>7. /\ proc'[q] = c /\ pg'[q] = pr /\ kern'[p] = k /\ mem' = mem /\ free' = free
      /\ \A r \in Proc \ {q} : proc'[r] = proc[r] /\ pg'[r] = pg[r]
      /\ \A r \in Proc \ {p} : kern'[r] = kern[r]
  BY <1>4, Tables
<1>8. Forking(p, q)
  BY <1>1, <1>2, <1>3, <1>6, <1>7 DEF Forking
<1> QED BY <1>1, <1>2, <1>5, <1>6, <1>7, <1>8, Zenon DEF pr

\* A turn of copyuvm's loop copies an entry, and a present page into a new frame.
LEMMA CopyPageEffect ==
  ASSUME Inv, Owned, NEW p \in Proc, NEW q \in Proc, CopyPage(p, q)
  PROVE  /\ Forking(p, q) /\ kern[p].pc = "copy" /\ kern'[p].pc = "copy"
         /\ kern[p].peer = {q} /\ kern'[p].peer = {q} /\ proc'[q] = proc[q]
         /\ proc[q].state = "EMBRYO"
         /\ \/ /\ mem' = mem /\ free' = free
               /\ pg'[q].PTE_P = pg[q].PTE_P /\ pg'[q].PTE_ADDR = pg[q].PTE_ADDR
            \/ /\ kern[p].a \in pg[p].PTE_P
               /\ \E f \in free : PageMapped(q, kern[p].a, f, mem[pg[p].PTE_ADDR[kern[p].a]])
<1> DEFINE v == kern[p].a
           dst == copy_flags(pg[q], pg[p], v)
           k == [kern[p] EXCEPT !.a = v + 1]
<1>0. In(p, "copy") /\ q \in kern[p].peer /\ v < kern[p].lim
  BY DEF CopyPage
<1>1. /\ RecOK(pg[p]) /\ Mapped(pg[p]) = Below(proc[p].sz) /\ kern[p].lim = proc[p].sz
      /\ CopyOK(pg[p], pg[q], v) /\ v \in 0 .. NVPN /\ kern[p].lim \in 0 .. NVPN
      /\ p # q /\ kern[q].pc = "user" /\ kern[p].peer = {q} /\ proc[q].state = "EMBRYO"
  BY <1>0, InCopy, Zenon
<1>2. v \in Vpn /\ v \in Mapped(pg[p]) /\ v \notin Mapped(pg[q])
  <2>1. v \in Vpn /\ v \in Mapped(pg[p])
    BY <1>0, <1>1, SizesAssumption, SMTT(60) DEF Vpn, Below
  <2>2. ~(v < v)
    BY <1>1
  <2> QED BY <1>1, <2>1, <2>2 DEF CopyOK, Mapped
<1>3. /\ Active(p) /\ kern[p].pc = "copy" /\ kern[p] \in KernRec /\ kern[p].old = {}
      /\ pg[p] \in PageRec /\ pg[q] \in PageRec
  BY <1>0, RunsActive, NothingOld, Same
<1>4. k.pc = "copy" /\ k.peer = {q} /\ k.old = {}
  BY <1>1, <1>3, ZenonT(60) DEF KernRec
<1>5. /\ dst \in PageRec /\ dst.PTE_P = pg[q].PTE_P \cup ({v} \cap pg[p].PTE_P)
      /\ dst.PTE_ADDR = pg[q].PTE_ADDR
  <2>1. Copied(dst, pg[q], pg[p], v)
    BY <1>2, <1>3, CopyFields, Zenon
  <2> QED BY <2>1 DEF Copied
<1>6. ASSUME NEW pr, pg' = [pg EXCEPT ![q] = pr], kern' = [kern EXCEPT ![p] = k], proc' = proc
      PROVE  Forking(p, q) /\ kern'[p] = k /\ proc'[q] = proc[q] /\ pg'[q] = pr
  <2> HIDE DEF k
  <2>1. /\ proc'[q] = proc[q] /\ pg'[q] = pr /\ kern'[p] = k
        /\ \A r \in Proc \ {q} : proc'[r] = proc[r] /\ pg'[r] = pg[r]
        /\ \A r \in Proc \ {p} : kern'[r] = kern[r]
    BY <1>6, Tables, Zenon
  <2>2. proc[q].state # "RUNNING"
    BY <1>1
  <2> QED BY <1>1, <1>3, <1>4, <2>1, <2>2 DEF Forking
<1>7. CASE v \in pg[p].PTE_PG
  <2>1. pg' = [pg EXCEPT ![q] = dst] /\ kern' = [kern EXCEPT ![p] = k] /\ UNCHANGED <<proc, mem, free>>
    BY <1>7 DEF CopyPage, SetPage, Goto
  <2> HIDE DEF dst, k
  <2>2. v \notin pg[p].PTE_P
    <3>1. pg[p].PTE_P \cap pg[p].PTE_PG = {}
      BY <1>1 DEF RecOK, MetaOK, Resident, Swapped
    <3> QED BY <1>7, <3>1, Zenon
  <2>3. dst.PTE_P = pg[q].PTE_P
    BY <1>5, <2>2
  <2>4. proc' = proc /\ mem' = mem /\ free' = free
    BY <2>1
  <2>5. Forking(p, q) /\ kern'[p] = k /\ proc'[q] = proc[q] /\ pg'[q] = dst
    BY <1>6, <2>1, <2>4, Zenon
  <2> QED BY <1>1, <1>3, <1>4, <1>5, <2>3, <2>4, <2>5, Zenon
<1>8. CASE v \notin pg[p].PTE_PG
  <2>1. v \in pg[p].PTE_P
    BY <1>2, <1>8 DEF Mapped
  <2>2. PICK f \in free :
          /\ Alloc(f, mem[pg[p].PTE_ADDR[v]])
          /\ SetPage(q, [dst EXCEPT !.PTE_ADDR = [@ EXCEPT ![v] = f]])
          /\ Goto(p, k)
          /\ UNCHANGED <<proc, panic>>
    BY <1>8, <2>1, ZenonT(60) DEF CopyPage
  <2> DEFINE pr == [dst EXCEPT !.PTE_ADDR = [dst.PTE_ADDR EXCEPT ![v] = f]]
  <2>3. pg' = [pg EXCEPT ![q] = pr] /\ kern' = [kern EXCEPT ![p] = k] /\ proc' = proc
    BY <2>2, Zenon DEF SetPage, Goto
  <2> HIDE DEF dst
  <2>4. pr.PTE_P = dst.PTE_P /\ pr.PTE_ADDR = [dst.PTE_ADDR EXCEPT ![v] = f]
    BY <1>5 DEF PageRec
  <2> HIDE DEF pr, k
  <2>5. pr.PTE_P = pg[q].PTE_P \cup {v} /\ pr.PTE_ADDR = [pg[q].PTE_ADDR EXCEPT ![v] = f]
    <3>1. {v} \cap pg[p].PTE_P = {v}
      BY <2>1
    <3> QED BY <1>5, <2>4, <3>1
  <2>6. Forking(p, q) /\ kern'[p] = k /\ proc'[q] = proc[q] /\ pg'[q] = pr
    BY <1>6, <2>3, Zenon
  <2>7. PageMapped(q, v, f, mem[pg[p].PTE_ADDR[v]])
    BY <1>2, <2>2, <2>5, <2>6, Zenon DEF PageMapped
  <2> QED BY <1>1, <1>3, <1>4, <2>1, <2>6, <2>7, Zenon
<1> QED BY <1>7, <1>8, Zenon

\* A copyuvm that fails frees the child's slot.
LEMMA ForkFailsEffect ==
  ASSUME Inv, Owned, NEW p \in Proc, NEW q \in Proc, In(p, "copy"), q \in kern[p].peer,
         ForkFails(p, q)
  PROVE  /\ Forking(p, q) /\ kern[p].pc = "copy" /\ kern'[p] = Idle /\ kern[p].peer = {q}
         /\ proc'[q].state = "UNUSED" /\ proc[q].state = "EMBRYO"
         /\ pg'[q] = init_page_meta(0)
<1> DEFINE pr == init_page_meta(0)
           c == [proc[q] EXCEPT !.state = "UNUSED"]
<1>1. p # q /\ kern[q].pc = "user" /\ kern[p].peer = {q} /\ proc[q].state = "EMBRYO"
  BY InCopy, ZenonT(60)
<1>2. Active(p) /\ kern[p].pc = "copy" /\ proc[q].state # "RUNNING"
  BY <1>1, RunsActive
<1>3. c.state = "UNUSED"
  BY Same DEF ProcRec
<1>4. /\ proc' = [proc EXCEPT ![q] = c] /\ pg' = [pg EXCEPT ![q] = pr]
      /\ kern' = [kern EXCEPT ![p] = Idle]
  BY Zenon DEF ForkFails, SetPage, Goto
<1> HIDE DEF pr, c
<1>5. /\ proc'[q] = c /\ pg'[q] = pr /\ kern'[p] = Idle
      /\ \A r \in Proc \ {q} : proc'[r] = proc[r] /\ pg'[r] = pg[r]
      /\ \A r \in Proc \ {p} : kern'[r] = kern[r]
  BY <1>4, Tables
<1>6. kern'[p].old = {} /\ kern'[p].pc = "user"
  BY <1>5, IdleFields
<1>7. Forking(p, q)
  BY <1>1, <1>2, <1>5, <1>6 DEF Forking
<1> QED BY <1>1, <1>2, <1>3, <1>4, <1>5, <1>7, Zenon DEF pr

\* Without a frame for a page it also frees the half built copy.
LEMMA CopyNoMemoryEffect ==
  ASSUME Inv, Owned, NEW p \in Proc, NEW q \in Proc, CopyNoMemory(p, q)
  PROVE  /\ Forking(p, q) /\ kern[p].pc = "copy" /\ kern'[p] = Idle /\ kern[p].peer = {q}
         /\ kfree(Frames(pg[q])) /\ proc'[q].state = "UNUSED" /\ proc[q].state = "EMBRYO"
         /\ pg'[q] = init_page_meta(0)
BY ForkFailsEffect, Zenon DEF CopyNoMemory

\* Without a page table for the copy, a frame that has just been filled is lost.
LEMMA CopyNoTableEffect ==
  ASSUME Inv, Owned, NEW p \in Proc, NEW q \in Proc, CopyNoTable(p, q)
  PROVE  /\ Forking(p, q) /\ kern[p].pc = "copy" /\ kern'[p] = Idle /\ kern[p].peer = {q}
         /\ proc'[q].state = "UNUSED" /\ proc[q].state = "EMBRYO"
         /\ pg[q].PTE_P = {} /\ pg'[q] = init_page_meta(0)
         /\ \E f \in free : Alloc(f, mem[pg[p].PTE_ADDR[0]])
<1>1. /\ In(p, "copy") /\ q \in kern[p].peer /\ ForkFails(p, q)
      /\ \E f \in free : Alloc(f, mem[pg[p].PTE_ADDR[0]])
  BY NoTable, Zenon
<1>2. CopyOK(pg[p], pg[q], kern[p].a) /\ kern[p].a = 0 /\ pg[q] \in PageRec
  BY <1>1, InCopy, Same, Zenon DEF CopyNoTable
<1>3. pg[q].PTE_P = {}
  BY <1>2, SizesAssumption DEF CopyOK, PageRec, Vpn
<1> QED BY <1>1, <1>3, ForkFailsEffect, Zenon

\* A copy_swap_file without a buffer may overwrite page 0 of the parent, and panics.
LEMMA ForkNoBufferEffect ==
  ASSUME Inv, Owned, NEW p \in Proc, NEW q \in Proc, ForkNoBuffer(p, q)
  PROVE  /\ Active(p) /\ kern[p].pc = "copy" /\ kern'[p].pc = "halt" /\ kern'[p].old = {}
         /\ Local(p) /\ proc'[p] = proc[p] /\ pg'[p] = pg[p] /\ free' = free
         /\ kern[p].old = {} /\ MemKept(p)
<1> DEFINE k == [kern[p] EXCEPT !.pc = "halt"]
<1>0. /\ In(p, "copy") /\ q \in kern[p].peer /\ kern' = [kern EXCEPT ![p] = k]
      /\ proc' = proc /\ pg' = pg /\ free' = free
      /\ mem' = IF pg[p].swap_len = 0 THEN mem
                ELSE [mem EXCEPT ![pg[p].PTE_ADDR[Text]] = pg[p].swap[pg[p].swap_len - 1]]
  BY Zenon DEF ForkNoBuffer, Goto
<1>1. /\ Active(p) /\ kern[p].pc = "copy" /\ kern[p] \in KernRec /\ kern[p].old = {}
      /\ mem \in [Frame -> Data]
  BY <1>0, RunsActive, NothingOld, Same
<1>2. Text \in pg[p].PTE_P
  BY <1>0, InCopy, ZenonT(60)
<1>3. k.pc = "halt" /\ k.old = {}
  BY <1>1, Zenon DEF KernRec
<1> HIDE DEF k
<1>4. Local(p) /\ proc'[p] = proc[p] /\ pg'[p] = pg[p] /\ kern'[p] = k
  BY <1>0, Tables DEF Local
<1>5. MemKept(p)
  <2>1. pg[p].PTE_ADDR[Text] \in Held(p)
    BY <1>2, Zenon DEF Held, Frames
  <2>2. \A f \in Frame : f # pg[p].PTE_ADDR[Text] => mem'[f] = mem[f]
    BY <1>0, <1>1, Zenon
  <2> QED BY <2>1, <2>2, Zenon DEF MemKept
<1> QED BY <1>0, <1>1, <1>3, <1>4, <1>5, Zenon

\* Copy_page_arr makes it.
LEMMA ChildFields ==
  ASSUME NEW dst, NEW src \in PageRec
  PROVE  ChildRecord(copy_page_arr(dst, src), dst, src)
<1> DEFINE file == copy_swap_file(src)
           q == copy_page_arr(dst, src)
<1>1. q = [src EXCEPT !.PTE_P = dst.PTE_P, !.PTE_PG = dst.PTE_PG, !.PTE_A = dst.PTE_A,
                      !.PTE_U = dst.PTE_U, !.PTE_ADDR = dst.PTE_ADDR,
                      !.swap = file, !.swap_len = src.file_size]
  BY DEF copy_page_arr
<1> HIDE DEF file, q
<1>2. /\ q.PTE_P = dst.PTE_P /\ q.PTE_PG = dst.PTE_PG /\ q.PTE_ADDR = dst.PTE_ADDR
      /\ q.taken = src.taken /\ q.pte = src.pte /\ q.offset = src.offset
      /\ q.offsets = src.offsets
  BY <1>1 DEF PageRec
<1>3. q.swap_len = src.file_size /\ q.file_size = src.file_size /\ q.swap = file
  BY <1>1 DEF PageRec
<1> QED BY <1>2, <1>3, Zenon DEF ChildRecord, file, q

\* Fork's end makes the child run.
LEMMA ForkDoneEffect ==
  ASSUME Inv, Owned, NEW p \in Proc, NEW q \in Proc, ForkDone(p, q)
  PROVE  /\ Forking(p, q) /\ kern[p].pc = "copy" /\ kern'[p] = Idle /\ kern[p].peer = {q}
         /\ mem' = mem /\ free' = free
         /\ proc'[q].state = "RUNNING" /\ proc'[q].sz = proc[p].sz
         /\ pg[q].PTE_P = pg[p].PTE_P /\ pg[q].PTE_PG = pg[p].PTE_PG
         /\ ChildRecord(pg'[q], pg[q], pg[p])
<1> DEFINE pr == copy_page_arr(pg[q], pg[p])
           c == [proc[p] EXCEPT !.killed = proc[q].killed]
<1>0. In(p, "copy") /\ q \in kern[p].peer /\ kern[p].a = kern[p].lim
  BY DEF ForkDone
<1>1. /\ Mapped(pg[p]) = Below(proc[p].sz) /\ kern[p].lim = proc[p].sz
      /\ kern[p].peer = {q} /\ proc[q].state = "EMBRYO" /\ proc[p].state = "RUNNING"
      /\ kern[q].pc = "user" /\ p # q /\ CopyOK(pg[p], pg[q], kern[p].a)
  BY <1>0, InCopy, ZenonT(60)
<1>2. pg[p] \in PageRec /\ pg[q] \in PageRec /\ proc[p] \in ProcRec
  BY Same
<1>3. pg[q].PTE_P = pg[p].PTE_P /\ pg[q].PTE_PG = pg[p].PTE_PG
  <2>1. /\ pg[p].PTE_P \subseteq Vpn /\ pg[p].PTE_PG \subseteq Vpn
        /\ pg[q].PTE_P \subseteq Vpn /\ pg[q].PTE_PG \subseteq Vpn
    BY <1>2, Zenon DEF PageRec
  <2>2. \A v \in pg[p].PTE_P \cup pg[p].PTE_PG : v < kern[p].a
    BY <1>0, <1>1 DEF Mapped, Below
  <2> QED BY <1>1, <2>1, <2>2, ZenonT(60) DEF CopyOK
<1>4. ChildRecord(pr, pg[q], pg[p])
  BY <1>2, ChildFields
<1>5. c.state = "RUNNING" /\ c.sz = proc[p].sz
  BY <1>1, <1>2 DEF ProcRec
<1>6. /\ proc' = [proc EXCEPT ![q] = c] /\ pg' = [pg EXCEPT ![q] = pr]
      /\ kern' = [kern EXCEPT ![p] = Idle] /\ mem' = mem /\ free' = free
  BY DEF ForkDone, SetPage, Goto
<1> HIDE DEF pr, c
<1>7. /\ proc'[q] = c /\ pg'[q] = pr /\ kern'[p] = Idle
      /\ \A r \in Proc \ {q} : proc'[r] = proc[r] /\ pg'[r] = pg[r]
      /\ \A r \in Proc \ {p} : kern'[r] = kern[r]
  BY <1>6, Tables
<1>8. /\ kern'[p].old = {} /\ kern'[p].pc = "user" /\ Active(p) /\ kern[p].pc = "copy"
      /\ proc[q].state # "RUNNING"
  BY <1>0, <1>1, <1>7, IdleFields, RunsActive
<1>9. Forking(p, q)
  BY <1>1, <1>7, <1>8 DEF Forking
<1> QED BY <1>1, <1>3, <1>4, <1>5, <1>6, <1>7, <1>8, <1>9, Zenon

-----------------------------------------------------------------------------
\* The write keeps SwapOK: the offset taken is the end of the file or inside it.
LEMMA SwapOKOut ==
  ASSUME NEW pr \in PageRec, NEW q, NEW v \in pr.PTE_P, NEW d, RecOK(pr), SwapOK(pr),
         get_offset_ind(pr) # -1, PageOut(q, pr, v), FileWritten(q, pr, d)
  PROVE  SwapOK(q)
<1> DEFINE s == get_offset_ind(pr)
           off == pr.offsets[s]
           i == find_page_ind(pr, v)
<1>1. /\ s \in SwapSlot /\ off \in SwapSlot /\ s <= pr.swap_len /\ off <= pr.swap_len
      /\ off = pr.swap_len => s = pr.swap_len
  BY NextOffset, Zenon
<1>2. i \in Slot
  BY FindPage DEF RecOK, PageRec
<1>3. /\ q.offset = [pr.offset EXCEPT ![i] = off]
      /\ q.offsets = [pr.offsets EXCEPT ![s] = TAKEN_OFFSET]
  BY Zenon DEF PageOut
<1>4. /\ q.swap_len = IF off = pr.swap_len THEN pr.swap_len + 1 ELSE pr.swap_len
      /\ q.file_size = IF off + 1 > pr.file_size THEN off + 1 ELSE pr.file_size
  BY DEF FileWritten, size_after
<1>5. /\ pr.swap_len \in Nat /\ pr.file_size \in Nat /\ SwapSlot \subseteq Nat
      /\ pr.offset \in [Slot -> Int] /\ pr.offsets \in [SwapSlot -> Int]
  BY FileTypes
<1> HIDE DEF s, off, i
<1>6. q.swap_len <= q.file_size /\ pr.swap_len <= q.swap_len
  BY <1>1, <1>4, <1>5 DEF SwapOK
<1>7. ASSUME NEW t \in SwapSlot
      PROVE  IF t < q.swap_len THEN q.offsets[t] < q.swap_len ELSE q.offsets[t] = t
  <2>1. IF t < pr.swap_len THEN pr.offsets[t] < pr.swap_len ELSE pr.offsets[t] = t
    BY Zenon DEF SwapOK
  <2>2. q.offsets[t] = IF t = s THEN -1 ELSE pr.offsets[t]
    BY <1>1, <1>3, <1>5 DEF TAKEN_OFFSET
  <2>3. t \in Nat /\ s \in Nat /\ off \in Nat /\ pr.offsets[t] \in Int
    BY <1>1, <1>5
  <2>4. t = s => pr.offsets[t] = off
    BY DEF off
  <2> QED BY <1>1, <1>4, <1>5, <2>1, <2>2, <2>3, <2>4
<1>8. ASSUME NEW j \in Slot PROVE q.offset[j] < q.swap_len
  <2>1. pr.offset[j] < pr.swap_len
    BY DEF SwapOK
  <2>2. q.offset[j] = IF j = i THEN off ELSE pr.offset[j]
    BY <1>2, <1>3, <1>5, Zenon
  <2>3. off \in Nat /\ pr.offset[j] \in Int
    BY <1>1, <1>5
  <2> QED BY <1>1, <1>4, <1>5, <2>1, <2>2, <2>3
<1> QED BY <1>6, <1>7, <1>8 DEF SwapOK

\* An offset that is given back goes to the part of the table that the file covers.
LEMMA SwapOKBack ==
  ASSUME NEW pr \in PageRec, NEW q, SwapOK(pr), SameFile(q, pr),
         NEW i \in Slot, NEW s \in SwapSlot, pr.offsets[s] = TAKEN_OFFSET,
         q.offset = [pr.offset EXCEPT ![i] = -1],
         q.offsets = [pr.offsets EXCEPT ![s] = pr.offset[i]]
  PROVE  SwapOK(q)
<1>1. /\ pr.swap_len \in Nat /\ SwapSlot \subseteq Nat
      /\ pr.offset \in [Slot -> Int] /\ pr.offsets \in [SwapSlot -> Int]
  BY FileTypes
<1>2. s < pr.swap_len
  BY <1>1, Sizes DEF SwapOK, TAKEN_OFFSET
<1> QED BY <1>1, <1>2 DEF SwapOK, SameFile

\* swap_from_file keeps SwapOK.
LEMMA SwapOKIn ==
  ASSUME NEW pr \in PageRec, NEW q, NEW v \in pr.PTE_PG, NEW f, RecOK(pr), SwapOK(pr),
         PageIn(q, pr, v, f), SameFile(q, pr)
  PROVE  SwapOK(q)
<1> DEFINE i == find_page_ind(pr, v)
           s == free_offset_ind(pr)
<1>1. i \in Swapped(pr) /\ i \in Slot
  BY FindPage DEF RecOK, PageRec, Swapped
<1>2. s \in SwapSlot /\ pr.offsets[s] = TAKEN_OFFSET
  BY <1>1, FreeOffsetFinds, ZenonT(60) DEF RecOK
<1>3. /\ q.offset = [pr.offset EXCEPT ![i] = -1]
      /\ q.offsets = [pr.offsets EXCEPT ![s] = pr.offset[i]]
  BY Zenon DEF PageIn
<1> HIDE DEF i, s
<1> QED BY <1>1, <1>2, <1>3, SwapOKBack, Zenon

\* remove_page keeps SwapOK.
LEMMA SwapOKRemoved ==
  ASSUME NEW pr \in PageRec, NEW q, NEW v \in Mapped(pr), RecOK(pr), SwapOK(pr),
         PageRemoved(q, pr, v), SameFile(q, pr)
  PROVE  SwapOK(q)
<1> DEFINE i == find_page_ind(pr, v)
           s == free_offset_ind(pr)
<1>1. i \in Slot /\ i \in pr.taken
  BY FindPage DEF RecOK, PageRec, Mapped, MetaOK
<1>2. CASE pr.offset[i] = -1
  <2>1. q.offset = [pr.offset EXCEPT ![i] = -1] /\ q.offsets = pr.offsets
    BY <1>2, ZenonT(60) DEF PageRemoved
  <2>2. q.offset = pr.offset
    BY <1>1, <1>2, <2>1, ZenonT(60) DEF PageRec
  <2> QED BY <2>1, <2>2, ZenonT(60) DEF SwapOK, SameFile
<1>3. CASE pr.offset[i] # -1
  <2>1. i \in Swapped(pr)
    BY <1>1, <1>3, ZenonT(60) DEF RecOK, OffsetsOK
  <2>2. s \in SwapSlot /\ pr.offsets[s] = TAKEN_OFFSET
    BY <2>1, FreeOffsetFinds, ZenonT(60) DEF RecOK
  <2>3. /\ q.offset = [pr.offset EXCEPT ![i] = -1]
        /\ q.offsets = [pr.offsets EXCEPT ![s] = pr.offset[i]]
    BY <1>3, Zenon DEF PageRemoved
  <2> HIDE DEF i, s
  <2> QED BY <1>1, <2>2, <2>3, SwapOKBack, ZenonT(60)
<1> QED BY <1>2, <1>3, ZenonT(60)

\* SwapOK depends on the offsets and the file.
LEMMA SwapOKSame ==
  ASSUME NEW pr, NEW q, SwapOK(pr), SameFile(q, pr), q.offset = pr.offset,
         q.offsets = pr.offsets
  PROVE  SwapOK(q)
BY Zenon DEF SwapOK, SameFile

-----------------------------------------------------------------------------
\* Then it keeps its content.
LEMMA StaysKept ==
  ASSUME NEW pr, NEW q, NEW m, NEW n, NEW u, Stays(pr, m, q, n, u)
  PROVE  Content(q, n, u) = Content(pr, m, u)
BY DEF Content, Stays

\* find_page_ind depends on the entries of the page.
LEMMA FoundSame ==
  ASSUME NEW pr, NEW q, NEW u,
         {i \in q.taken : q.pte[i] = u} = {i \in pr.taken : pr.pte[i] = u}
  PROVE  find_page_ind(q, u) = find_page_ind(pr, u)
BY Zenon DEF find_page_ind

\* The same file reads the same.
LEMMA ReadSame ==
  ASSUME NEW pr, NEW q, NEW o, SameFile(q, pr)
  PROVE  readFromSwapFile(q, o) = readFromSwapFile(pr, o)
BY Zenon DEF readFromSwapFile, SameFile

\* A record with the same pages, offsets and file has the same contents.
LEMMA ContentSame ==
  ASSUME NEW pr, NEW q, NEW m, NEW n, NEW u,
         q.taken = pr.taken, q.pte = pr.pte, q.offset = pr.offset, SameFile(q, pr),
         q.PTE_P = pr.PTE_P, q.PTE_ADDR = pr.PTE_ADDR,
         u \in pr.PTE_P => n[pr.PTE_ADDR[u]] = m[pr.PTE_ADDR[u]]
  PROVE  Content(q, n, u) = Content(pr, m, u)
<1>1. find_page_ind(q, u) = find_page_ind(pr, u)
  BY DEF find_page_ind
<1>2. readFromSwapFile(q, pr.offset[find_page_ind(pr, u)])
        = readFromSwapFile(pr, pr.offset[find_page_ind(pr, u)])
  BY ReadSame, Zenon
<1>3. Stays(pr, m, q, n, u)
  BY <1>1, <1>2, Zenon DEF Stays
<1> QED BY <1>3, StaysKept

\* The entries of two pages are two slots; the offset of a swapped out page is an
\* offset of the file.
LEMMA Entry ==
  ASSUME NEW pr \in PageRec, RecOK(pr), NEW u \in Mapped(pr)
  PROVE  LET i == find_page_ind(pr, u)
         IN /\ i \in pr.taken /\ i \in Slot /\ pr.pte[i] = u /\ u \in Vpn
            /\ u \notin pr.PTE_P => i \in Swapped(pr) /\ pr.offset[i] \in SwapSlot
<1>1. u \in Vpn /\ pr.taken \subseteq Slot /\ pr.on_phys \subseteq pr.taken
  BY DEF PageRec, Mapped, RecOK, MetaOK
<1>2. MetaOK(pr) /\ OffsetsOK(pr)
  BY DEF RecOK
<1> DEFINE i == find_page_ind(pr, u)
<1>3. /\ u \in pr.PTE_P => i \in pr.on_phys /\ pr.pte[i] = u
      /\ u \in pr.PTE_PG => i \in pr.taken \ pr.on_phys /\ pr.pte[i] = u
  BY <1>1, <1>2, FindPage
<1> HIDE DEF i
<1>4. u \notin pr.PTE_P => i \in Swapped(pr)
  BY <1>3 DEF Mapped, Swapped
<1>5. u \notin pr.PTE_P => pr.offset[i] \in SwapSlot
  BY <1>2, <1>4, FreeOffsetFinds, Zenon
<1>6. i \in pr.taken /\ i \in Slot /\ pr.pte[i] = u
  BY <1>1, <1>3 DEF Mapped
<1> QED BY <1>1, <1>4, <1>5, <1>6 DEF i

\* swap_to_file moves the content of page v into the file and disturbs no other.
LEMMA ContentOut ==
  ASSUME NEW pr \in PageRec, RecOK(pr), SwapOK(pr), NEW v \in pr.PTE_P, NEW q, NEW m, NEW n,
         get_offset_ind(pr) # -1, PageOut(q, pr, v), FileWritten(q, pr, m[pr.PTE_ADDR[v]]),
         SameFrames(pr, m, n, pr.PTE_P \ {v})
  PROVE  SameContents(pr, m, q, n, Mapped(pr))
<1> SUFFICES ASSUME NEW u \in Mapped(pr) PROVE Content(q, n, u) = Content(pr, m, u)
  BY DEF SameContents
<1> DEFINE i == find_page_ind(pr, v)
           j == find_page_ind(pr, u)
           s == get_offset_ind(pr)
           off == pr.offsets[s]
<1>1. v \in Mapped(pr) /\ v \in Vpn
  BY DEF Mapped, PageRec
<1>2. i \in Slot /\ pr.pte[i] = v
  BY <1>1, Entry
<1>3. /\ j \in Slot /\ pr.pte[j] = u /\ u \in Vpn
      /\ u \notin pr.PTE_P => j \in Swapped(pr) /\ pr.offset[j] \in SwapSlot
  BY Entry
<1>4. s \in SwapSlot /\ off \in SwapSlot
  BY NextOffset
<1>5. /\ q.taken = pr.taken /\ q.pte = pr.pte /\ q.offset = [pr.offset EXCEPT ![i] = off]
      /\ q.PTE_P = pr.PTE_P \ {v} /\ q.PTE_ADDR = [pr.PTE_ADDR EXCEPT ![v] = NoFrame]
  BY Zenon DEF PageOut
<1>6. /\ off <= pr.swap_len /\ q.swap = [pr.swap EXCEPT ![off] = m[pr.PTE_ADDR[v]]]
      /\ q.swap_len = IF off = pr.swap_len THEN pr.swap_len + 1 ELSE pr.swap_len
  BY Zenon DEF FileWritten
<1>7. /\ pr.offset \in [Slot -> SwapSlot \cup {-1}] /\ pr.swap \in [SwapSlot -> Data]
      /\ pr.PTE_ADDR \in [Vpn -> Frame \cup {NoFrame}] /\ pr.PTE_P \subseteq Vpn
      /\ pr.swap_len \in Nat /\ off \in Int
  <2>1. pr.swap_len \in Nat /\ SwapSlot \subseteq Nat
    BY FileTypes
  <2>2. /\ pr.offset \in [Slot -> SwapSlot \cup {-1}] /\ pr.swap \in [SwapSlot -> Data]
        /\ pr.PTE_ADDR \in [Vpn -> Frame \cup {NoFrame}] /\ pr.PTE_P \subseteq Vpn
    BY DEF PageRec
  <2> HIDE DEF off
  <2> QED BY <1>4, <2>1, <2>2
<1>8. find_page_ind(q, u) = j
  BY <1>5, Zenon DEF find_page_ind
<1>9. u \notin pr.PTE_P => pr.offset[j] # off
  <2>1. off \in Available(pr)
    <3>1. -1 \notin SwapSlot
      BY Sizes
    <3>2. off \in {pr.offsets[k] : k \in SwapSlot}
      BY <1>4
    <3> HIDE DEF off
    <3> QED BY <1>4, <3>1, <3>2 DEF Available, TAKEN_OFFSET
  <2>2. Available(pr) \cap Used(pr) = {}
    BY DEF RecOK, OffsetsOK
  <2>3. u \notin pr.PTE_P => pr.offset[j] \in Used(pr)
    BY <1>3 DEF Used
  <2> QED BY <2>1, <2>2, <2>3
<1>10. pr.swap_len <= pr.file_size /\ \A k \in Slot : pr.offset[k] < pr.swap_len
  BY DEF SwapOK
<1> HIDE DEF i, j, s, off
<1>11. CASE u = v
  <2>1. i = j /\ u \notin q.PTE_P /\ u \in pr.PTE_P
    BY <1>5, <1>11, Zenon DEF i, j
  <2>2. q.offset[j] = off
    BY <1>2, <1>5, <1>7, <2>1, Zenon
  <2>3. off < q.swap_len /\ q.swap[off] = m[pr.PTE_ADDR[v]]
    BY <1>4, <1>6, <1>7
  <2> QED BY <1>8, <1>11, <2>1, <2>2, <2>3, Zenon DEF Content, readFromSwapFile
<1>12. CASE u # v
  <2>1. /\ u \in q.PTE_P <=> u \in pr.PTE_P
        /\ u \in pr.PTE_P => q.PTE_ADDR[u] = pr.PTE_ADDR[u] /\ n[pr.PTE_ADDR[u]] = m[pr.PTE_ADDR[u]]
    BY <1>5, <1>7, <1>12, Zenon DEF SameFrames
  <2>2. q.offset[j] = pr.offset[j]
    BY <1>2, <1>3, <1>5, <1>7, <1>12, Zenon
  <2>3. u \notin pr.PTE_P => readFromSwapFile(q, pr.offset[j]) = readFromSwapFile(pr, pr.offset[j])
    <3> SUFFICES ASSUME u \notin pr.PTE_P
                 PROVE  readFromSwapFile(q, pr.offset[j]) = readFromSwapFile(pr, pr.offset[j])
      OBVIOUS
    <3>1. pr.offset[j] < pr.swap_len /\ pr.offset[j] \in Int
      BY <1>3, <1>10, FileTypes, Zenon
    <3>2. q.swap[pr.offset[j]] = pr.swap[pr.offset[j]]
      BY <1>3, <1>6, <1>7, <1>9, Zenon
    <3>3. pr.swap_len <= q.swap_len /\ pr.swap_len \in Int /\ q.swap_len \in Int
      BY <1>6, <1>7
    <3>4. pr.offset[j] < q.swap_len
      BY <3>1, <3>3
    <3> QED BY <3>1, <3>2, <3>4 DEF readFromSwapFile
  <2>4. Stays(pr, m, q, n, u)
    BY <1>8, <2>1, <2>2, <2>3, Zenon DEF Stays, j
  <2> QED BY <2>4, StaysKept
<1> QED BY <1>11, <1>12

\* swap_from_file puts the content of page v into frame f and disturbs no other.
LEMMA ContentIn ==
  ASSUME NEW pr \in PageRec, RecOK(pr), NEW v \in pr.PTE_PG, NEW f, NEW q, NEW m, NEW n,
         PageIn(q, pr, v, f), SameFile(q, pr), n[f] = Content(pr, m, v),
         SameFrames(pr, m, n, pr.PTE_P \ {v})
  PROVE  SameContents(pr, m, q, n, Mapped(pr))
<1> SUFFICES ASSUME NEW u \in Mapped(pr) PROVE Content(q, n, u) = Content(pr, m, u)
  BY DEF SameContents
<1> DEFINE i == find_page_ind(pr, v)
           j == find_page_ind(pr, u)
<1>1. v \in Mapped(pr) /\ v \in Vpn
  BY DEF Mapped, PageRec
<1>2. i \in Slot /\ pr.pte[i] = v
  BY <1>1, Entry
<1>3. j \in Slot /\ pr.pte[j] = u /\ u \in Vpn
  BY Entry
<1>4. /\ q.taken = pr.taken /\ q.pte = pr.pte /\ q.offset = [pr.offset EXCEPT ![i] = -1]
      /\ q.PTE_P = pr.PTE_P \cup {v} /\ q.PTE_ADDR = [pr.PTE_ADDR EXCEPT ![v] = f]
  BY Zenon DEF PageIn
<1>5. /\ pr.offset \in [Slot -> SwapSlot \cup {-1}]
      /\ pr.PTE_ADDR \in [Vpn -> Frame \cup {NoFrame}]
  BY DEF PageRec
<1>6. find_page_ind(q, u) = j
  BY <1>4, Zenon DEF find_page_ind
<1>7. readFromSwapFile(q, pr.offset[j]) = readFromSwapFile(pr, pr.offset[j])
  BY ReadSame, Zenon
<1> HIDE DEF i, j
<1>8. CASE u = v
  <2>1. u \in q.PTE_P /\ q.PTE_ADDR[u] = f
    BY <1>1, <1>4, <1>5, <1>8, Zenon
  <2> QED BY <1>8, <2>1 DEF Content
<1>9. CASE u # v
  <2>1. /\ u \in q.PTE_P <=> u \in pr.PTE_P
        /\ u \in pr.PTE_P => q.PTE_ADDR[u] = pr.PTE_ADDR[u] /\ n[pr.PTE_ADDR[u]] = m[pr.PTE_ADDR[u]]
    BY <1>3, <1>4, <1>5, <1>9, Zenon DEF SameFrames
  <2>2. q.offset[j] = pr.offset[j]
    BY <1>2, <1>3, <1>4, <1>5, <1>9
  <2>3. Stays(pr, m, q, n, u)
    BY <1>6, <1>7, <2>1, <2>2, Zenon DEF Stays, j
  <2> QED BY <2>3, StaysKept
<1> QED BY <1>8, <1>9

\* A new page has the content of its frame.
LEMMA ContentNew ==
  ASSUME NEW pr, NEW q, NEW v, NEW f, NEW n, v \in Vpn,
         pr.PTE_ADDR \in [Vpn -> Frame \cup {NoFrame}],
         q.PTE_P = pr.PTE_P \cup {v}, q.PTE_ADDR = [pr.PTE_ADDR EXCEPT ![v] = f]
  PROVE  Content(q, n, v) = n[f]
BY DEF Content

\* A new page disturbs no other.
LEMMA ContentAdded ==
  ASSUME NEW pr \in PageRec, RecOK(pr), NEW v \in Vpn, v \notin Mapped(pr), NEW f, NEW q,
         NEW m, NEW n, PageAdded(q, pr, v, f), SameFile(q, pr),
         SameFrames(pr, m, n, pr.PTE_P)
  PROVE  SameContents(pr, m, q, n, Mapped(pr))
<1> DEFINE i == find_free_slot(pr)
<1>1. /\ i \in Slot \ pr.taken
      /\ q.taken = pr.taken \cup {i} /\ q.pte = [pr.pte EXCEPT ![i] = v] /\ q.offset = pr.offset
      /\ q.PTE_P = pr.PTE_P \cup {v} /\ q.PTE_ADDR = [pr.PTE_ADDR EXCEPT ![v] = f]
  BY Zenon DEF PageAdded
<1>2. /\ pr.pte \in [Slot -> Vpn \cup {-1}] /\ pr.taken \subseteq Slot
      /\ pr.PTE_ADDR \in [Vpn -> Frame \cup {NoFrame}]
  BY DEF PageRec
<1> HIDE DEF i
<1>3. ASSUME NEW u \in Mapped(pr) PROVE Content(q, n, u) = Content(pr, m, u)
  <2> DEFINE j == find_page_ind(pr, u)
  <2>1. u # v
    BY <1>3
  <2>2. u \in Vpn
    BY Entry
  <2>3. {k \in q.taken : q.pte[k] = u} = {k \in pr.taken : pr.pte[k] = u}
    <3>1. q.pte[i] = v /\ \A k \in pr.taken : q.pte[k] = pr.pte[k]
      BY <1>1, <1>2
    <3> QED BY <1>1, <2>1, <3>1
  <2>4. find_page_ind(q, u) = j
    BY <2>3, FoundSame
  <2>5. readFromSwapFile(q, pr.offset[j]) = readFromSwapFile(pr, pr.offset[j])
    BY ReadSame, Zenon
  <2>6. /\ u \in q.PTE_P <=> u \in pr.PTE_P
        /\ u \in pr.PTE_P => q.PTE_ADDR[u] = pr.PTE_ADDR[u] /\ n[pr.PTE_ADDR[u]] = m[pr.PTE_ADDR[u]]
    BY <1>1, <1>2, <2>1, <2>2, Zenon DEF SameFrames
  <2> HIDE DEF j
  <2>7. q.offset[j] = pr.offset[j]
    BY <1>1
  <2>8. Stays(pr, m, q, n, u)
    BY <2>4, <2>5, <2>6, <2>7, Zenon DEF Stays, j
  <2> QED BY <2>8, StaysKept
<1> QED BY <1>3 DEF SameContents

\* remove_page of page v disturbs no other page.
LEMMA ContentRemoved ==
  ASSUME NEW pr \in PageRec, RecOK(pr), NEW v \in Mapped(pr), NEW q, NEW m, NEW n,
         PageRemoved(q, pr, v), SameFile(q, pr),
         SameFrames(pr, m, n, pr.PTE_P \ {v})
  PROVE  SameContents(pr, m, q, n, Mapped(pr) \ {v})
<1> DEFINE i == find_page_ind(pr, v)
<1>1. i \in Slot /\ i \in pr.taken /\ pr.pte[i] = v /\ v \in Vpn
  BY Entry
<1>2. /\ q.taken = pr.taken \ {i} /\ q.pte = [pr.pte EXCEPT ![i] = -1]
      /\ q.offset = [pr.offset EXCEPT ![i] = -1]
      /\ q.PTE_P = pr.PTE_P \ {v} /\ q.PTE_ADDR = [pr.PTE_ADDR EXCEPT ![v] = NoFrame]
  BY Zenon DEF PageRemoved
<1>3. /\ pr.pte \in [Slot -> Vpn \cup {-1}] /\ pr.taken \subseteq Slot
      /\ pr.PTE_ADDR \in [Vpn -> Frame \cup {NoFrame}]
      /\ pr.offset \in [Slot -> SwapSlot \cup {-1}]
  BY DEF PageRec
<1> HIDE DEF i
<1>4. ASSUME NEW u \in Mapped(pr) \ {v} PROVE Content(q, n, u) = Content(pr, m, u)
  <2> DEFINE j == find_page_ind(pr, u)
  <2>1. u # v /\ u \in Mapped(pr)
    BY <1>4
  <2>2. j \in Slot /\ pr.pte[j] = u /\ u \in Vpn
    BY <2>1, Entry
  <2>3. {k \in q.taken : q.pte[k] = u} = {k \in pr.taken : pr.pte[k] = u}
    <3>1. \A k \in pr.taken \ {i} : q.pte[k] = pr.pte[k]
      BY <1>1, <1>2, <1>3
    <3> QED BY <1>1, <1>2, <2>1, <3>1, Zenon
  <2>4. find_page_ind(q, u) = j
    BY <2>3, FoundSame
  <2>5. readFromSwapFile(q, pr.offset[j]) = readFromSwapFile(pr, pr.offset[j])
    BY ReadSame, Zenon
  <2> HIDE DEF j
  <2>6. /\ u \in q.PTE_P <=> u \in pr.PTE_P
        /\ u \in pr.PTE_P => q.PTE_ADDR[u] = pr.PTE_ADDR[u] /\ n[pr.PTE_ADDR[u]] = m[pr.PTE_ADDR[u]]
    BY <1>1, <1>2, <1>3, <2>1, <2>2, Zenon DEF SameFrames
  <2>7. q.offset[j] = pr.offset[j]
    BY <1>1, <1>2, <1>3, <2>1, <2>2
  <2>8. Stays(pr, m, q, n, u)
    BY <2>4, <2>5, <2>6, <2>7, Zenon DEF Stays, j
  <2> QED BY <2>8, StaysKept
<1> QED BY <1>4 DEF SameContents

\* A page that is mapped but not in pages[], as when pages[] is full, disturbs no other.
LEMMA ContentFull ==
  ASSUME NEW pr, NEW q, NEW u, NEW m, NEW n,
         q.taken = pr.taken, q.pte = pr.pte, q.offset = pr.offset, SameFile(q, pr),
         u \in q.PTE_P <=> u \in pr.PTE_P,
         u \in pr.PTE_P => q.PTE_ADDR[u] = pr.PTE_ADDR[u] /\ n[pr.PTE_ADDR[u]] = m[pr.PTE_ADDR[u]]
  PROVE  Content(q, n, u) = Content(pr, m, u)
<1> DEFINE j == find_page_ind(pr, u)
<1>1. find_page_ind(q, u) = j
  BY DEF find_page_ind
<1>2. readFromSwapFile(q, pr.offset[j]) = readFromSwapFile(pr, pr.offset[j])
  BY ReadSame, Zenon
<1> HIDE DEF j
<1>3. q.offset[j] = pr.offset[j]
  OBVIOUS
<1>4. Stays(pr, m, q, n, u)
  BY <1>1, <1>2, <1>3, Zenon DEF Stays, j
<1> QED BY <1>4, StaysKept
=============================================================================
