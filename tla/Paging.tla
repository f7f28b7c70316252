------------------------------- MODULE Paging -------------------------------
(***************************************************************************)
(* Demand paging of user processes (vm.c, swap.c, and the callers of both  *)
(* in trap.c, proc.c and exec.c), SCFIFO build.                            *)
(*                                                                         *)
(* A process is in user mode or in one of the kernel's loops; the loops    *)
(* are one step per iteration, so that other processes' allocations come   *)
(* in between.  User programs are the environment: they fetch instructions *)
(* from page 0, refer to the pages of Refs, and pass buffers in Bufs to    *)
(* system calls.  A panic, or a write outside p->pages, ends the run.  A   *)
(* process whose exec failed is followed only to its exit.                 *)
(***************************************************************************)
EXTENDS SwapMeta, FiniteSets

CONSTANTS
  Proc,        \* slots of the process table
  SpawnSizes,  \* pages of the programs the shell starts, guard and stack included
  ExecSizes,   \* pages of the programs that paged processes exec
  Refs,        \* pages that programs refer to
  Bufs,        \* pages that programs pass to system calls as buffers
  MaxGrow,     \* most pages one sbrk call asks for
  Pressure     \* TRUE: the rest of the kernel may have emptied kalloc's list

ASSUME EnvAssumption ==
  /\ SpawnSizes \cup ExecSizes \subseteq 3 .. NVPN
  /\ \A n \in SpawnSizes \cup ExecSizes : n <= MAX_TOTAL_PAGES
  /\ Refs \subseteq Vpn /\ Bufs \subseteq Vpn
  /\ MaxGrow \in Nat /\ Pressure \in BOOLEAN

VARIABLES
  proc,   \* proc[p]: state, killed, sz and the stack page of the process
  pg,     \* pg[p]: its paging record (SwapMeta)
  kern,   \* kern[p]: what the kernel is doing for it
  mem,    \* contents of the frames
  free,   \* kalloc's free list
  panic   \* "" or the message of a panic

vars == <<proc, pg, kern, mem, free, panic>>

Text == 0
Idle == [pc |-> "user", cur |-> 0, a |-> 0, lim |-> 0, ret |-> 0,
         then |-> "user", peer |-> {}, old |-> {}]
Unused == [state |-> "UNUSED", killed |-> FALSE, sz |-> 0, stk |-> 0]
\* "failed": back in user mode after an exec that failed; "halt": inside panic.
PC == {"user", "scan", "swapout", "swapin", "grow", "alloc", "dealloc", "exec", "copy",
       "failed", "halt"}

Messages == {"", "trap", "page fault present", "page on phys", "swap file", "pages[-1]",
             "add page", "remove page", "copyuvm", "can't create pte", "kfree"}

ProcRec == [state : {"UNUSED", "EMBRYO", "RUNNING", "ZOMBIE"},
            killed : BOOLEAN, sz : 0 .. NVPN, stk : Vpn]
KernRec == [pc : PC, cur : Slot \cup {-1}, a : 0 .. NVPN, lim : 0 .. NVPN,
            ret : 0 .. NVPN, then : {"user", "swapin", "alloc"},
            peer : SUBSET Proc, old : SUBSET Frame]

TypeOK ==
  /\ proc \in [Proc -> ProcRec] /\ pg \in [Proc -> PageRec] /\ kern \in [Proc -> KernRec]
  /\ mem \in [Frame -> Data] /\ free \subseteq Frame
  /\ panic \in Messages

Init ==
  /\ proc = [p \in Proc |-> Unused]
  /\ pg = [p \in Proc |-> init_page_meta(0)]
  /\ kern = [p \in Proc |-> Idle]
  /\ mem = [f \in Frame |-> Junk]
  /\ free = Frame
  /\ panic = ""

-----------------------------------------------------------------------------
\* The process is about to execute a user instruction.
User(p) == /\ panic = ""
           /\ proc[p].state = "RUNNING" /\ ~proc[p].killed
           /\ kern[p].pc = "user"
\* Its instruction page, and for a system call its stack page too, are in memory.
Fetched(p) == Text \in pg[p].PTE_P \cap pg[p].PTE_U
Syscall(p) == User(p) /\ Fetched(p) /\ proc[p].stk \in pg[p].PTE_P

In(p, pc) == panic = "" /\ proc[p].state = "RUNNING" /\ kern[p].pc = pc
Goto(p, k) == kern' = [kern EXCEPT ![p] = k]
SetPage(p, pr) == pg' = [pg EXCEPT ![p] = pr]
Crash(msg) == panic' = msg /\ UNCHANGED <<proc, pg, kern, mem, free>>

KallocFails == free = {} \/ Pressure
\* Mutant: kalloc does not take the frame off the list.
AllocKeepsFree(f, d) == free' = free /\ mem' = [mem EXCEPT ![f] = d]

\* kalloc of frame f, filled with d.
Alloc(f, d) == free' = free \ {f} /\ mem' = [mem EXCEPT ![f] = d]
\* kfree fills the frames with 1s.
kfree(S) ==
  /\ free' = free \cup S
  /\ mem' = [f \in Frame |-> IF f \in S THEN Junk ELSE mem[f]]

\* An instruction reads or writes page v; the MMU sets the accessed bit.
Load(p, v) ==
  /\ User(p) /\ Fetched(p) /\ v \in Refs
  /\ v \in pg[p].PTE_P \cap pg[p].PTE_U
  /\ SetPage(p, [pg[p] EXCEPT !.PTE_A = @ \cup {v}])
  /\ UNCHANGED <<proc, kern, mem, free, panic>>

Store(p, v, d) ==
  /\ User(p) /\ Fetched(p) /\ v \in Refs
  /\ v \in pg[p].PTE_P \cap pg[p].PTE_U
  /\ SetPage(p, [pg[p] EXCEPT !.PTE_A = @ \cup {v}])
  /\ mem' = [mem EXCEPT ![pg[p].PTE_ADDR[v]] = d]
  /\ UNCHANGED <<proc, kern, free, panic>>

\* A system call that the kernel answers by writing d into the buffer at page v.
\* argptr checks v against p->sz only; a fault in kernel mode is panic("trap").
SysBuffer(p, v, d) ==
  /\ Syscall(p) /\ v \in Bufs /\ v < proc[p].sz
  /\ IF v \notin pg[p].PTE_P THEN Crash("trap")
     ELSE /\ SetPage(p, [pg[p] EXCEPT !.PTE_A = @ \cup {v}])
          /\ mem' = [mem EXCEPT ![pg[p].PTE_ADDR[v]] = d]
          /\ UNCHANGED <<proc, kern, free, panic>>

-----------------------------------------------------------------------------
\* trap() and handle_pgflt up to the call of free_page.
PageFault(p, v) ==
  /\ User(p) /\ v \in Refs \cup {Text} /\ (Fetched(p) \/ v = Text)
  /\ v \notin pg[p].PTE_P \cap pg[p].PTE_U
  /\ IF v \in pg[p].PTE_P THEN Crash("page fault present")
     ELSE IF v \notin pg[p].PTE_PG
     THEN /\ proc' = [proc EXCEPT ![p].killed = TRUE]
          /\ UNCHANGED <<pg, kern, mem, free, panic>>
     ELSE /\ Goto(p, IF pg[p].phys_pages = MAX_PHYS_PAGES
                     THEN [Idle EXCEPT !.pc = "scan", !.cur = pg[p].headp,
                                       !.a = v, !.then = "swapin"]
                     ELSE [Idle EXCEPT !.pc = "swapin", !.a = v])
          /\ UNCHANGED <<proc, pg, mem, free, panic>>

\* One turn of get_page_to_swap's loop.
Scan(p) ==
  /\ In(p, "scan")
  /\ LET i == kern[p].cur
         v == pg[p].pte[i]
         nx == pg[p].nextp[i]
     IN IF i \notin pg[p].on_phys THEN Crash("page on phys")
        ELSE IF v \notin pg[p].PTE_A
        THEN /\ Goto(p, [kern[p] EXCEPT !.pc = "swapout"])
             /\ UNCHANGED <<proc, pg, mem, free, panic>>
        ELSE /\ SetPage(p, [pg[p] EXCEPT !.PTE_A = @ \ {v}])
             /\ Goto(p, [kern[p] EXCEPT !.cur = nx,
                                        !.pc = IF nx = pg[p].headp THEN "swapout" ELSE @])
             /\ UNCHANGED <<proc, mem, free, panic>>

\* The rest of free_page: swap_to_file, then kfree of the frame.
SwapOut(p) ==
  /\ In(p, "swapout")
  /\ LET v == pg[p].pte[kern[p].cur]
         f == pg[p].PTE_ADDR[v]
     IN IF get_offset_ind(pg[p]) = -1 THEN Crash("swap file")
        ELSE /\ SetPage(p, swap_to_file(pg[p], v, mem[f]))
             /\ kfree({f})
             /\ Goto(p, [kern[p] EXCEPT !.pc = kern[p].then, !.then = "user", !.cur = 0])
             /\ UNCHANGED <<proc, panic>>

\* handle_pgflt from kalloc on.  swap_from_file does not test headp.
SwapIn(p) ==
  /\ In(p, "swapin")
  /\ LET v == kern[p].a
         i == find_page_ind(pg[p], v)
     IN IF pg[p].headp = -1 THEN free # {} /\ Crash("pages[-1]")
        ELSE IF free_offset_ind(pg[p]) = -1 THEN free # {} /\ Crash("swap file")
        ELSE \E f \in free :
               /\ SetPage(p, swap_from_file(mappages(pg[p], v, f), v))
               /\ Alloc(f, readFromSwapFile(pg[p], pg[p].offset[i]))
               /\ Goto(p, Idle)
               /\ UNCHANGED <<proc, panic>>

\* "mapping out of memory": back to the instruction, which faults again.
SwapInNoMemory(p) ==
  /\ In(p, "swapin") /\ KallocFails
  /\ Goto(p, Idle)
  /\ UNCHANGED <<proc, pg, mem, free, panic>>

-----------------------------------------------------------------------------
\* sbrk(n), n > 0: growproc and allocuvm up to its loop.
Sbrk(p, n) ==
  /\ Syscall(p) /\ proc[p].sz + n <= NVPN
  /\ Goto(p, [Idle EXCEPT !.pc = "grow", !.a = proc[p].sz,
                          !.lim = proc[p].sz + n, !.ret = proc[p].sz + n])
  /\ UNCHANGED <<proc, pg, mem, free, panic>>

\* Mutant: a page is freed only above the limit.
GrowOverLimit(p) ==
  /\ In(p, "grow")
  /\ IF kern[p].a = kern[p].lim
     THEN proc' = [proc EXCEPT ![p].sz = kern[p].ret] /\ Goto(p, Idle)
     ELSE /\ Goto(p, IF pg[p].phys_pages > MAX_PHYS_PAGES
                     THEN [kern[p] EXCEPT !.pc = "scan", !.cur = pg[p].headp,
                                          !.then = "alloc"]
                     ELSE [kern[p] EXCEPT !.pc = "alloc"])
          /\ UNCHANGED proc
  /\ UNCHANGED <<pg, mem, free, panic>>

\* The head of allocuvm's loop: done, or a page is freed if the limit is reached.
Grow(p) ==
  /\ In(p, "grow")
  /\ IF kern[p].a = kern[p].lim
     THEN /\ proc' = [proc EXCEPT ![p].sz = kern[p].ret]
          /\ Goto(p, Idle)
     ELSE /\ Goto(p, IF pg[p].phys_pages >= MAX_PHYS_PAGES
                     THEN [kern[p] EXCEPT !.pc = "scan", !.cur = pg[p].headp,
                                          !.then = "alloc"]
                     ELSE [kern[p] EXCEPT !.pc = "alloc"])
          /\ UNCHANGED proc
  /\ UNCHANGED <<pg, mem, free, panic>>

\* The body of allocuvm's loop from kalloc on.  When p->pages is full the page
\* stays mapped, the process is killed and its size stays as it was.
AllocPage(p) ==
  /\ In(p, "alloc")
  /\ LET v == kern[p].a
     IN IF find_page_ind(pg[p], v) # -1 THEN free # {} /\ Crash("add page")
        ELSE \E f \in free :
               /\ Alloc(f, Zero)
               /\ SetPage(p, add_page(mappages(pg[p], v, f), v))
               /\ IF find_free_slot(pg[p]) = -1
                  THEN /\ proc' = [proc EXCEPT ![p].killed = TRUE]
                       /\ Goto(p, Idle)
                  ELSE /\ Goto(p, [kern[p] EXCEPT !.pc = "grow", !.a = v + 1])
                       /\ UNCHANGED proc
               /\ UNCHANGED panic

\* "allocuvm out of memory": deallocuvm(pgdir, newsz, oldsz), then sbrk fails.
AllocNoMemory(p) ==
  /\ In(p, "alloc") /\ KallocFails
  /\ Goto(p, [kern[p] EXCEPT !.pc = "dealloc", !.a = proc[p].sz, !.ret = proc[p].sz])
  /\ UNCHANGED <<proc, pg, mem, free, panic>>

\* sbrk(-n): growproc and deallocuvm up to its loop.  A new size of 0 is taken
\* for an error and not stored.
SbrkDown(p, n) ==
  /\ Syscall(p) /\ n <= proc[p].sz
  /\ LET newsz == proc[p].sz - n
     IN Goto(p, [Idle EXCEPT !.pc = "dealloc", !.a = newsz, !.lim = proc[p].sz,
                             !.ret = IF newsz = 0 THEN proc[p].sz ELSE newsz])
  /\ UNCHANGED <<proc, pg, mem, free, panic>>

\* Mutant: the loop does not step over a page that is not mapped.
DeallocStuck(p) ==
  /\ In(p, "dealloc")
  /\ LET v == kern[p].a
     IN IF v = kern[p].lim
        THEN /\ proc' = [proc EXCEPT ![p].sz = kern[p].ret]
             /\ Goto(p, Idle)
             /\ UNCHANGED <<pg, mem, free, panic>>
        ELSE IF v \notin pg[p].PTE_P \cup pg[p].PTE_PG THEN UNCHANGED vars
        ELSE /\ SetPage(p, clear_pte(remove_page(pg[p], v), v))
             /\ kfree({pg[p].PTE_ADDR[v]} \ {NoFrame})
             /\ Goto(p, [kern[p] EXCEPT !.a = v + 1])
             /\ UNCHANGED <<proc, panic>>

\* One turn of deallocuvm's loop on the current page table.
Dealloc(p) ==
  /\ In(p, "dealloc")
  /\ LET v == kern[p].a
         f == pg[p].PTE_ADDR[v]
     IN IF v = kern[p].lim
        THEN /\ proc' = [proc EXCEPT ![p].sz = kern[p].ret]
             /\ Goto(p, Idle)
             /\ UNCHANGED <<pg, mem, free, panic>>
        ELSE IF v \notin pg[p].PTE_P \cup pg[p].PTE_PG
        THEN /\ Goto(p, [kern[p] EXCEPT !.a = v + 1])
             /\ UNCHANGED <<proc, pg, mem, free, panic>>
        ELSE IF find_page_ind(pg[p], v) = -1 THEN Crash("remove page")
        ELSE /\ SetPage(p, clear_pte(remove_page(pg[p], v), v))
             /\ kfree(IF v \in pg[p].PTE_P THEN {f} ELSE {})
             /\ Goto(p, [kern[p] EXCEPT !.a = v + 1])
             /\ UNCHANGED <<proc, panic>>

-----------------------------------------------------------------------------
\* fork: allocproc, then copyuvm, one page per step.
Fork(p, q) ==
  /\ Syscall(p) /\ proc[q].state = "UNUSED"
  /\ proc' = [proc EXCEPT ![q].state = "EMBRYO"]
  /\ SetPage(q, init_page_meta(0))
  /\ Goto(p, [Idle EXCEPT !.pc = "copy", !.lim = proc[p].sz, !.peer = {q}])
  /\ UNCHANGED <<mem, free, panic>>

\* The flags of page v as *npte = *pte, or mappages with the same flags, set them.
copy_flags(dst, src, v) ==
  [dst EXCEPT !.PTE_P = @ \cup ({v} \cap src.PTE_P),
              !.PTE_PG = @ \cup ({v} \cap src.PTE_PG),
              !.PTE_A = @ \cup ({v} \cap src.PTE_A),
              !.PTE_U = @ \cup ({v} \cap src.PTE_U)]

\* Mutant: the copy maps the parent's frame.
CopyPageShares(p, q) ==
  /\ In(p, "copy") /\ q \in kern[p].peer /\ kern[p].a < kern[p].lim
  /\ LET v == kern[p].a
     IN SetPage(q, [copy_flags(pg[q], pg[p], v) EXCEPT
                     !.PTE_ADDR = [@ EXCEPT ![v] = pg[p].PTE_ADDR[v]]])
  /\ Goto(p, [kern[p] EXCEPT !.a = @ + 1])
  /\ UNCHANGED <<proc, mem, free, panic>>

\* One turn of copyuvm's loop.
CopyPage(p, q) ==
  /\ In(p, "copy") /\ q \in kern[p].peer /\ kern[p].a < kern[p].lim
  /\ LET v == kern[p].a
         dst == copy_flags(pg[q], pg[p], v)
     IN IF v \notin pg[p].PTE_P \cup pg[p].PTE_PG THEN Crash("copyuvm")
        ELSE IF v \in pg[p].PTE_PG
        THEN /\ SetPage(q, dst)
             /\ Goto(p, [kern[p] EXCEPT !.a = v + 1])
             /\ UNCHANGED <<proc, mem, free, panic>>
        ELSE \E f \in free :
               /\ Alloc(f, mem[pg[p].PTE_ADDR[v]])
               /\ SetPage(q, [dst EXCEPT !.PTE_ADDR = [@ EXCEPT ![v] = f]])
               /\ Goto(p, [kern[p] EXCEPT !.a = v + 1])
               /\ UNCHANGED <<proc, panic>>

\* The frames a page table maps.
Frames(pr) == {pr.PTE_ADDR[v] : v \in pr.PTE_P}

\* fork returns -1: the slot of the child is UNUSED again (nothing resets killed).
ForkFails(p, q) ==
  /\ SetPage(q, init_page_meta(0))
  /\ proc' = [proc EXCEPT ![q].state = "UNUSED"]
  /\ Goto(p, Idle)
  /\ UNCHANGED panic

\* Mutant: the half built copy is not freed.
CopyNoMemoryLeaks(p, q) ==
  /\ In(p, "copy") /\ q \in kern[p].peer /\ kern[p].a < kern[p].lim
  /\ (kern[p].a = 0 \/ kern[p].a \in pg[p].PTE_P) /\ KallocFails
  /\ UNCHANGED <<mem, free>>
  /\ ForkFails(p, q)

\* copyuvm fails, at setupkvm before the first page or at the frame of a page:
\* freevm of the half built copy.
CopyNoMemory(p, q) ==
  /\ In(p, "copy") /\ q \in kern[p].peer /\ kern[p].a < kern[p].lim
  /\ (kern[p].a = 0 \/ kern[p].a \in pg[p].PTE_P) /\ KallocFails
  /\ kfree(Frames(pg[q]))
  /\ ForkFails(p, q)

\* copyuvm fails at the page table of the copy, which is allocated with the first
\* page (a paged process fits into one page table): a panic if that page is
\* swapped out, and otherwise the frame that was just filled is not freed.
CopyNoTable(p, q) ==
  /\ In(p, "copy") /\ q \in kern[p].peer /\ kern[p].a = 0
  /\ \/ 0 \in pg[p].PTE_PG /\ KallocFails /\ Crash("can't create pte")
     \/ /\ 0 \in pg[p].PTE_P
        /\ \E f \in free :
             /\ free = {f} \/ Pressure
             /\ Alloc(f, mem[pg[p].PTE_ADDR[0]])
        /\ ForkFails(p, q)

\* Mutant: the last page of the file is not copied.
copy_swap_file_short(src) ==
  [o \in SwapSlot |-> IF o < src.file_size - 1 THEN readFromSwapFile(src, o) ELSE Junk]

\* copy_swap_file: the first file_size pages of the file.
copy_swap_file(src) ==
  [o \in SwapSlot |-> IF o < src.file_size THEN readFromSwapFile(src, o) ELSE Junk]

\* Mutant: headp is not copied.
copy_without_head(dst, src) ==
  [src EXCEPT !.PTE_P = dst.PTE_P, !.PTE_PG = dst.PTE_PG, !.PTE_A = dst.PTE_A,
              !.PTE_U = dst.PTE_U, !.PTE_ADDR = dst.PTE_ADDR,
              !.swap = copy_swap_file(src), !.swap_len = src.file_size,
              !.headp = dst.headp]

\* copy_page_arr, on the page table that copyuvm built.
copy_page_arr(dst, src) ==
  [src EXCEPT !.PTE_P = dst.PTE_P, !.PTE_PG = dst.PTE_PG, !.PTE_A = dst.PTE_A,
              !.PTE_U = dst.PTE_U, !.PTE_ADDR = dst.PTE_ADDR,
              !.swap = copy_swap_file(src), !.swap_len = src.file_size]

\* The rest of fork.  copy_swap_file has a buffer from kalloc while it runs.
ForkDone(p, q) ==
  /\ In(p, "copy") /\ q \in kern[p].peer /\ kern[p].a = kern[p].lim /\ free # {}
  /\ SetPage(q, copy_page_arr(pg[q], pg[p]))
  /\ proc' = [proc EXCEPT ![q] = [proc[p] EXCEPT !.killed = proc[q].killed]]
  /\ Goto(p, Idle)
  /\ UNCHANGED <<mem, free, panic>>

\* copy_swap_file does not test the buffer: the pages of the file are read to
\* address 0, page 0 of the parent, and kfree(0) panics.
ForkNoBuffer(p, q) ==
  /\ In(p, "copy") /\ q \in kern[p].peer /\ kern[p].a = kern[p].lim /\ KallocFails
  /\ LET n == pg[p].swap_len
     IN mem' = IF n = 0 THEN mem
               ELSE [mem EXCEPT ![pg[p].PTE_ADDR[Text]] = pg[p].swap[n - 1]]
  /\ panic' = "kfree"
  /\ Goto(p, [kern[p] EXCEPT !.pc = "halt"])
  /\ UNCHANGED <<proc, pg, free>>

-----------------------------------------------------------------------------
\* exec of a program of n pages: from here on pages[] describes the page table
\* under construction and the swap file is a new one; the frames of the image
\* being replaced are in old.
Exec(p, n) ==
  /\ Syscall(p)
  /\ SetPage(p, init_page_meta(pg[p].file_size))
  /\ Goto(p, [Idle EXCEPT !.pc = "exec", !.lim = n, !.old = Frames(pg[p])])
  /\ UNCHANGED <<proc, mem, free, panic>>

\* The shell, which is not paged, forks a child that execs a program.
Spawn(p, n) ==
  /\ panic = "" /\ proc[p].state = "UNUSED"
  /\ proc' = [proc EXCEPT ![p].state = "RUNNING"]
  /\ SetPage(p, init_page_meta(0))
  /\ Goto(p, [Idle EXCEPT !.pc = "exec", !.lim = n])
  /\ UNCHANGED <<mem, free, panic>>

\* allocuvm on the new page table: it is not p->pgdir, so no page is freed.
ExecPage(p) ==
  /\ In(p, "exec") /\ kern[p].a < kern[p].lim
  /\ LET v == kern[p].a
     IN \E f \in free :
          /\ Alloc(f, Zero)
          /\ SetPage(p, add_page(mappages(pg[p], v, f), v))
          /\ Goto(p, [kern[p] EXCEPT !.a = v + 1])
  /\ UNCHANGED <<proc, panic>>

\* clearpteu of the page below the stack, commit, and freevm of the old image.
ExecDone(p) ==
  /\ In(p, "exec") /\ kern[p].a = kern[p].lim
  /\ LET n == kern[p].lim
     IN /\ SetPage(p, [pg[p] EXCEPT !.PTE_U = @ \ {n - 2}])
        /\ proc' = [proc EXCEPT ![p].sz = n, ![p].stk = n - 1]
  /\ kfree(kern[p].old)
  /\ Goto(p, Idle)
  /\ UNCHANGED panic

\* exec fails after init_page_meta: no frame, a bad program, or arguments that do
\* not fit.  The new page table is freed.  The process goes on with the old one,
\* whose frames are in old, and with a pages[] that does not describe it.
ExecFails(p) ==
  /\ In(p, "exec")
  /\ kfree(Frames(pg[p]))
  /\ SetPage(p, [pg[p] EXCEPT !.PTE_P = {}, !.PTE_A = {}, !.PTE_U = {},
                              !.PTE_ADDR = [v \in Vpn |-> NoFrame]])
  /\ Goto(p, [Idle EXCEPT !.pc = "failed", !.old = kern[p].old])
  /\ UNCHANGED <<proc, panic>>

\* kill, by any process.
Kill(p) ==
  /\ panic = "" /\ proc[p].state \in {"EMBRYO", "RUNNING"} /\ ~proc[p].killed
  /\ proc' = [proc EXCEPT ![p].killed = TRUE]
  /\ UNCHANGED <<pg, kern, mem, free, panic>>

\* exit, called by the program or on the way back to user mode once killed.  The
\* page table stays until wait; the rest of the record is not read again
\* before allocproc initialises it.
Exit(p) ==
  /\ In(p, "failed") \/ (In(p, "user") /\ (proc[p].killed \/ Fetched(p)))
  /\ proc' = [proc EXCEPT ![p] = [Unused EXCEPT !.state = "ZOMBIE"]]
  /\ SetPage(p, [init_page_meta(0) EXCEPT !.PTE_P = pg[p].PTE_P,
                                          !.PTE_ADDR = pg[p].PTE_ADDR])
  /\ UNCHANGED <<kern, mem, free, panic>>

\* The frames of a slot: those its page table maps, and those of the page table
\* that exec is replacing, or has failed to replace.
Held(p) == Frames(pg[p]) \cup kern[p].old

\* wait by the parent, or by init: freevm, and the slot is UNUSED.
Reap(p) ==
  /\ panic = "" /\ proc[p].state = "ZOMBIE"
  /\ kfree(Held(p))
  /\ SetPage(p, init_page_meta(0))
  /\ proc' = [proc EXCEPT ![p] = Unused]
  /\ Goto(p, Idle)
  /\ UNCHANGED panic

-----------------------------------------------------------------------------
\* The steps of the kernel on behalf of p, once it has entered.
KernelStep(p) ==
  \/ Scan(p) \/ SwapOut(p) \/ SwapIn(p) \/ SwapInNoMemory(p)
  \/ Grow(p) \/ AllocPage(p) \/ AllocNoMemory(p) \/ Dealloc(p)
  \/ ExecPage(p) \/ ExecDone(p) \/ ExecFails(p)
  \/ \E q \in Proc : \/ CopyPage(p, q) \/ CopyNoMemory(p, q) \/ CopyNoTable(p, q)
                    \/ ForkDone(p, q) \/ ForkNoBuffer(p, q)

UserStep(p) ==
  \/ \E v \in Vpn : Load(p, v) \/ PageFault(p, v)
  \/ \E v \in Vpn, d \in Data \ {Junk} : Store(p, v, d) \/ SysBuffer(p, v, d)
  \/ \E n \in 1 .. MaxGrow : Sbrk(p, n)
  \/ \E n \in 1 .. NVPN : SbrkDown(p, n)
  \/ \E q \in Proc : Fork(p, q)
  \/ \E n \in ExecSizes : Exec(p, n)
  \/ \E n \in SpawnSizes : Spawn(p, n)
  \/ Kill(p) \/ Exit(p) \/ Reap(p)

Next == \E p \in Proc : KernelStep(p) \/ UserStep(p)

Spec == Init /\ [][Next]_vars

-----------------------------------------------------------------------------
\* A process whose paging record is in use.  Once killed and back at the border of
\* user mode it only exits; a failed exec leaves a record of no page table.
Active(p) ==
  /\ proc[p].state = "RUNNING" /\ kern[p].pc \notin {"failed", "halt"}
  /\ ~(proc[p].killed /\ kern[p].pc = "user")

\* Add_page, remove_page and the two swap operations keep pages[] and the page
\* table in agreement, so find_page_ind finds what the page table mentions.
PagesDescribed == \A p \in Proc : Active(p) => MetaOK(pg[p])

\* The list that get_page_to_swap walks holds exactly the resident pages.
ResidentList == \A p \in Proc : Active(p) => RingOK(pg[p]) /\ OneCircle(pg[p])

\* get_offset and free_offset, which shuffle the table of offsets, never hand
\* out an offset in use and never lose one.
OffsetsPartitioned == \A p \in Proc : Active(p) => OffsetsOK(pg[p])

\* swap_to_file's write is never refused and fork copies enough: every swapped
\* out page lies inside the file, the next offset handed out is at most its
\* length, and the length is at most the file_size that copy_swap_file uses.
SwapFileHoldsPages ==
  \A p \in Proc : Active(p) =>
    LET pr == pg[p] IN
    /\ \A i \in Swapped(pr) : pr.offset[i] < pr.swap_len
    /\ get_offset_ind(pr) # -1 => pr.offsets[get_offset_ind(pr)] <= pr.swap_len
    /\ pr.swap_len <= pr.file_size

\* The pages of the image a process has, or is loading: the stack is the last.
ImageSize(p) == IF kern[p].pc = "exec" THEN kern[p].lim ELSE proc[p].stk + 1

\* The counters that decide when a page is freed count what they say, and a
\* process whose image had at most MAX_PHYS_PAGES pages never has more resident
\* ones, whatever the images of other processes.
PhysLimit ==
  \A p \in Proc : Active(p) =>
    /\ pg[p].phys_pages = Cardinality(Resident(pg[p]))
    /\ pg[p].num_of_pages = Cardinality(pg[p].taken)
    /\ ImageSize(p) <= MAX_PHYS_PAGES => pg[p].phys_pages <= MAX_PHYS_PAGES

\* No frame is freed while mapped, or mapped twice: it backs one page of one
\* process, or belongs to one image that exec is replacing, or neither.
FramesExclusive ==
  \A p \in Proc :
    /\ Held(p) \cap free = {} /\ Frames(pg[p]) \cap kern[p].old = {}
    /\ \A v, w \in pg[p].PTE_P : pg[p].PTE_ADDR[v] = pg[p].PTE_ADDR[w] => v = w
    /\ \A q \in Proc \ {p} : Held(p) \cap Held(q) = {}

\* The frames the kernel can still find.
Accounted == free \cup UNION {Held(p) : p \in Proc}

\* No step gives up a frame, not fork, exec or sbrk when they fail half way, nor
\* exit or wait, except that copyuvm loses one when it has no memory for the page
\* table of the copy.
FramesKept ==
  [][Accounted' = Accounted \/
       \E p, q \in Proc : CopyNoTable(p, q) /\ \E f \in free : Accounted' = Accounted \ {f}]_vars

\* One program at a time that stays within its memory, passes buffers on its stack
\* page only and asks sbrk for fewer than MAX_PHYS_PAGES pages at once cannot make
\* the kernel panic or write outside p->pages, up to the first exec that fails.
NoPanic == panic = ""

\* Nor can several such programs that fork, but in one place: copy_swap_file with
\* no memory for its buffer.
OnlyForkPanics == panic \in {"", "kfree"}

\* usertests: "test that fork fails gracefully", "we run out of memory first".
ForkFailsGracefully == panic # "kfree"

\* usertests: "does exec return an error if the arguments are larger than a page? or
\* does it write below the stack and wreck the instructions/data?"  A process goes
\* on after a failed exec, and the count of its resident pages is that of the
\* pages it has.
FailedExecRecovers ==
  \A p \in Proc : kern[p].pc = "failed" => pg[p].phys_pages = Cardinality(kern[p].old)

\* The comments of exec ("Make the first inaccessible") and clearpteu: user code
\* cannot access the page below the stack.
GuardInaccessible ==
  \A p \in Proc : User(p) => proc[p].stk - 1 \notin pg[p].PTE_U

\* trap: "In user space, assume process misbehaved".  A bad access by a program
\* kills the program, so handle_pgflt never panics on a page that is present.
BadAccessKills == panic # "page fault present"

\* argptr: "Check that the pointer lies within the process address space".  A
\* pointer that passes is one the kernel can use, in memory or not.
CheckedBuffersUsable == panic # "trap"

\* usertests: "if we run the system out of memory, does it clean up the last
\* failed allocation?"  After a failed sbrk the process can still be paged in.
FailedSbrkRecovers == panic # "pages[-1]"

\* handle_pgflt: "must free page before bringing one from disk".  A page is read
\* in only when the process has fewer than MAX_PHYS_PAGES resident pages.
RoomBeforeSwapIn ==
  \A p \in Proc : kern[p].pc = "swapin" => pg[p].phys_pages < MAX_PHYS_PAGES

\* A page fault, sbrk, fork or exec returns to user mode, unless the machine
\* stops: in particular the walk over the resident pages and the loops of
\* allocuvm, deallocuvm and copyuvm end, whatever the other process does.
KernelReturns ==
  \A p \in Proc : (kern[p].pc # "user") ~> (kern[p].pc \in {"user", "failed"} \/ panic # "")

\* A process inside the kernel keeps running: the scheduler is round robin and
\* the disk answers.
FairSpec == Spec /\ \A p \in Proc : WF_vars(KernelStep(p))

\* The memory a program sees: a page's content is in its frame or in the swap
\* file.  While deallocuvm runs for sbrk(-n), the pages above the new size are
\* already gone.
UserSize(p) ==
  IF kern[p].pc = "dealloc" /\ kern[p].lim = proc[p].sz
  THEN IF kern[p].ret = proc[p].sz THEN 0 ELSE kern[p].ret
  ELSE proc[p].sz
UserPage(p, v) ==
  IF v \in pg[p].PTE_P THEN mem[pg[p].PTE_ADDR[v]]
  ELSE readFromSwapFile(pg[p], pg[p].offset[find_page_ind(pg[p], v)])
UserRun ==
  [p \in Proc |-> IF proc[p].state # "RUNNING" \/ kern[p].pc = "halt" THEN "none"
                  ELSE IF kern[p].pc \in {"exec", "failed"} THEN "exec" ELSE "run"]
UserImage ==
  [p \in Proc |->
    [v \in IF UserRun[p] # "run" THEN {}
           ELSE {u \in pg[p].PTE_P \cup pg[p].PTE_PG : u < UserSize(p)} |-> UserPage(p, v)]]
UM == INSTANCE UserMemory WITH Page <- Vpn, run <- UserRun, img <- UserImage

\* The steps of Paging that programs see, and what they are to UserMemory.
UserVisible ==
  \/ UM!Hidden
  \/ \E p \in Proc :
       \/ \E v \in Vpn, d \in Data : (Store(p, v, d) \/ SysBuffer(p, v, d)) /\ UM!Write(p, v, d)
       \/ Grow(p) /\ UM!Extend(p, kern[p].lim)
       \/ \E n \in 1 .. NVPN : SbrkDown(p, n) /\ UM!Truncate(p, proc[p].sz - n)
       \/ \E q \in Proc : ForkDone(p, q) /\ UM!Fork(p, q)
       \/ \E n \in ExecSizes \cup SpawnSizes : (Exec(p, n) \/ Spawn(p, n)) /\ UM!Exec(p)
       \/ ExecDone(p) /\ UM!Load(p, kern[p].lim)
       \/ (Exit(p) \/ \E q \in Proc : ForkNoBuffer(p, q)) /\ UM!Exit(p)

\* Paging is invisible: it implements UserMemory, and a process's memory changes
\* only by its own stores, system calls and exit, never by swapping a page out
\* or in, by copying it at fork, or by what another process does.  The memory of
\* a process ends with an exec that fails, and with the panic of its fork.
MemoryPreserved == UM!Spec /\ [][UserVisible]_vars
=============================================================================
