----------------------------- MODULE PagingInv ------------------------------
(***************************************************************************)
(* The invariants of module Paging, and the words of the proofs about it.  *)
(* RecOK is what holds of one paging record, Inv of the whole system while *)
(* the loops of the kernel are half done, Owned of frames and swap files,  *)
(* DataInv of memory that programs do not see.                             *)
(***************************************************************************)
EXTENDS Paging

-----------------------------------------------------------------------------
(* A paging record.                                                        *)

\* Two records with the same pages[] and the same table of offsets.
SameMeta(q, pr) ==
  /\ q.taken = pr.taken /\ q.on_phys = pr.on_phys /\ q.pte = pr.pte
  /\ q.offset = pr.offset /\ q.offsets = pr.offsets
  /\ q.nextp = pr.nextp /\ q.prevp = pr.prevp /\ q.headp = pr.headp
  /\ q.phys_pages = pr.phys_pages /\ q.num_of_pages = pr.num_of_pages

\* The lists alone: R are the resident pages, n and p their links.
Linked(R, n, p) ==
  \A i \in R : n[i] \in R /\ p[n[i]] = i /\ p[i] \in R /\ n[p[i]] = i

\* No part of the list other than the whole is closed under next.
Circle(R, n) == \A S \in SUBSET R : S # {} /\ (\A i \in S : n[i] \in S) => S = R

\* m and q are the links n and p after page i is taken out of the list.
WithoutPage(R, i, n, p, m, q) ==
  \A j \in R \ {i} : /\ m[j] = IF j = p[i] THEN n[i] ELSE n[j]
                     /\ q[j] = IF j = n[i] THEN p[i] ELSE p[j]
\* m and q are the links n and p after page i is put in before page h.
WithPage(R, i, h, n, p, m, q) ==
  \A j \in R \cup {i} :
    /\ m[j] = IF j = p[h] THEN i ELSE IF j = i THEN h ELSE n[j]
    /\ q[j] = IF j = h THEN i ELSE IF j = i THEN p[h] ELSE p[j]

\* What the operations keep of a process's paging record.
CountOK(pr) ==
  pr.phys_pages = Cardinality(pr.on_phys) /\ pr.num_of_pages = Cardinality(pr.taken)

\* The invariant of one paging record.
RecOK(pr) == MetaOK(pr) /\ RingOK(pr) /\ OneCircle(pr) /\ OffsetsOK(pr) /\ CountOK(pr)

\* The pages that the page table mentions.
Mapped(pr) == pr.PTE_P \cup pr.PTE_PG

\* What the swap file's and the page table's functions do to the entry and the
\* offset of page v: it leaves memory, it comes back into frame f, it is added in
\* frame f, it is removed.
PageOut(q, pr, v) ==
  LET i == find_page_ind(pr, v)
      s == get_offset_ind(pr)
  IN /\ q.taken = pr.taken /\ q.pte = pr.pte
     /\ q.offset = [pr.offset EXCEPT ![i] = pr.offsets[s]]
     /\ q.offsets = [pr.offsets EXCEPT ![s] = TAKEN_OFFSET]
     /\ q.PTE_PG = pr.PTE_PG \cup {v}
     /\ q.PTE_P = pr.PTE_P \ {v} /\ q.PTE_ADDR = [pr.PTE_ADDR EXCEPT ![v] = NoFrame]
PageIn(q, pr, v, f) ==
  LET i == find_page_ind(pr, v)
  IN /\ q.taken = pr.taken /\ q.pte = pr.pte
     /\ q.offset = [pr.offset EXCEPT ![i] = -1]
     /\ q.offsets = [pr.offsets EXCEPT ![free_offset_ind(pr)] = pr.offset[i]]
     /\ q.PTE_PG = pr.PTE_PG \ {v}
     /\ q.PTE_P = pr.PTE_P \cup {v} /\ q.PTE_ADDR = [pr.PTE_ADDR EXCEPT ![v] = f]
PageAdded(q, pr, v, f) ==
  LET i == find_free_slot(pr)
  IN /\ i \in Slot \ pr.taken
     /\ q.taken = pr.taken \cup {i} /\ q.pte = [pr.pte EXCEPT ![i] = v]
     /\ q.offset = pr.offset /\ q.offsets = pr.offsets
     /\ q.PTE_PG = pr.PTE_PG
     /\ q.PTE_P = pr.PTE_P \cup {v} /\ q.PTE_ADDR = [pr.PTE_ADDR EXCEPT ![v] = f]
PageRemoved(q, pr, v) ==
  LET i == find_page_ind(pr, v)
  IN /\ q.taken = pr.taken \ {i} /\ q.pte = [pr.pte EXCEPT ![i] = -1]
     /\ q.offset = [pr.offset EXCEPT ![i] = -1]
     /\ q.offsets = IF pr.offset[i] = -1 THEN pr.offsets
                    ELSE [pr.offsets EXCEPT ![free_offset_ind(pr)] = pr.offset[i]]
     /\ q.PTE_PG = pr.PTE_PG \ {v}
     /\ q.PTE_P = pr.PTE_P \ {v} /\ q.PTE_ADDR = [pr.PTE_ADDR EXCEPT ![v] = NoFrame]

\* The table of offsets beyond the end of the file is still as initialised, and
\* every other offset, available or in use, lies inside the file; the file is at
\* most as long as file_size says.
SwapOK(pr) ==
  /\ pr.swap_len <= pr.file_size
  /\ \A s \in SwapSlot : IF s < pr.swap_len THEN pr.offsets[s] < pr.swap_len
                         ELSE pr.offsets[s] = s
  /\ \A i \in Slot : pr.offset[i] < pr.swap_len

\* The contents and the length of the swap file, and file_size.
SameFile(q, pr) ==
  q.file_size = pr.file_size /\ q.swap_len = pr.swap_len /\ q.swap = pr.swap

\* swap_to_file writes page v at the offset it takes, which is at most the length
\* of the file, so that writei does not refuse.
FileWritten(q, pr, d) ==
  LET off == pr.offsets[get_offset_ind(pr)]
  IN /\ off <= pr.swap_len
     /\ q.swap = [pr.swap EXCEPT ![off] = d]
     /\ q.swap_len = IF off = pr.swap_len THEN pr.swap_len + 1 ELSE pr.swap_len
     /\ q.file_size = size_after(pr.file_size, off)

-----------------------------------------------------------------------------
(* The inductive invariant.                                                *)

\* The image of the process, whose last page is the stack, fits into the resident
\* pages it may have.
Small(c) == c.stk < MAX_PHYS_PAGES

\* The process has no paging record: its exec failed, or it is inside panic.
Lost(k) == k.pc \in {"failed", "halt"}

\* What the kernel is doing for a process, seen past get_page_to_swap's walk.
Stage(k) == IF k.pc \in {"scan", "swapout"} THEN k.then ELSE k.pc

\* The pages below n.
Below(n) == {v \in Vpn : v < n}

\* Where the loops of the kernel stand, c being the process and k the kernel's
\* local variables.
LoopOK(c, pr, k) ==
  /\ k.pc \in {"scan", "swapout"} =>
       k.cur \in pr.on_phys /\ k.then # "user" /\ pr.phys_pages >= MAX_PHYS_PAGES
  /\ Stage(k) \in {"user", "swapin"} => Mapped(pr) = {} \/ Mapped(pr) = Below(c.sz)
  /\ Stage(k) = "swapin" => k.a \in pr.PTE_PG
  /\ Stage(k) \in {"grow", "alloc"} =>
       /\ Mapped(pr) = Below(k.a) /\ 0 < c.sz /\ c.sz <= k.a /\ k.a <= k.lim /\ k.ret = k.lim
  /\ Stage(k) = "alloc" => k.a < k.lim
  /\ Stage(k) = "dealloc" =>
       \E b \in {0, k.ret}, t \in 0 .. k.lim :
         /\ b <= k.a /\ k.a <= k.lim
         /\ Mapped(pr) = {v \in Vpn : v < b \/ (k.a <= v /\ v < t)}
  /\ Stage(k) = "exec" =>
       /\ k.lim \in SpawnSizes \cup ExecSizes /\ k.a <= k.lim
       /\ pr.taken = 0 .. k.a - 1 /\ pr.on_phys = pr.taken /\ Mapped(pr) = Below(k.a)
       /\ pr.phys_pages = k.a
  /\ Stage(k) = "copy" =>
       Mapped(pr) = Below(c.sz) /\ k.lim = c.sz /\ k.a <= k.lim /\ Text \in pr.PTE_P
  /\ k.pc # "exec" /\ Small(c) =>
       /\ pr.phys_pages <= MAX_PHYS_PAGES
       /\ k.pc \in {"swapin", "alloc"} => pr.phys_pages < MAX_PHYS_PAGES

\* Every present page has a frame.
AddrOK(pr) == \A v \in pr.PTE_P : pr.PTE_ADDR[v] \in Frame

\* The invariant of one process, its paging record and its kernel stack.
LocalOK(c, pr, k) ==
  /\ AddrOK(pr)
  /\ c.state # "RUNNING" => k.pc = "user" \/ (c.state = "ZOMBIE" /\ k.pc = "failed")
  /\ c.state = "RUNNING" /\ ~Lost(k) /\ ~(c.killed /\ k.pc = "user") =>
       RecOK(pr) /\ LoopOK(c, pr, k)

\* The child's page table while copyuvm runs: the first a pages of the parent's.
CopyOK(src, dst, a) ==
  \A v \in Vpn : /\ v \in dst.PTE_P <=> (v < a /\ v \in src.PTE_P)
                 /\ v \in dst.PTE_PG <=> (v < a /\ v \in src.PTE_PG)
                 /\ v \in dst.PTE_P <=> dst.PTE_ADDR[v] # NoFrame

\* Each process that runs copyuvm has a child slot of its own.
ForkOK ==
  /\ \A p \in Proc : kern[p].pc = "copy" =>
       /\ \A q \in kern[p].peer : proc[q].state = "EMBRYO" /\ CopyOK(pg[p], pg[q], kern[p].a)
       /\ \A q, r \in kern[p].peer : q = r
  /\ \A p, q \in Proc : kern[p].pc = "copy" /\ kern[q].pc = "copy" /\ p # q =>
       kern[p].peer \cap kern[q].peer = {}

\* The panics that would mean a broken page table, pages[] or swap file.
MetadataPanics == {"page on phys", "swap file", "add page", "remove page", "copyuvm",
                   "can't create pte"}

\* The inductive invariant.  TypeOK, PagesDescribed, ResidentList and
\* OffsetsPartitioned are not inductive without LoopOK, which says what each
\* half-done kernel loop has mapped so far, and CopyOK, which says the same of
\* the child that fork is building.
Inv ==
  /\ TypeOK
  /\ \A p \in Proc : LocalOK(proc[p], pg[p], kern[p])
  /\ ForkOK
  /\ panic \notin MetadataPanics

\* Records that differ in the accessed and user bits only.
SameButBits(q, pr) ==
  /\ q \in PageRec /\ SameMeta(q, pr)
  /\ q.PTE_P = pr.PTE_P /\ q.PTE_PG = pr.PTE_PG /\ q.PTE_ADDR = pr.PTE_ADDR

\* What copy_flags changes in the child's page table.
Copied(q, dst, src, v) ==
  /\ q \in PageRec
  /\ q.PTE_P = dst.PTE_P \cup ({v} \cap src.PTE_P)
  /\ q.PTE_PG = dst.PTE_PG \cup ({v} \cap src.PTE_PG)
  /\ q.PTE_ADDR = dst.PTE_ADDR

-----------------------------------------------------------------------------
(* The contents of pages.                                                  *)

\* The content of page v of a paging record, m being the memory.
Content(pr, m, v) ==
  IF v \in pr.PTE_P THEN m[pr.PTE_ADDR[v]]
  ELSE readFromSwapFile(pr, pr.offset[find_page_ind(pr, v)])

\* The frames of pages S have the same contents in memories m and n.
SameFrames(pr, m, n, S) == \A u \in S : n[pr.PTE_ADDR[u]] = m[pr.PTE_ADDR[u]]

\* Pages S have the same contents in record pr and memory m as in q and n.
SameContents(pr, m, q, n, S) == \A u \in S : Content(q, n, u) = Content(pr, m, u)

\* Page u stays in its frame, or at its offset of the file.
Stays(pr, m, q, n, u) ==
  /\ u \in q.PTE_P <=> u \in pr.PTE_P
  /\ u \in pr.PTE_P => q.PTE_ADDR[u] = pr.PTE_ADDR[u] /\ n[pr.PTE_ADDR[u]] = m[pr.PTE_ADDR[u]]
  /\ u \notin pr.PTE_P =>
       LET j == find_page_ind(pr, u)
       IN /\ find_page_ind(q, u) = j /\ q.offset[j] = pr.offset[j]
          /\ readFromSwapFile(q, pr.offset[j]) = readFromSwapFile(pr, pr.offset[j])

-----------------------------------------------------------------------------
(* Frames and swap files, and what a step may change.                      *)

\* No two pages of a page table share a frame.
OneEach(pr) ==
  \A v, w \in pr.PTE_P : pr.PTE_ADDR[v] = pr.PTE_ADDR[w] => v = w

\* FramesExclusive and SwapFileHoldsPages with what makes them inductive: only
\* exec has an image to replace, or to go back to, and an unused slot has an empty page table.
Owned ==
  /\ FramesExclusive
  /\ \A p \in Proc : kern[p].pc \notin {"exec", "failed"} => kern[p].old = {}
  /\ \A p \in Proc : proc[p].state = "UNUSED" => pg[p].PTE_P = {}
  /\ \A p \in Proc : Active(p) => SwapOK(pg[p])

\* A step that keeps Owned and gives up no frame; what a step may do to the frames.
OwnedKept == Owned' /\ Accounted' = Accounted
FramesStep ==
  Accounted' = Accounted \/
    \E p, q \in Proc : CopyNoTable(p, q) /\ \E f \in free : Accounted' = Accounted \ {f}

\* A step that leaves the slots other than p alone.
Local(p) ==
  \A r \in Proc \ {p} : proc'[r] = proc[r] /\ pg'[r] = pg[r] /\ kern'[r] = kern[r]

\* What the actions do, panics apart, in terms of the slots they change.
Frozen == UNCHANGED <<proc, pg, kern, mem, free>>

\* A step of p that leaves its pages, its swap file and the free list alone.
Quiet(p) ==
  /\ Active(p) /\ kern[p].pc \notin {"exec", "copy"} /\ Local(p) /\ free' = free
  /\ proc'[p].state = proc[p].state
  /\ SameButBits(pg'[p], pg[p]) /\ SameFile(pg'[p], pg[p])
  /\ kern'[p].old = kern[p].old /\ kern'[p].pc \notin {"exec", "copy", "failed", "halt"}

\* The kernel's local variables stay as they are.
SameKern(p) ==
  /\ kern'[p].a = kern[p].a /\ kern'[p].lim = kern[p].lim /\ kern'[p].ret = kern[p].ret
  /\ kern'[p].peer = kern[p].peer /\ kern'[p].old = kern[p].old

\* What deallocuvm does with the page that it looks at.
PageGone(p) ==
  LET v == kern[p].a
      f == pg[p].PTE_ADDR[v]
  IN /\ Local(p) /\ proc'[p] = proc[p]
     /\ v \in Mapped(pg[p]) /\ PageRemoved(pg'[p], pg[p], v) /\ SameFile(pg'[p], pg[p])
     /\ kfree(IF v \in pg[p].PTE_P THEN {f} ELSE {})

\* Page v of p goes to the swap file and its frame to the free list.
PageEvicted(p, v) ==
  /\ Local(p) /\ proc'[p] = proc[p] /\ get_offset_ind(pg[p]) # -1
  /\ PageOut(pg'[p], pg[p], v) /\ FileWritten(pg'[p], pg[p], mem[pg[p].PTE_ADDR[v]])
  /\ kfree({pg[p].PTE_ADDR[v]})

\* Page v of p is read into the free frame f.
PageRead(p, v, f) ==
  /\ Local(p) /\ proc'[p] = proc[p]
  /\ PageIn(pg'[p], pg[p], v, f) /\ SameFile(pg'[p], pg[p])
  /\ Alloc(f, UserPage(p, v))

\* A free frame f, filled with d, backs page v of slot p, and the page table of p
\* is otherwise as it was.
PageMapped(p, v, f, d) ==
  /\ Alloc(f, d) /\ v \in Vpn \ Mapped(pg[p])
  /\ pg'[p].PTE_P = pg[p].PTE_P \cup {v} /\ pg'[p].PTE_ADDR = [pg[p].PTE_ADDR EXCEPT ![v] = f]

\* The image of p becomes the empty one that exec starts from.
ImageStarts(p, size) ==
  /\ Local(p) /\ mem' = mem /\ free' = free
  /\ size \in 0 .. MAX_SWAP_FILE_SZ /\ pg'[p] = init_page_meta(size)
  /\ proc'[p].state = "RUNNING" /\ kern'[p].pc = "exec"

\* A step of fork by p, whose child has the slot q.
Forking(p, q) ==
  /\ p # q /\ Active(p) /\ kern[p].pc \in {"user", "copy"} /\ kern[q].pc = "user"
  /\ proc[q].state # "RUNNING"
  /\ \A r \in Proc \ {q} : proc'[r] = proc[r] /\ pg'[r] = pg[r]
  /\ \A r \in Proc \ {p} : kern'[r] = kern[r]
  /\ kern'[p].old = {} /\ kern'[p].pc \in {"user", "copy"}

\* What the child has when fork is done: the page table that copyuvm built, the
\* parent's pages[] and table of offsets, and a copy of the parent's file.
ChildRecord(q, dst, src) ==
  /\ q.PTE_P = dst.PTE_P /\ q.PTE_PG = dst.PTE_PG /\ q.PTE_ADDR = dst.PTE_ADDR
  /\ q.taken = src.taken /\ q.pte = src.pte /\ q.offset = src.offset /\ q.offsets = src.offsets
  /\ q.swap_len = src.file_size /\ q.file_size = src.file_size
  /\ q.swap = copy_swap_file(src)

-----------------------------------------------------------------------------
(* Memory that programs do not see.                                        *)

\* What makes the refinement inductive, for the slot p: the pages that a growing
\* process has beyond its size are zero; a shrinking one has none of the pages
\* that deallocuvm has passed; the image that exec loads is zero; the pages that
\* copyuvm has copied are the parent's.
DataOK(p) ==
  /\ Stage(kern[p]) \in {"grow", "alloc"} =>
       \A v \in Mapped(pg[p]) : v >= proc[p].sz => Content(pg[p], mem, v) = Zero
  /\ kern[p].pc = "dealloc" =>
       /\ kern[p].lim = proc[p].sz \/ kern[p].ret = proc[p].sz
       /\ UserSize(p) <= kern[p].a
       /\ \A v \in Mapped(pg[p]) : v < UserSize(p) \/ v >= kern[p].a
  /\ kern[p].pc = "exec" => \A v \in pg[p].PTE_P : mem[pg[p].PTE_ADDR[v]] = Zero
  /\ kern[p].pc = "copy" =>
       \A q \in kern[p].peer : \A v \in pg[q].PTE_P :
         mem[pg[q].PTE_ADDR[v]] = mem[pg[p].PTE_ADDR[v]]
DataInv == \A p \in Proc : DataOK(p)

\* The pages of a process's memory.
UserPages(p) ==
  IF UserRun[p] # "run" THEN {} ELSE {v \in Mapped(pg[p]) : v < UserSize(p)}

\* Memory changes only in free frames and in those of the slot x.
MemKept(x) == \A f \in Frame \ (free \cup Held(x)) : mem'[f] = mem[f]
=============================================================================
