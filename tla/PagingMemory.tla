---------------------------- MODULE PagingMemory ----------------------------
(***************************************************************************)
(* Every step keeps Owned, so FramesExclusive and SwapFileHoldsPages hold; *)
(* and paging is invisible to programs: Paging implements UserMemory, for  *)
(* every number of processes, pages and frames.                            *)
(***************************************************************************)
EXTENDS PagingVisible, PagingProofs

-----------------------------------------------------------------------------
\* A page table that maps one more page, in a frame of its own.
LEMMA FramesMore ==
  ASSUME NEW pr \in PageRec, NEW q, NEW v \in Vpn, NEW f, v \notin pr.PTE_P,
         f \notin Frames(pr), OneEach(pr),
         q.PTE_P = pr.PTE_P \cup {v}, q.PTE_ADDR = [pr.PTE_ADDR EXCEPT ![v] = f]
  PROVE  Frames(q) = Frames(pr) \cup {f} /\ OneEach(q)
<1>1. pr.PTE_P \subseteq Vpn /\ pr.PTE_ADDR \in [Vpn -> Frame \cup {NoFrame}]
  BY DEF PageRec
<1>2. q.PTE_ADDR[v] = f /\ \A u \in pr.PTE_P : q.PTE_ADDR[u] = pr.PTE_ADDR[u]
  BY <1>1
<1>3. \A u \in pr.PTE_P : pr.PTE_ADDR[u] # f
  BY DEF Frames
<1> QED BY <1>2, <1>3 DEF Frames, OneEach

\* A page table that no longer maps page v.
LEMMA FramesLess ==
  ASSUME NEW pr \in PageRec, NEW q, NEW v \in Vpn, OneEach(pr),
         q.PTE_P = pr.PTE_P \ {v}, q.PTE_ADDR = [pr.PTE_ADDR EXCEPT ![v] = NoFrame]
  PROVE  /\ v \in pr.PTE_P => Frames(q) = Frames(pr) \ {pr.PTE_ADDR[v]}
         /\ v \notin pr.PTE_P => Frames(q) = Frames(pr)
         /\ OneEach(q)
<1>1. pr.PTE_P \subseteq Vpn /\ pr.PTE_ADDR \in [Vpn -> Frame \cup {NoFrame}]
  BY DEF PageRec
<1>2. \A u \in q.PTE_P : q.PTE_ADDR[u] = pr.PTE_ADDR[u] /\ u \in pr.PTE_P
  BY <1>1
<1> QED BY <1>2 DEF Frames, OneEach

\* The slot x exchanges frames with the free list, and nobody else takes part.
LEMMA Exchange ==
  ASSUME FramesExclusive, NEW x \in Proc,
         \A r \in Proc \ {x} : pg'[r] = pg[r] /\ kern'[r].old = kern[r].old,
         OneEach(pg'[x]), Frames(pg'[x]) \cap kern'[x].old = {},
         free' \cap (Frames(pg'[x]) \cup kern'[x].old) = {},
         free' \cup Frames(pg'[x]) \cup kern'[x].old \subseteq free \cup Held(x)
  PROVE  FramesExclusive'
<1> DEFINE H == [r \in Proc |-> Held(r)]
           H2 == [r \in Proc |-> Frames(pg'[r]) \cup kern'[r].old]
<1>1. /\ \A r \in Proc : H[r] \cap free = {}
      /\ \A r, s \in Proc : r # s => H[r] \cap H[s] = {}
  BY DEF FramesExclusive, Held
<1>2. /\ \A r \in Proc \ {x} : H2[r] = H[r]
      /\ free' \cap H2[x] = {} /\ free' \cup H2[x] \subseteq free \cup H[x]
  BY DEF Held
<1>3. \A r \in Proc : OneEach(pg[r]) /\ Frames(pg[r]) \cap kern[r].old = {}
  BY DEF FramesExclusive, OneEach
<1>4. \A r \in Proc : OneEach(pg'[r]) /\ Frames(pg'[r]) \cap kern'[r].old = {}
  BY <1>3
<1> HIDE DEF H, H2
<1>5. /\ \A r \in Proc : H2[r] \cap free' = {}
      /\ \A r, s \in Proc : r # s => H2[r] \cap H2[s] = {}
  BY <1>1, <1>2
<1>6. \A r \in Proc :
        /\ (Frames(pg'[r]) \cup kern'[r].old) \cap free' = {}
        /\ \A s \in Proc \ {r} : (Frames(pg'[r]) \cup kern'[r].old) \cap (Frames(pg'[s]) \cup kern'[s].old) = {}
  BY <1>5 DEF H2
<1> QED BY <1>4, <1>6, Zenon DEF FramesExclusive, OneEach, Frames, Held

\* If the exchange is fair, the frames that the kernel can find are the same.
LEMMA ExchangeCounts ==
  ASSUME NEW x \in Proc,
         \A r \in Proc \ {x} : pg'[r] = pg[r] /\ kern'[r].old = kern[r].old,
         free' \cup Frames(pg'[x]) \cup kern'[x].old = free \cup Held(x)
  PROVE  Accounted' = Accounted
<1> DEFINE H == [r \in Proc |-> Held(r)]
           H2 == [r \in Proc |-> Frames(pg'[r]) \cup kern'[r].old]
<1>1. /\ \A r \in Proc \ {x} : H2[r] = H[r]
      /\ free' \cup H2[x] = free \cup H[x]
  BY DEF Held
<1>2. /\ Accounted = free \cup UNION {H[r] : r \in Proc}
      /\ Accounted' = free' \cup UNION {H2[r] : r \in Proc}
  BY DEF Accounted, Held
<1> HIDE DEF H, H2
<1>3. free' \cup UNION {H2[r] : r \in Proc} = free \cup UNION {H[r] : r \in Proc}
  BY <1>1
<1> QED BY <1>2, <1>3

\* What Owned asks of such a step.
LEMMA OwnedLocal ==
  ASSUME Owned, NEW p \in Proc, Local(p),
         kern'[p].pc \notin {"exec", "failed"} => kern'[p].old = {},
         proc'[p].state = "UNUSED" => pg'[p].PTE_P = {},
         Active(p)' => SwapOK(pg'[p]),
         OneEach(pg'[p]), Frames(pg'[p]) \cap kern'[p].old = {},
         free' \cap (Frames(pg'[p]) \cup kern'[p].old) = {},
         free' \cup Frames(pg'[p]) \cup kern'[p].old = free \cup Held(p)
  PROVE  OwnedKept
<1>0. \A r \in Proc \ {p} : pg'[r] = pg[r] /\ kern'[r].old = kern[r].old
  BY DEF Local
<1>1. FramesExclusive'
  <2>1. FramesExclusive /\ free' \cup Frames(pg'[p]) \cup kern'[p].old \subseteq free \cup Held(p)
    BY DEF Owned
  <2> QED BY <1>0, <2>1, Exchange, Zenon
<1>2. /\ \A r \in Proc : kern'[r].pc \notin {"exec", "failed"} => kern'[r].old = {}
      /\ \A r \in Proc : proc'[r].state = "UNUSED" => pg'[r].PTE_P = {}
  BY DEF Owned, Local
<1>3. \A r \in Proc : (Active(r) => SwapOK(pg[r]))'
  BY DEF Owned, Active, Local
<1>4. Accounted' = Accounted
  BY <1>0, ExchangeCounts, Zenon
<1> QED BY <1>1, <1>2, <1>3, <1>4, Zenon DEF Owned, OwnedKept

\* A step that leaves the frames of the slot and the free list alone.
LEMMA OwnedQuiet ==
  ASSUME Inv, Owned, NEW p \in Proc, Local(p), free' = free,
         kern'[p].old = kern[p].old, kern[p].pc \notin {"exec", "failed"},
         pg'[p].PTE_P = pg[p].PTE_P, pg'[p].PTE_ADDR = pg[p].PTE_ADDR,
         proc'[p].state = "UNUSED" => proc[p].state = "UNUSED",
         Active(p)' => SwapOK(pg'[p])
  PROVE  OwnedKept
<1>1. /\ OneEach(pg[p]) /\ Held(p) \cap free = {} /\ kern[p].old = {}
      /\ proc[p].state = "UNUSED" => pg[p].PTE_P = {}
  BY OwnedHere
<1>2. Frames(pg'[p]) = Frames(pg[p]) /\ OneEach(pg'[p])
  BY <1>1 DEF Frames, OneEach
<1>3. /\ kern'[p].pc \notin {"exec", "failed"} => kern'[p].old = {}
      /\ proc'[p].state = "UNUSED" => pg'[p].PTE_P = {}
  BY <1>1
<1>4. /\ Frames(pg'[p]) \cap kern'[p].old = {}
      /\ free' \cap (Frames(pg'[p]) \cup kern'[p].old) = {}
      /\ free' \cup Frames(pg'[p]) \cup kern'[p].old = free \cup Held(p)
  BY <1>1, <1>2 DEF Held
<1> QED BY <1>2, <1>3, <1>4, OwnedLocal, Zenon

\* A step of fork: the child's slot q and the parent's local variables change.
LEMMA OwnedFork ==
  ASSUME Owned, NEW p \in Proc, NEW q \in Proc, Forking(p, q),
         proc'[q].state = "UNUSED" => pg'[q].PTE_P = {},
         proc'[q].state = "RUNNING" => SwapOK(pg'[q]),
         OneEach(pg'[q]), free' \cap Frames(pg'[q]) = {},
         free' \cup Frames(pg'[q]) \subseteq free \cup Frames(pg[q])
  PROVE  /\ Owned' /\ Held(q) = Frames(pg[q]) /\ kern'[q].old = {}
         /\ \A r \in Proc \ {q} : pg'[r] = pg[r] /\ kern'[r].old = kern[r].old
<1>1. /\ p # q /\ Active(p) /\ kern[p].pc \in {"user", "copy"} /\ kern[q].pc = "user"
      /\ \A r \in Proc \ {q} : proc'[r] = proc[r] /\ pg'[r] = pg[r]
      /\ \A r \in Proc \ {p} : kern'[r] = kern[r]
      /\ kern'[p].old = {}
  BY DEF Forking
<1>2. kern[p].old = {} /\ kern[q].old = {} /\ kern'[q].old = {}
  BY <1>1 DEF Owned
<1>3. Held(q) = Frames(pg[q])
  BY <1>2 DEF Held
<1>4. ASSUME NEW r \in Proc \ {q} PROVE pg'[r] = pg[r] /\ kern'[r].old = kern[r].old
  BY <1>1, <1>2, Zenon
<1>5. FramesExclusive'
  <2>1. FramesExclusive
    BY DEF Owned
  <2>2. /\ Frames(pg'[q]) \cap kern'[q].old = {}
        /\ free' \cap (Frames(pg'[q]) \cup kern'[q].old) = {}
        /\ free' \cup Frames(pg'[q]) \cup kern'[q].old \subseteq free \cup Held(q)
    BY <1>2, <1>3
  <2> QED BY <1>4, <2>1, <2>2, Exchange
<1>6. /\ \A r \in Proc : kern'[r].pc \notin {"exec", "failed"} => kern'[r].old = {}
      /\ \A r \in Proc : proc'[r].state = "UNUSED" => pg'[r].PTE_P = {}
  BY <1>1 DEF Owned
<1>7. \A r \in Proc : (Active(r) => SwapOK(pg[r]))'
  <2>1. SwapOK(pg[p])
    BY <1>1 DEF Owned
  <2> QED BY <1>1, <2>1 DEF Owned, Active
<1>8. Owned'
  BY <1>5, <1>6, <1>7, Zenon DEF Owned
<1> QED BY <1>2, <1>3, <1>4, <1>8

\* A record fresh from init_page_meta has no frames and an empty swap file.
LEMMA FreshRecord ==
  ASSUME NEW size \in 0 .. MAX_SWAP_FILE_SZ
  PROVE  LET q == init_page_meta(size)
         IN q.PTE_P = {} /\ q.PTE_PG = {} /\ Frames(q) = {} /\ OneEach(q) /\ SwapOK(q)
<1> DEFINE q == init_page_meta(size)
<1>1. /\ q.PTE_P = {} /\ q.PTE_PG = {} /\ q.swap_len = 0 /\ q.file_size = size
      /\ q.offsets = [i \in SwapSlot |-> i] /\ q.offset = [i \in Slot |-> -1]
  BY DEF init_page_meta
<1> HIDE DEF q
<1>2. Frames(q) = {} /\ OneEach(q)
  BY <1>1 DEF Frames, OneEach
<1>3. SwapOK(q)
  BY <1>1, Sizes DEF SwapOK
<1> QED BY <1>1, <1>2, <1>3, Zenon DEF q

-----------------------------------------------------------------------------
\* A panic changes nothing that Owned is about.
LEMMA FrozenOwned == Owned /\ Frozen => OwnedKept
<1> SUFFICES ASSUME Owned, Frozen PROVE OwnedKept
  OBVIOUS
<1>1. proc' = proc /\ pg' = pg /\ kern' = kern /\ free' = free
  BY DEF Frozen
<1>2. FramesExclusive'
  <2>1. FramesExclusive
    BY DEF Owned
  <2> QED BY <1>1, <2>1, Zenon DEF FramesExclusive, Held
<1>3. \A r \in Proc : (Active(r) => SwapOK(pg[r]))'
  BY <1>1 DEF Owned, Active
<1>4. Accounted' = Accounted
  BY <1>1, Zenon DEF Accounted, Held
<1> QED BY <1>1, <1>2, <1>3, <1>4 DEF Owned, OwnedKept

\* A quiet step keeps Owned.
LEMMA QuietOwned ==
  ASSUME Inv, Owned, NEW p \in Proc, Quiet(p)
  PROVE  OwnedKept
<1>1. /\ SameButBits(pg'[p], pg[p]) /\ SameFile(pg'[p], pg[p]) /\ Local(p) /\ free' = free
      /\ Active(p) /\ kern[p].pc # "exec" /\ kern'[p].old = kern[p].old
      /\ proc'[p].state = proc[p].state /\ kern[p].pc \notin {"exec", "failed"}
  BY DEF Quiet, Active
<1>2. SwapOK(pg[p])
  BY <1>1, OwnedHere
<1>3. /\ pg'[p].offset = pg[p].offset /\ pg'[p].offsets = pg[p].offsets
      /\ pg'[p].PTE_P = pg[p].PTE_P /\ pg'[p].PTE_ADDR = pg[p].PTE_ADDR
  BY <1>1, Zenon DEF SameButBits, SameMeta
<1>4. SwapOK(pg'[p])
  BY <1>1, <1>2, <1>3, SwapOKSame, Zenon
<1> QED BY <1>1, <1>3, <1>4, OwnedQuiet, Zenon

\* The eviction of a page gives one frame back.
LEMMA EvictionOwned ==
  ASSUME Inv, Owned, NEW p \in Proc, SwapOut(p)
  PROVE  OwnedKept
<1>1. /\ Active(p) /\ kern[p].pc = "swapout" /\ kern'[p].pc = kern[p].then
      /\ kern[p].then \in {"swapin", "alloc"} /\ SameKern(p)
  BY SwapOutEffect
<1>2. PICK v \in pg[p].PTE_P : PageEvicted(p, v)
  BY SwapOutEffect
<1> DEFINE f == pg[p].PTE_ADDR[v]
<1>3. /\ Local(p) /\ proc'[p] = proc[p] /\ PageOut(pg'[p], pg[p], v) /\ get_offset_ind(pg[p]) # -1
      /\ FileWritten(pg'[p], pg[p], mem[f]) /\ free' = free \cup {f}
  BY <1>2, Zenon DEF PageEvicted, kfree
<1>4. /\ OneEach(pg[p]) /\ Held(p) \cap free = {} /\ Held(p) \subseteq Frame
      /\ kern[p].old = {} /\ SwapOK(pg[p])
  BY <1>1, OwnedHere, Zenon
<1>5. pg[p] \in PageRec /\ RecOK(pg[p]) /\ v \in Vpn
  <2>1. pg[p] \in PageRec
    BY Same
  <2>2. RecOK(pg[p])
    BY <1>1, Zenon DEF Inv, LocalOK, Active, Lost
  <2> QED BY <2>1, <2>2, Zenon DEF PageRec
<1>6. SwapOK(pg'[p])
  BY <1>3, <1>4, <1>5, SwapOKOut
<1>7. pg'[p].PTE_P = pg[p].PTE_P \ {v} /\ pg'[p].PTE_ADDR = [pg[p].PTE_ADDR EXCEPT ![v] = NoFrame]
  BY <1>3, Zenon DEF PageOut
<1>8. Frames(pg'[p]) = Frames(pg[p]) \ {f} /\ OneEach(pg'[p])
  BY <1>4, <1>5, <1>7, FramesLess
<1>9. f \in Frames(pg[p])
  BY DEF Frames
<1> HIDE DEF f
<1>10. kern'[p].old = {} /\ proc'[p].state # "UNUSED"
  BY <1>1, <1>3, <1>4, Zenon DEF SameKern, Active
<1>11. /\ Frames(pg'[p]) \cap kern'[p].old = {}
       /\ free' \cap (Frames(pg'[p]) \cup kern'[p].old) = {}
       /\ free' \cup Frames(pg'[p]) \cup kern'[p].old = free \cup Held(p)
  BY <1>3, <1>4, <1>8, <1>9, <1>10 DEF Held
<1> QED BY <1>3, <1>6, <1>8, <1>10, <1>11, OwnedLocal, Zenon

\* A page table entry for a free frame takes that frame.
LEMMA TakesFrame ==
  ASSUME Inv, Owned, NEW q \in Proc, NEW f \in free, NEW d, NEW v \in Vpn,
         Alloc(f, d), v \notin pg[q].PTE_P,
         pg'[q].PTE_P = pg[q].PTE_P \cup {v}, pg'[q].PTE_ADDR = [pg[q].PTE_ADDR EXCEPT ![v] = f],
         kern'[q].old = kern[q].old
  PROVE  /\ OneEach(pg'[q]) /\ Frames(pg'[q]) \cap kern'[q].old = {}
         /\ free' \cap (Frames(pg'[q]) \cup kern'[q].old) = {}
         /\ free' \cup Frames(pg'[q]) \cup kern'[q].old = free \cup Held(q)
<1>1. /\ OneEach(pg[q]) /\ Held(q) \cap free = {} /\ Frames(pg[q]) \cap kern[q].old = {}
      /\ pg[q] \in PageRec
  BY OwnedHere, Same
<1>2. f \notin Frames(pg[q]) /\ f \notin kern[q].old
  BY <1>1 DEF Held
<1>3. Frames(pg'[q]) = Frames(pg[q]) \cup {f} /\ OneEach(pg'[q])
  BY <1>1, <1>2, FramesMore, Zenon
<1>4. free' = free \ {f}
  BY DEF Alloc
<1> QED BY <1>1, <1>2, <1>3, <1>4 DEF Held

\* Reading a page in takes one frame.
LEMMA SwapInOwned ==
  ASSUME Inv, Owned, NEW p \in Proc, SwapIn(p)
  PROVE  OwnedKept
<1>1. /\ Active(p) /\ kern[p].pc = "swapin" /\ kern[p].a \in pg[p].PTE_PG
      /\ Frozen \/ (kern'[p] = Idle /\ \E f \in free : PageRead(p, kern[p].a, f))
  BY SwapInEffect
<1>2. CASE Frozen
  BY <1>2, FrozenOwned
<1>3. CASE kern'[p] = Idle /\ \E f \in free : PageRead(p, kern[p].a, f)
  <2> DEFINE v == kern[p].a
  <2>1. PICK f \in free : PageRead(p, v, f)
    BY <1>3
  <2>2. /\ Local(p) /\ proc'[p] = proc[p] /\ PageIn(pg'[p], pg[p], v, f)
        /\ SameFile(pg'[p], pg[p]) /\ Alloc(f, UserPage(p, v))
    BY <2>1 DEF PageRead
  <2>3. pg[p] \in PageRec /\ RecOK(pg[p]) /\ SwapOK(pg[p]) /\ kern[p].old = {}
    <3>1. pg[p] \in PageRec
      BY Same
    <3>2. RecOK(pg[p])
      BY <1>1, Zenon DEF Inv, LocalOK, Active, Lost
    <3> QED BY <1>1, <3>1, <3>2, OwnedHere
  <2>4. SwapOK(pg'[p])
    BY <1>1, <2>2, <2>3, SwapOKIn, Zenon
  <2>5. v \in Vpn /\ v \notin pg[p].PTE_P
    <3>1. v \in Vpn
      BY <1>1, <2>3, Zenon DEF PageRec
    <3>2. pg[p].PTE_P \cap pg[p].PTE_PG = {}
      BY <2>3 DEF RecOK, MetaOK, Resident, Swapped
    <3> QED BY <1>1, <3>1, <3>2, Zenon
  <2>6. pg'[p].PTE_P = pg[p].PTE_P \cup {v} /\ pg'[p].PTE_ADDR = [pg[p].PTE_ADDR EXCEPT ![v] = f]
    BY <2>2, Zenon DEF PageIn
  <2>7. kern'[p].old = {} /\ kern'[p].old = kern[p].old /\ kern'[p].pc = "user"
    BY <1>3, <2>3, IdleFields
  <2> HIDE DEF v
  <2>8. /\ OneEach(pg'[p]) /\ Frames(pg'[p]) \cap kern'[p].old = {}
        /\ free' \cap (Frames(pg'[p]) \cup kern'[p].old) = {}
        /\ free' \cup Frames(pg'[p]) \cup kern'[p].old = free \cup Held(p)
    BY <2>2, <2>5, <2>6, <2>7, TakesFrame, Zenon
  <2>9. proc'[p].state # "UNUSED"
    BY <1>1, <2>2 DEF Active
  <2> QED BY <2>2, <2>4, <2>7, <2>8, <2>9, OwnedLocal, Zenon
<1> QED BY <1>1, <1>2, <1>3

\* Allocuvm's loop takes one frame.
LEMMA AllocPageOwned ==
  ASSUME Inv, Owned, NEW p \in Proc, AllocPage(p)
  PROVE  OwnedKept
<1> DEFINE v == kern[p].a
<1>1. /\ Active(p) /\ kern[p].pc = "alloc" /\ kern[p].old = {} /\ kern'[p].old = {}
      /\ proc'[p].state = proc[p].state /\ Local(p) /\ SameFile(pg'[p], pg[p])
  BY AllocPageEffect
<1>2. PICK f \in free :
        /\ PageMapped(p, v, f, Zero)
        /\ \/ kern'[p].pc = "grow" /\ PageAdded(pg'[p], pg[p], v, f)
           \/ kern'[p].pc = "user" /\ proc'[p].killed
  BY AllocPageEffect
<1>3. /\ v \in Vpn /\ v \notin pg[p].PTE_P /\ Alloc(f, Zero)
      /\ pg'[p].PTE_P = pg[p].PTE_P \cup {v} /\ pg'[p].PTE_ADDR = [pg[p].PTE_ADDR EXCEPT ![v] = f]
  BY <1>2, Zenon DEF PageMapped, Mapped
<1>4. Active(p)' => SwapOK(pg'[p])
  <2>1. CASE kern'[p].pc = "grow" /\ PageAdded(pg'[p], pg[p], v, f)
    <3>1. pg'[p].offset = pg[p].offset /\ pg'[p].offsets = pg[p].offsets
      BY <2>1, Zenon DEF PageAdded
    <3>2. SwapOK(pg[p])
      BY <1>1, OwnedHere
    <3> QED BY <1>1, <3>1, <3>2, SwapOKSame, Zenon
  <2>2. CASE kern'[p].pc = "user" /\ proc'[p].killed
    BY <2>2, Zenon DEF Active
  <2> QED BY <1>2, <2>1, <2>2, Zenon
<1> HIDE DEF v
<1>5. kern'[p].old = kern[p].old /\ proc'[p].state # "UNUSED"
  BY <1>1 DEF Active
<1>6. /\ OneEach(pg'[p]) /\ Frames(pg'[p]) \cap kern'[p].old = {}
      /\ free' \cap (Frames(pg'[p]) \cup kern'[p].old) = {}
      /\ free' \cup Frames(pg'[p]) \cup kern'[p].old = free \cup Held(p)
  BY <1>3, <1>5, TakesFrame, Zenon
<1> QED BY <1>1, <1>4, <1>5, <1>6, OwnedLocal, Zenon

\* So does exec's.
LEMMA ExecPageOwned ==
  ASSUME Inv, Owned, NEW p \in Proc, ExecPage(p)
  PROVE  OwnedKept
<1> DEFINE v == kern[p].a
<1>1. /\ Active(p) /\ kern'[p].pc = "exec" /\ kern'[p].old = kern[p].old
      /\ proc'[p] = proc[p] /\ Local(p) /\ SameFile(pg'[p], pg[p])
  BY ExecPageEffect, Zenon
<1>2. PICK f \in free : PageMapped(p, v, f, Zero) /\ PageAdded(pg'[p], pg[p], v, f)
  BY ExecPageEffect
<1>3. /\ v \in Vpn /\ v \notin pg[p].PTE_P /\ Alloc(f, Zero)
      /\ pg'[p].PTE_P = pg[p].PTE_P \cup {v} /\ pg'[p].PTE_ADDR = [pg[p].PTE_ADDR EXCEPT ![v] = f]
  BY <1>2, Zenon DEF PageMapped, Mapped
<1>4. SwapOK(pg'[p])
  <2>1. pg'[p].offset = pg[p].offset /\ pg'[p].offsets = pg[p].offsets
    BY <1>2, Zenon DEF PageAdded
  <2>2. SwapOK(pg[p])
    BY <1>1, OwnedHere
  <2> QED BY <1>1, <2>1, <2>2, SwapOKSame, Zenon
<1> HIDE DEF v
<1>5. proc'[p].state # "UNUSED"
  BY <1>1 DEF Active
<1>6. /\ OneEach(pg'[p]) /\ Frames(pg'[p]) \cap kern'[p].old = {}
      /\ free' \cap (Frames(pg'[p]) \cup kern'[p].old) = {}
      /\ free' \cup Frames(pg'[p]) \cup kern'[p].old = free \cup Held(p)
  BY <1>1, <1>3, TakesFrame, Zenon
<1> QED BY <1>1, <1>4, <1>5, <1>6, OwnedLocal, Zenon

\* Deallocuvm's loop gives a frame back when it removes a resident page.
LEMMA DeallocOwned ==
  ASSUME Inv, Owned, NEW p \in Proc, Dealloc(p)
  PROVE  OwnedKept
<1>1. /\ Active(p) /\ kern[p].pc = "dealloc"
      /\ Quiet(p) \/ (kern'[p].pc = "dealloc" /\ kern'[p].old = {} /\ PageGone(p))
  BY DeallocEffect
<1>2. CASE Quiet(p)
  BY <1>2, QuietOwned
<1>3. CASE kern'[p].pc = "dealloc" /\ kern'[p].old = {} /\ PageGone(p)
  <2> DEFINE v == kern[p].a
             f == pg[p].PTE_ADDR[v]
  <2>1. /\ Local(p) /\ proc'[p] = proc[p] /\ v \in Mapped(pg[p])
        /\ PageRemoved(pg'[p], pg[p], v) /\ SameFile(pg'[p], pg[p])
        /\ free' = free \cup (IF v \in pg[p].PTE_P THEN {f} ELSE {})
    BY <1>3, Zenon DEF PageGone, kfree
  <2>2. pg[p] \in PageRec /\ RecOK(pg[p]) /\ v \in Vpn
    <3>1. pg[p] \in PageRec
      BY Same, Zenon
    <3>2. RecOK(pg[p])
      BY <1>1, Zenon DEF Inv, LocalOK, Active, Lost
    <3> QED BY <2>1, <3>1, <3>2, Zenon DEF PageRec, Mapped
  <2>3. OneEach(pg[p]) /\ Held(p) \cap free = {} /\ kern[p].old = {} /\ SwapOK(pg[p])
    BY <1>1, OwnedHere, Zenon
  <2>4. SwapOK(pg'[p])
    BY <2>1, <2>2, <2>3, SwapOKRemoved
  <2>5. pg'[p].PTE_P = pg[p].PTE_P \ {v} /\ pg'[p].PTE_ADDR = [pg[p].PTE_ADDR EXCEPT ![v] = NoFrame]
    BY <2>1, Zenon DEF PageRemoved
  <2>6. /\ v \in pg[p].PTE_P => Frames(pg'[p]) = Frames(pg[p]) \ {f}
        /\ v \notin pg[p].PTE_P => Frames(pg'[p]) = Frames(pg[p])
        /\ OneEach(pg'[p])
    BY <2>2, <2>3, <2>5, FramesLess
  <2>7. v \in pg[p].PTE_P => f \in Frames(pg[p])
    BY Zenon DEF Frames
  <2> HIDE DEF f, v
  <2>8. /\ Frames(pg'[p]) \cap kern'[p].old = {}
        /\ free' \cap (Frames(pg'[p]) \cup kern'[p].old) = {}
        /\ free' \cup Frames(pg'[p]) \cup kern'[p].old = free \cup Held(p)
    BY <1>3, <2>1, <2>3, <2>6, <2>7 DEF Held
  <2>9. proc'[p].state # "UNUSED"
    BY <1>1, <2>1 DEF Active
  <2> QED BY <1>3, <2>1, <2>4, <2>6, <2>8, <2>9, OwnedLocal, Zenon
<1> QED BY <1>1, <1>2, <1>3, Zenon

\* The start of exec gives no frame away.
LEMMA ImageStartsOwned ==
  ASSUME Inv, Owned, NEW p \in Proc, NEW n, Exec(p, n) \/ Spawn(p, n)
  PROVE  OwnedKept
<1>1. /\ kern[p].old = {}
      /\ \E size \in 0 .. MAX_SWAP_FILE_SZ : ImageStarts(p, size)
      /\ kern'[p].old = Frames(pg[p])
  <2>1. CASE Exec(p, n)
    BY <2>1, ExecEffect, Zenon DEF ImageStarts
  <2>2. CASE Spawn(p, n)
    <3>1. proc[p].state = "UNUSED" /\ kern[p].old = {} /\ ImageStarts(p, 0) /\ kern'[p].old = {}
      BY <2>2, SpawnEffect, Zenon
    <3>2. pg[p].PTE_P = {}
      BY <3>1, OwnedHere
    <3> QED BY <3>1, <3>2 DEF Frames, ImageStarts
  <2> QED BY <2>1, <2>2
<1>2. PICK size \in 0 .. MAX_SWAP_FILE_SZ : ImageStarts(p, size)
  BY <1>1
<1>3. /\ Local(p) /\ free' = free /\ pg'[p] = init_page_meta(size)
      /\ proc'[p].state = "RUNNING" /\ kern'[p].pc = "exec"
  BY <1>2, Zenon DEF ImageStarts
<1>4. Frames(pg'[p]) = {} /\ OneEach(pg'[p]) /\ SwapOK(pg'[p])
  BY <1>3, FreshRecord, Zenon
<1>5. Held(p) \cap free = {} /\ Held(p) = Frames(pg[p])
  BY <1>1, OwnedHere, Zenon DEF Held
<1>6. /\ Frames(pg'[p]) \cap kern'[p].old = {}
      /\ free' \cap (Frames(pg'[p]) \cup kern'[p].old) = {}
      /\ free' \cup Frames(pg'[p]) \cup kern'[p].old = free \cup Held(p)
  BY <1>1, <1>3, <1>4, <1>5
<1>7. proc'[p].state # "UNUSED"
  BY <1>3
<1> QED BY <1>3, <1>4, <1>6, <1>7, OwnedLocal, Zenon

\* The end of exec gives the old image back.
LEMMA ExecDoneOwned ==
  ASSUME Inv, Owned, NEW p \in Proc, ExecDone(p)
  PROVE  OwnedKept
<1>1. /\ Active(p) /\ kern'[p] = Idle /\ proc'[p].state = proc[p].state
      /\ Local(p) /\ SameButBits(pg'[p], pg[p]) /\ SameFile(pg'[p], pg[p])
      /\ free' = free \cup kern[p].old
  BY ExecDoneEffect, Zenon DEF kfree
<1>2. /\ OneEach(pg[p]) /\ Held(p) \cap free = {} /\ Frames(pg[p]) \cap kern[p].old = {}
      /\ SwapOK(pg[p])
  BY <1>1, OwnedHere
<1>3. /\ pg'[p].offset = pg[p].offset /\ pg'[p].offsets = pg[p].offsets
      /\ pg'[p].PTE_P = pg[p].PTE_P /\ pg'[p].PTE_ADDR = pg[p].PTE_ADDR
  BY <1>1, Zenon DEF SameButBits, SameMeta
<1>4. SwapOK(pg'[p])
  BY <1>1, <1>2, <1>3, SwapOKSame, Zenon
<1>5. Frames(pg'[p]) = Frames(pg[p]) /\ OneEach(pg'[p])
  BY <1>2, <1>3, Zenon DEF Frames, OneEach
<1>6. kern'[p].old = {} /\ proc'[p].state # "UNUSED"
  BY <1>1, IdleFields, Zenon DEF Active
<1>7. /\ Frames(pg'[p]) \cap kern'[p].old = {}
      /\ free' \cap (Frames(pg'[p]) \cup kern'[p].old) = {}
      /\ free' \cup Frames(pg'[p]) \cup kern'[p].old = free \cup Held(p)
  BY <1>1, <1>2, <1>5, <1>6 DEF Held
<1> QED BY <1>1, <1>4, <1>5, <1>6, <1>7, OwnedLocal, Zenon

\* An exec that fails gives the new image back.
LEMMA ExecFailsOwned ==
  ASSUME Inv, Owned, NEW p \in Proc, ExecFails(p)
  PROVE  OwnedKept
<1>1. /\ Active(p) /\ kern'[p].pc = "failed" /\ kern'[p].old = kern[p].old
      /\ proc'[p] = proc[p] /\ Local(p) /\ pg'[p].PTE_P = {}
      /\ free' = free \cup Frames(pg[p])
  BY ExecFailsEffect, Zenon DEF kfree
<1>2. Held(p) \cap free = {} /\ Frames(pg[p]) \cap kern[p].old = {}
  BY OwnedHere, Zenon
<1>3. Frames(pg'[p]) = {} /\ OneEach(pg'[p])
  BY <1>1 DEF Frames, OneEach
<1>4. ~Active(p)' /\ proc'[p].state # "UNUSED"
  BY <1>1 DEF Active
<1>5. /\ Frames(pg'[p]) \cap kern'[p].old = {}
      /\ free' \cap (Frames(pg'[p]) \cup kern'[p].old) = {}
      /\ free' \cup Frames(pg'[p]) \cup kern'[p].old = free \cup Held(p)
  BY <1>1, <1>2, <1>3 DEF Held
<1>6. kern'[p].pc \notin {"exec", "failed"} => kern'[p].old = {}
  BY <1>1
<1> QED BY <1>1, <1>3, <1>4, <1>5, <1>6, OwnedLocal, Zenon

\* The panic of fork moves no frame.
LEMMA ForkNoBufferOwned ==
  ASSUME Inv, Owned, NEW p \in Proc, NEW q \in Proc, ForkNoBuffer(p, q)
  PROVE  OwnedKept
<1>1. /\ Active(p) /\ kern[p].pc = "copy" /\ kern'[p].pc = "halt" /\ kern'[p].old = {}
      /\ Local(p) /\ proc'[p] = proc[p] /\ pg'[p] = pg[p] /\ free' = free
      /\ kern[p].old = {}
  BY ForkNoBufferEffect, Zenon
<1>2. ~Active(p)' /\ kern[p].pc \notin {"exec", "failed"}
  BY <1>1 DEF Active
<1> QED BY <1>1, <1>2, OwnedQuiet, Zenon

\* A step of p that moves no frame, and after which p runs only if it ran.
LEMMA StillOwned ==
  ASSUME Inv, Owned, NEW p \in Proc, Local(p), free' = free, kern'[p] = kern[p],
         pg'[p].PTE_P = pg[p].PTE_P, pg'[p].PTE_ADDR = pg[p].PTE_ADDR,
         proc'[p].state = "UNUSED" => proc[p].state = "UNUSED",
         Active(p)' => Active(p) /\ pg'[p] = pg[p]
  PROVE  OwnedKept
<1>1. /\ OneEach(pg[p]) /\ Held(p) \cap free = {} /\ Frames(pg[p]) \cap kern[p].old = {}
      /\ Active(p) => SwapOK(pg[p])
      /\ kern[p].pc \notin {"exec", "failed"} => kern[p].old = {}
      /\ proc[p].state = "UNUSED" => pg[p].PTE_P = {}
  BY OwnedHere, Zenon
<1>2. Frames(pg'[p]) = Frames(pg[p]) /\ OneEach(pg'[p])
  BY <1>1 DEF Frames, OneEach
<1>3. ASSUME Active(p)' PROVE SwapOK(pg'[p])
  BY <1>1, <1>3
<1>4. /\ kern'[p].pc \notin {"exec", "failed"} => kern'[p].old = {}
      /\ proc'[p].state = "UNUSED" => pg'[p].PTE_P = {}
  BY <1>1, Zenon
<1>5. /\ Frames(pg'[p]) \cap kern'[p].old = {}
      /\ free' \cap (Frames(pg'[p]) \cup kern'[p].old) = {}
      /\ free' \cup Frames(pg'[p]) \cup kern'[p].old = free \cup Held(p)
  BY <1>1, <1>2 DEF Held
<1> QED BY <1>2, <1>3, <1>4, <1>5, OwnedLocal, Zenon

\* Kill and exit are such steps.
LEMMA KillExitOwned ==
  ASSUME Inv, Owned, NEW p \in Proc, Kill(p) \/ Exit(p)
  PROVE  OwnedKept
<1>1. CASE Kill(p)
  <2>1. /\ Local(p) /\ free' = free /\ pg'[p] = pg[p] /\ kern'[p] = kern[p]
        /\ proc'[p].state = proc[p].state /\ proc[p].killed = FALSE
    BY <1>1, KillEffect, Zenon
  <2>2. ASSUME Active(p)' PROVE Active(p)
    BY <2>1, <2>2 DEF Active
  <2> QED BY <2>1, <2>2, StillOwned, Zenon
<1>2. CASE Exit(p)
  <2>1. /\ Local(p) /\ free' = free /\ kern'[p] = kern[p] /\ proc'[p].state = "ZOMBIE"
        /\ pg'[p].PTE_P = pg[p].PTE_P /\ pg'[p].PTE_ADDR = pg[p].PTE_ADDR
    BY <1>2, ExitEffect, Zenon
  <2>2. ~Active(p)' /\ proc'[p].state # "UNUSED"
    BY <2>1 DEF Active
  <2> QED BY <2>1, <2>2, StillOwned, Zenon
<1> QED BY <1>1, <1>2

\* Wait gives all the frames of the zombie back.
LEMMA ReapOwned ==
  ASSUME Inv, Owned, NEW p \in Proc, Reap(p)
  PROVE  OwnedKept
<1>1. /\ Local(p) /\ kern'[p] = Idle /\ free' = free \cup Held(p)
      /\ proc'[p].state = "UNUSED" /\ pg'[p] = init_page_meta(0)
  BY ReapEffect, Zenon DEF kfree
<1>2. 0 \in 0 .. MAX_SWAP_FILE_SZ
  BY Sizes
<1>3. pg'[p].PTE_P = {} /\ Frames(pg'[p]) = {} /\ OneEach(pg'[p])
  BY <1>1, <1>2, FreshRecord, Zenon
<1>4. kern'[p].old = {} /\ ~Active(p)'
  BY <1>1, IdleFields DEF Active
<1>5. /\ Frames(pg'[p]) \cap kern'[p].old = {}
      /\ free' \cap (Frames(pg'[p]) \cup kern'[p].old) = {}
      /\ free' \cup Frames(pg'[p]) \cup kern'[p].old = free \cup Held(p)
  BY <1>1, <1>3, <1>4
<1> QED BY <1>1, <1>3, <1>4, <1>5, OwnedLocal, Zenon

\* The child's file is as long as the parent's file_size, which bounds every
\* offset of the parent.
LEMMA ChildSwapOK ==
  ASSUME NEW src \in PageRec, NEW dst, NEW q, SwapOK(src), ChildRecord(q, dst, src)
  PROVE  SwapOK(q)
<1>1. /\ q.offset = src.offset /\ q.offsets = src.offsets
      /\ q.swap_len = src.file_size /\ q.file_size = src.file_size
  BY Zenon DEF ChildRecord
<1>2. /\ src.swap_len \in Int /\ src.file_size \in Int
      /\ \A s \in SwapSlot : src.offsets[s] \in Int /\ s \in Int
      /\ \A i \in Slot : src.offset[i] \in Int
  BY FileTypes
<1> QED BY <1>1, <1>2 DEF SwapOK

\* Fork's steps by p, in terms of the child's slot.
LEMMA ForkingOwned ==
  ASSUME Inv, Owned, NEW p \in Proc, NEW q \in Proc, Forking(p, q),
         proc'[q].state = "UNUSED" => pg'[q].PTE_P = {},
         proc'[q].state = "RUNNING" => SwapOK(pg'[q]),
         OneEach(pg'[q]), free' \cap Frames(pg'[q]) = {},
         free' \cup Frames(pg'[q]) = free \cup Frames(pg[q])
  PROVE  OwnedKept
<1>1. free' \cup Frames(pg'[q]) \subseteq free \cup Frames(pg[q])
  OBVIOUS
<1>2. /\ Owned' /\ Held(q) = Frames(pg[q]) /\ kern'[q].old = {}
      /\ \A r \in Proc \ {q} : pg'[r] = pg[r] /\ kern'[r].old = kern[r].old
  BY <1>1, OwnedFork, Zenon
<1>3. free' \cup Frames(pg'[q]) \cup kern'[q].old = free \cup Held(q)
  BY <1>2
<1>4. Accounted' = Accounted
  BY <1>2, <1>3, ExchangeCounts, Zenon
<1> QED BY <1>2, <1>4, Zenon DEF OwnedKept

\* Copyuvm without a page table loses the one frame that it has taken.
LEMMA CopyNoTableOwned ==
  ASSUME Inv, Owned, NEW p \in Proc, NEW q \in Proc, CopyNoTable(p, q)
  PROVE  Owned' /\ \E f \in free : Accounted' = Accounted \ {f}
<1>1. /\ Forking(p, q) /\ proc'[q].state = "UNUSED"
      /\ pg[q].PTE_P = {} /\ pg'[q] = init_page_meta(0)
  BY CopyNoTableEffect, Zenon
<1>2. PICK f \in free : Alloc(f, mem[pg[p].PTE_ADDR[0]])
  BY CopyNoTableEffect, Zenon
<1>3. free' = free \ {f}
  BY <1>2, Zenon DEF Alloc
<1>4. 0 \in 0 .. MAX_SWAP_FILE_SZ
  BY Sizes
<1>5. pg'[q].PTE_P = {} /\ Frames(pg'[q]) = {} /\ OneEach(pg'[q]) /\ Frames(pg[q]) = {}
  <2>1. pg'[q].PTE_P = {} /\ Frames(pg'[q]) = {} /\ OneEach(pg'[q])
    BY <1>1, <1>4, FreshRecord, Zenon
  <2> QED BY <1>1, <2>1 DEF Frames
<1>6. /\ free' \cap Frames(pg'[q]) = {}
      /\ free' \cup Frames(pg'[q]) \subseteq free \cup Frames(pg[q])
      /\ proc'[q].state # "RUNNING"
  BY <1>1, <1>3, <1>5
<1>7. /\ Owned' /\ Held(q) = Frames(pg[q]) /\ kern'[q].old = {}
      /\ \A r \in Proc \ {q} : pg'[r] = pg[r] /\ kern'[r].old = kern[r].old
  BY <1>1, <1>5, <1>6, OwnedFork, Zenon
<1> DEFINE H == [r \in Proc |-> Held(r)]
<1>8. ASSUME NEW r \in Proc PROVE Frames(pg'[r]) \cup kern'[r].old = H[r] /\ f \notin H[r]
  <2>1. f \notin Held(r)
    <3>1. Held(r) \cap free = {}
      BY OwnedHere
    <3> QED BY <3>1
  <2>2. Frames(pg'[r]) \cup kern'[r].old = Held(r)
    <3>1. CASE r = q
      BY <1>5, <1>7, <3>1
    <3>2. CASE r # q
      BY <1>7, <3>2, Zenon DEF Held
    <3> QED BY <3>1, <3>2
  <2> QED BY <2>1, <2>2
<1>9. /\ Accounted = free \cup UNION {H[r] : r \in Proc}
      /\ Accounted' = free' \cup UNION {Frames(pg'[r]) \cup kern'[r].old : r \in Proc}
  BY DEF Accounted, Held
<1> HIDE DEF H
<1>10. {Frames(pg'[r]) \cup kern'[r].old : r \in Proc} = {H[r] : r \in Proc}
  BY <1>8, Zenon
<1>11. Accounted' = Accounted \ {f}
  <2> DEFINE U == UNION {H[r] : r \in Proc}
  <2>1. f \notin U
    BY <1>8, Zenon
  <2>2. Accounted = free \cup U /\ Accounted' = free' \cup U
    BY <1>9, <1>10, Zenon
  <2> HIDE DEF U
  <2> QED BY <1>3, <2>1, <2>2, Zenon
<1> QED BY <1>7, <1>11

\* The start and the failure of fork: the slot's page table becomes empty.
LEMMA ForkStartsOwned ==
  ASSUME Inv, Owned, NEW p \in Proc, NEW q \in Proc, Fork(p, q) \/ CopyNoMemory(p, q)
  PROVE  OwnedKept
<1>1. /\ Forking(p, q) /\ proc'[q].state # "RUNNING" /\ pg'[q] = init_page_meta(0)
      /\ free' = free \cup Frames(pg[q])
  <2>1. CASE Fork(p, q)
    <3>1. /\ Forking(p, q) /\ free' = free /\ pg'[q] = init_page_meta(0)
          /\ proc[q].state = "UNUSED" /\ proc'[q].state = "EMBRYO"
      BY <2>1, ForkEffect, Zenon
    <3>2. pg[q].PTE_P = {}
      BY <3>1, OwnedHere, Zenon
    <3> QED BY <3>1, <3>2 DEF Frames
  <2>2. CASE CopyNoMemory(p, q)
    <3>1. /\ Forking(p, q) /\ kfree(Frames(pg[q])) /\ pg'[q] = init_page_meta(0)
          /\ proc'[q].state = "UNUSED"
      BY <2>2, CopyNoMemoryEffect, Zenon
    <3> QED BY <3>1 DEF kfree
  <2> QED BY <2>1, <2>2, Zenon
<1>2. 0 \in 0 .. MAX_SWAP_FILE_SZ
  BY Sizes
<1>3. pg'[q].PTE_P = {} /\ Frames(pg'[q]) = {} /\ OneEach(pg'[q])
  BY <1>1, <1>2, FreshRecord, Zenon
<1>4. free' \cap Frames(pg'[q]) = {} /\ free' \cup Frames(pg'[q]) = free \cup Frames(pg[q])
  BY <1>1, <1>3
<1> QED BY <1>1, <1>3, <1>4, ForkingOwned, Zenon

\* Copyuvm's loop takes a frame for a page that is present.
LEMMA CopyPageOwned ==
  ASSUME Inv, Owned, NEW p \in Proc, NEW q \in Proc, CopyPage(p, q)
  PROVE  OwnedKept
<1> DEFINE v == kern[p].a
<1>1. /\ Forking(p, q) /\ proc'[q] = proc[q] /\ proc[q].state = "EMBRYO"
      /\ \/ /\ free' = free
            /\ pg'[q].PTE_P = pg[q].PTE_P /\ pg'[q].PTE_ADDR = pg[q].PTE_ADDR
         \/ \E f \in free : PageMapped(q, v, f, mem[pg[p].PTE_ADDR[v]])
  BY CopyPageEffect, Zenon
<1>2. proc'[q].state # "UNUSED" /\ proc'[q].state # "RUNNING"
  BY <1>1, Zenon
<1>3. OneEach(pg[q]) /\ Held(q) \cap free = {} /\ kern[q].old = {} /\ Held(q) = Frames(pg[q])
  BY <1>1, OwnedHere, Zenon DEF Forking, Held
<1>4. CASE /\ free' = free
           /\ pg'[q].PTE_P = pg[q].PTE_P /\ pg'[q].PTE_ADDR = pg[q].PTE_ADDR
  <2>1. Frames(pg'[q]) = Frames(pg[q]) /\ OneEach(pg'[q])
    BY <1>3, <1>4 DEF Frames, OneEach
  <2>2. free' \cap Frames(pg'[q]) = {} /\ free' \cup Frames(pg'[q]) = free \cup Frames(pg[q])
    BY <1>3, <1>4, <2>1
  <2> QED BY <1>1, <1>2, <2>1, <2>2, ForkingOwned, Zenon
<1>5. CASE \E f \in free : PageMapped(q, v, f, mem[pg[p].PTE_ADDR[v]])
  <2> DEFINE d == mem[pg[p].PTE_ADDR[v]]
  <2>1. PICK f \in free : PageMapped(q, v, f, d)
    BY <1>5
  <2> HIDE DEF d, v
  <2>2. /\ v \in Vpn /\ v \notin pg[q].PTE_P /\ Alloc(f, d)
        /\ pg'[q].PTE_P = pg[q].PTE_P \cup {v} /\ pg'[q].PTE_ADDR = [pg[q].PTE_ADDR EXCEPT ![v] = f]
    BY <2>1, Zenon DEF PageMapped, Mapped
  <2>3. kern'[q].old = kern[q].old
    BY <1>1 DEF Forking
  <2>4. /\ OneEach(pg'[q])
        /\ free' \cap (Frames(pg'[q]) \cup kern'[q].old) = {}
        /\ free' \cup Frames(pg'[q]) \cup kern'[q].old = free \cup Held(q)
    BY <2>2, <2>3, TakesFrame, Zenon
  <2>5. free' \cap Frames(pg'[q]) = {} /\ free' \cup Frames(pg'[q]) = free \cup Frames(pg[q])
    BY <1>3, <2>3, <2>4
  <2> QED BY <1>1, <1>2, <2>4, <2>5, ForkingOwned, Zenon
<1> QED BY <1>1, <1>4, <1>5, Zenon

\* The end of fork moves no frame.
LEMMA ForkDoneOwned ==
  ASSUME Inv, Owned, NEW p \in Proc, NEW q \in Proc, ForkDone(p, q)
  PROVE  OwnedKept
<1>1. /\ Forking(p, q) /\ free' = free /\ proc'[q].state = "RUNNING"
      /\ ChildRecord(pg'[q], pg[q], pg[p])
  BY ForkDoneEffect, Zenon
<1>2. Active(p) /\ kern[q].pc = "user"
  BY <1>1, Zenon DEF Forking
<1>3. SwapOK(pg[p]) /\ pg[p] \in PageRec
  BY <1>2, OwnedHere, Same
<1>4. SwapOK(pg'[q])
  BY <1>1, <1>3, ChildSwapOK, Zenon
<1>5. OneEach(pg[q]) /\ Held(q) \cap free = {} /\ Held(q) = Frames(pg[q])
  BY <1>2, OwnedHere DEF Held
<1>6. pg'[q].PTE_P = pg[q].PTE_P /\ pg'[q].PTE_ADDR = pg[q].PTE_ADDR
  BY <1>1, Zenon DEF ChildRecord
<1>7. Frames(pg'[q]) = Frames(pg[q]) /\ OneEach(pg'[q])
  BY <1>5, <1>6, Zenon DEF Frames, OneEach
<1>8. free' \cap Frames(pg'[q]) = {} /\ free' \cup Frames(pg'[q]) = free \cup Frames(pg[q])
  BY <1>1, <1>5, <1>7
<1>9. proc'[q].state # "UNUSED"
  BY <1>1, Zenon
<1> QED BY <1>1, <1>4, <1>7, <1>8, <1>9, ForkingOwned, Zenon

\* In the initial state every frame is free.
LEMMA InitOwned == Init => Owned
<1> SUFFICES ASSUME Init PROVE Owned
  OBVIOUS
<1>1. 0 \in 0 .. MAX_SWAP_FILE_SZ
  BY Sizes
<1>2. /\ init_page_meta(0).PTE_P = {} /\ Frames(init_page_meta(0)) = {}
      /\ Idle.old = {} /\ Unused.state = "UNUSED"
  BY <1>1, FreshRecord, IdleFields DEF Unused
<1>3. /\ \A p \in Proc : /\ Frames(pg[p]) = {} /\ kern[p].old = {} /\ pg[p].PTE_P = {}
                         /\ proc[p].state = "UNUSED"
      /\ free = Frame
  BY <1>2, Zenon DEF Init
<1>4. \A p \in Proc : ~Active(p)
  BY <1>3 DEF Active
<1>5. FramesExclusive
  BY <1>3 DEF FramesExclusive, Held
<1> QED BY <1>3, <1>4, <1>5 DEF Owned

\* Every step keeps Owned.
LEMMA NextOwned == Inv /\ Owned /\ [Next]_vars => Owned' /\ FramesStep
<1> SUFFICES ASSUME Inv, Owned, [Next]_vars PROVE Owned' /\ FramesStep
  OBVIOUS
<1>0. OwnedKept => Owned' /\ FramesStep
  BY Zenon DEF OwnedKept, FramesStep
<1>1. CASE UNCHANGED vars
  <2>1. Frozen
    BY <1>1 DEF vars, Frozen
  <2> QED BY <1>0, <2>1, FrozenOwned
<1>2. ASSUME NEW p \in Proc, KernelStep(p) PROVE Owned' /\ FramesStep
  <2>1. CASE Scan(p) \/ SwapInNoMemory(p) \/ Grow(p) \/ AllocNoMemory(p)
    <3>1. Quiet(p)
      BY <2>1, ScanEffect, SwapInNoMemoryEffect, GrowEffect, AllocNoMemoryEffect, Zenon
    <3> QED BY <1>0, <3>1, QuietOwned, Zenon
  <2>2. CASE SwapOut(p) \/ SwapIn(p) \/ AllocPage(p) \/ Dealloc(p)
    BY <1>0, <2>2, EvictionOwned, SwapInOwned, AllocPageOwned, DeallocOwned, Zenon
  <2>3. CASE ExecPage(p) \/ ExecDone(p) \/ ExecFails(p)
    BY <1>0, <2>3, ExecPageOwned, ExecDoneOwned, ExecFailsOwned, Zenon
  <2>4. CASE \E q \in Proc : CopyPage(p, q) \/ CopyNoMemory(p, q) \/ ForkDone(p, q)
    BY <1>0, <2>4, CopyPageOwned, ForkStartsOwned, ForkDoneOwned, Zenon
  <2>5. CASE \E q \in Proc : ForkNoBuffer(p, q)
    BY <1>0, <2>5, ForkNoBufferOwned, Zenon
  <2>6. CASE \E q \in Proc : CopyNoTable(p, q)
    BY <2>6, CopyNoTableOwned, Zenon DEF FramesStep
  <2> QED BY <1>2, <2>1, <2>2, <2>3, <2>4, <2>5, <2>6, Zenon DEF KernelStep
<1>3. ASSUME NEW p \in Proc, UserStep(p) PROVE OwnedKept
  <2>1. CASE \E v \in Vpn : Load(p, v)
    BY <2>1, LoadEffect, QuietOwned, Zenon
  <2>2. CASE \E v \in Vpn : PageFault(p, v)
    BY <2>2, PageFaultEffect, QuietOwned, FrozenOwned, Zenon
  <2>3. CASE \E v \in Vpn, d \in Data \ {Junk} : Store(p, v, d) \/ SysBuffer(p, v, d)
    BY <2>3, WriteEffect, QuietOwned, FrozenOwned, Zenon
  <2>4. CASE \E n \in 1 .. MaxGrow : Sbrk(p, n)
    BY <2>4, SbrkEffect, QuietOwned, Zenon
  <2>5. CASE \E n \in 1 .. NVPN : SbrkDown(p, n)
    BY <2>5, SbrkDownEffect, QuietOwned, Zenon
  <2>6. CASE \E q \in Proc : Fork(p, q)
    BY <2>6, ForkStartsOwned, Zenon
  <2>7. CASE (\E n \in ExecSizes : Exec(p, n)) \/ \E n \in SpawnSizes : Spawn(p, n)
    BY <2>7, ImageStartsOwned, Zenon
  <2>8. CASE Kill(p) \/ Exit(p) \/ Reap(p)
    BY <2>8, KillExitOwned, ReapOwned, Zenon
  <2> QED BY <1>3, <2>1, <2>2, <2>3, <2>4, <2>5, <2>6, <2>7, <2>8, Zenon DEF UserStep
<1> QED BY <1>0, <1>1, <1>2, <1>3, Zenon DEF Next

\* The ownership of frames is invariant.
THEOREM FramesOwned == Spec => []Owned
BY Invariance, InitOwned, NextOwned, PTL DEF Spec

\* No frame is freed while it is in use or used twice: kalloc, kfree, swap_to_file,
\* swap_from_file, copyuvm and exec, failed ones included, give each frame to at
\* most one page of one process, or one image that exec is replacing.
THEOREM FramesExclusiveHolds == Spec => []FramesExclusive
<1>1. Owned => FramesExclusive
  BY DEF Owned
<1> QED BY <1>1, FramesOwned, PTL

\* No step gives up a frame, failed sbrk, fork and exec included, but the one that
\* copyuvm takes for page 0 when it has no memory left for the page table.
THEOREM FramesKeptHolds == Spec => FramesKept
BY Invariance, FramesOwned, NextOwned, PTL DEF Spec, FramesKept, FramesStep

\* The offsets that get_offset hands out never leave a hole in the swap file, and
\* every swapped page lies inside it.
THEOREM SwapFileHoldsPagesHolds == Spec => []SwapFileHoldsPages
<1>1. Inv /\ Owned => SwapFileHoldsPages
  <2> SUFFICES ASSUME Inv, Owned, NEW p \in Proc, Active(p)
               PROVE  /\ \A i \in Swapped(pg[p]) : pg[p].offset[i] < pg[p].swap_len
                      /\ get_offset_ind(pg[p]) # -1 =>
                           pg[p].offsets[get_offset_ind(pg[p])] <= pg[p].swap_len
                      /\ pg[p].swap_len <= pg[p].file_size
    BY DEF SwapFileHoldsPages
  <2>1. SwapOK(pg[p]) /\ pg[p] \in PageRec
    BY OwnedHere, Same
  <2>2. Swapped(pg[p]) \subseteq Slot
    BY <2>1, Zenon DEF PageRec, Swapped
  <2>3. \A i \in Swapped(pg[p]) : pg[p].offset[i] < pg[p].swap_len
    BY <2>1, <2>2, Zenon DEF SwapOK
  <2>4. get_offset_ind(pg[p]) # -1 => pg[p].offsets[get_offset_ind(pg[p])] <= pg[p].swap_len
    BY <2>1, NextOffset
  <2> QED BY <2>1, <2>3, <2>4 DEF SwapOK
<1> QED BY <1>1, Invariance, FramesOwned, PTL

\* Paging implements UserMemory: programs never see a page swapped out or in, nor
\* what other processes do, for every number of processes, pages and frames.
THEOREM MemoryPreservedHolds == Spec => MemoryPreserved
BY Invariance, FramesOwned, InitData, NextData, VisibleIsNext, PTL
   DEF Spec, MemoryPreserved, UM!Spec
=============================================================================
