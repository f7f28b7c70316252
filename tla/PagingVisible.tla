--------------------------- MODULE PagingVisible ----------------------------
(***************************************************************************)
(* The steps that a program sees, and those of fork: each keeps DataInv    *)
(* and is the step of UserMemory that it should be.                        *)
(***************************************************************************)
EXTENDS PagingContent

\* A step that only the program of p sees.
LEMMA VisibleStep ==
  ASSUME Inv, Owned, DataInv, NEW p \in Proc, Local(p), MemKept(p), proc[p].state # "EMBRYO",
         DataOK(p)'
  PROVE  /\ DataInv'
         /\ UserRun' = [UserRun EXCEPT ![p] = UserRun'[p]]
         /\ UserImage' = [UserImage EXCEPT ![p] = UserImage'[p]]
         /\ UserRun'[p] = UserRun[p] => UserRun' = UserRun
<1>1. \A r \in Proc \ {p} : UserRun'[r] = UserRun[r] /\ UserImage'[r] = UserImage[r] /\ DataOK(r)'
  BY OthersSame
<1>2. /\ UserRun' = [UserRun EXCEPT ![p] = UserRun'[p]]
      /\ UserImage' = [UserImage EXCEPT ![p] = UserImage'[p]]
  BY <1>1, ViewStep
<1>3. ASSUME UserRun'[p] = UserRun[p] PROVE UserRun' = UserRun
  <2>1. UserRun' = [r \in Proc |-> UserRun'[r]] /\ UserRun = [r \in Proc |-> UserRun[r]]
    BY DEF UserRun
  <2> QED BY <1>1, <1>3, <2>1
<1>4. DataInv'
  BY <1>1 DEF DataInv
<1> QED BY <1>2, <1>3, <1>4

\* Stores, and system calls that write into a buffer.
LEMMA WriteVisible ==
  ASSUME Inv, Owned, DataInv, NEW p \in Proc, NEW v \in Vpn, NEW d,
         Store(p, v, d) \/ SysBuffer(p, v, d)
  PROVE  DataInv' /\ (UM!Hidden \/ UM!Write(p, v, d))
<1>1. CASE Frozen
  BY <1>1, FrozenHidden
<1>2. CASE ~Frozen
  <2> DEFINE f == pg[p].PTE_ADDR[v]
  <2>1. /\ Quiet(p) /\ proc'[p] = proc[p] /\ kern'[p] = kern[p] /\ kern[p].pc = "user"
        /\ v \in pg[p].PTE_P /\ mem' = [mem EXCEPT ![f] = d]
    BY <1>2, WriteEffect
  <2>2. /\ Active(p) /\ Local(p) /\ SameButBits(pg'[p], pg[p]) /\ SameFile(pg'[p], pg[p])
    BY <2>1 DEF Quiet
  <2>3. /\ pg'[p].taken = pg[p].taken /\ pg'[p].pte = pg[p].pte /\ pg'[p].offset = pg[p].offset
        /\ pg'[p].PTE_P = pg[p].PTE_P /\ pg'[p].PTE_ADDR = pg[p].PTE_ADDR
        /\ pg'[p].PTE_PG = pg[p].PTE_PG
    BY <2>2, Zenon DEF SameButBits, SameMeta
  <2>4. f \in Held(p) /\ f \in Frame /\ OneEach(pg[p])
    BY <2>1, OwnedHere DEF Held, Frames
  <2>5. mem'[f] = d /\ \A g \in Frame \ {f} : mem'[g] = mem[g]
    BY <2>1, <2>4, Same
  <2>6. MemKept(p)
    BY <2>4, <2>5 DEF MemKept
  <2>7. \A u \in pg[p].PTE_P \ {v} : mem'[pg[p].PTE_ADDR[u]] = mem[pg[p].PTE_ADDR[u]]
    <3>1. \A u \in pg[p].PTE_P \ {v} : pg[p].PTE_ADDR[u] \notin {f}
      BY <2>1, <2>4 DEF OneEach
    <3> HIDE DEF f
    <3>2. \A u \in pg[p].PTE_P : pg[p].PTE_ADDR[u] \notin {f} =>
            mem'[pg[p].PTE_ADDR[u]] = mem[pg[p].PTE_ADDR[u]]
      BY <2>5, KeptFrames
    <3> QED BY <3>1, <3>2
  <2>8. Content(pg'[p], mem', v) = d
    BY <2>1, <2>3, <2>5 DEF Content
  <2> HIDE DEF f
  <2>9. ASSUME NEW u, u # v PROVE Content(pg'[p], mem', u) = Content(pg[p], mem, u)
    BY <2>2, <2>3, <2>7, <2>9, ContentSame
  <2>10. proc[p].state = "RUNNING" /\ LoopOK(proc[p], pg[p], kern[p])
    BY <2>2, ActiveOK
  <2>11. UserRun[p] = "run" /\ UserRun'[p] = "run" /\ UserSize(p) = proc[p].sz
         /\ UserSize(p)' = proc[p].sz /\ proc[p].state # "EMBRYO"
    BY <2>1, <2>10, RunOf, SizeOf
  <2>12. v \in UserPages(p)
    <3>1. Mapped(pg[p]) = {} \/ Mapped(pg[p]) = Below(proc[p].sz)
      BY <2>1, <2>10 DEF LoopOK, Stage
    <3>2. v \in Mapped(pg[p])
      BY <2>1 DEF Mapped
    <3> QED BY <2>11, <3>1, <3>2, Zenon DEF Below, UserPages
  <2>13. UserPages(p)' = UserPages(p)
    BY <2>3, <2>11 DEF UserPages, Mapped
  <2>14. DataOK(p)'
    <3>1. Stage(kern'[p]) \in {"user", "swapin"}
      BY <2>1 DEF Stage
    <3> QED BY <3>1, DataIdle
  <2>15. DataInv' /\ UserRun' = UserRun /\ UserImage' = [UserImage EXCEPT ![p] = UserImage'[p]]
    BY <2>2, <2>6, <2>11, <2>14, VisibleStep
  <2>16. /\ UserImage[p] = [u \in UserPages(p) |-> Content(pg[p], mem, u)]
         /\ UserImage'[p] = [u \in UserPages(p)' |-> Content(pg'[p], mem', u)]
    BY ViewOf
  <2>17. UserImage'[p] = [UserImage[p] EXCEPT ![v] = d]
    BY <2>8, <2>9, <2>12, <2>13, <2>16
  <2>18. v \in DOMAIN UserImage[p]
    BY <2>12, <2>16
  <2>19. UserImage' = [UserImage EXCEPT ![p] = [@ EXCEPT ![v] = d]]
    <3>1. p \in DOMAIN UserImage
      BY DEF UserImage
    <3> QED BY <2>15, <2>17, <3>1, Zenon
  <2> QED BY <2>11, <2>15, <2>18, <2>19 DEF UM!Write
<1> QED BY <1>1, <1>2

\* Sbrk with a positive argument returns: the new pages are zero.
LEMMA GrowVisible ==
  ASSUME Inv, Owned, DataInv, NEW p \in Proc, Grow(p)
  PROVE  DataInv' /\ (UM!Hidden \/ UM!Extend(p, kern[p].lim))
<1>1. CASE kern[p].a # kern[p].lim
  BY <1>1, GrowHidden
<1>2. CASE kern[p].a = kern[p].lim
  <2> DEFINE n == kern[p].lim
  <2>1. /\ Quiet(p) /\ mem' = mem /\ kern[p].pc = "grow" /\ pg'[p] = pg[p]
        /\ kern'[p].pc = "user" /\ proc'[p].sz = kern[p].ret
    BY <1>2, GrowEffect
  <2>2. /\ \A v : Content(pg'[p], mem', v) = Content(pg[p], mem, v)
        /\ MemKept(p) /\ Local(p)
        /\ proc[p].state # "EMBRYO" /\ UserRun[p] = "run" /\ UserRun'[p] = "run"
    BY <2>1, QuietView
  <2>3. /\ Mapped(pg[p]) = Below(n) /\ proc[p].sz <= n /\ kern[p].ret = n
        /\ Stage(kern[p]) = "grow"
    <3>1. LoopOK(proc[p], pg[p], kern[p])
      BY <2>1, ActiveOK DEF Quiet
    <3> QED BY <1>2, <2>1, <3>1, Zenon DEF LoopOK, Stage
  <2>4. DataOK(p)' /\ UserSize(p)' = n /\ UserSize(p) = proc[p].sz
    <3>1. Stage(kern'[p]) \in {"user", "swapin"}
      BY <2>1 DEF Stage
    <3> QED BY <2>1, <2>3, <3>1, DataIdle, SizeOf, Zenon
  <2>5. \A v \in Mapped(pg[p]) : v >= proc[p].sz => Content(pg[p], mem, v) = Zero
    BY <2>3 DEF DataInv, DataOK
  <2>6. n \in Int /\ proc[p].sz \in Int /\ Vpn \subseteq Int
    BY Numbers
  <2> HIDE DEF n
  <2>7. /\ UserPages(p) = {v \in Below(n) : v < proc[p].sz}
        /\ UserPages(p)' = Below(n)
    BY <2>1, <2>2, <2>3, <2>4, Zenon DEF UserPages, Below
  <2>8. DataInv' /\ UserRun' = UserRun /\ UserImage' = [UserImage EXCEPT ![p] = UserImage'[p]]
    BY <2>2, <2>4, VisibleStep, Zenon
  <2>9. /\ UserImage[p] = [v \in UserPages(p) |-> Content(pg[p], mem, v)]
        /\ UserImage'[p] = [v \in UserPages(p)' |-> Content(pg'[p], mem', v)]
    BY ViewOf
  <2>10. DOMAIN UserImage[p] = UserPages(p)
    BY <2>9
  <2>11. UserImage'[p] = [v \in Below(n) |-> IF v \in DOMAIN UserImage[p]
                                             THEN UserImage[p][v] ELSE Zero]
    <3>1. ASSUME NEW v \in Below(n)
          PROVE  Content(pg'[p], mem', v) = IF v \in UserPages(p) THEN UserImage[p][v] ELSE Zero
      <4>1. CASE v \in UserPages(p)
        BY <2>2, <2>9, <4>1, Zenon
      <4>2. CASE v \notin UserPages(p)
        <5>1. v >= proc[p].sz
          BY <2>6, <2>7, <4>2 DEF Below
        <5> QED BY <2>2, <2>3, <2>5, <4>2, <5>1
      <4> QED BY <4>1, <4>2
    <3> QED BY <2>7, <2>9, <2>10, <3>1
  <2>12. UM!UpTo(n) = Below(n) /\ DOMAIN UserImage[p] \subseteq Below(n)
    BY <2>7, <2>10 DEF UM!UpTo, Below
  <2>13. UM!Extend(p, n)
    BY <2>2, <2>8, <2>11, <2>12, Zenon DEF UM!Extend
  <2> QED BY <2>8, <2>13 DEF n
<1> QED BY <1>1, <1>2

\* Sbrk with a negative argument: the pages above the new size are gone.
LEMMA SbrkDownVisible ==
  ASSUME Inv, Owned, DataInv, NEW p \in Proc, NEW n \in 1 .. NVPN, SbrkDown(p, n)
  PROVE  DataInv' /\ UM!Truncate(p, proc[p].sz - n)
<1> DEFINE s == proc[p].sz - n
<1>1. /\ Quiet(p) /\ mem' = mem /\ proc'[p] = proc[p] /\ pg'[p] = pg[p]
      /\ kern[p].pc = "user" /\ kern'[p].pc = "dealloc"
      /\ kern'[p].a = s /\ kern'[p].lim = proc[p].sz
      /\ kern'[p].ret = IF s = 0 THEN proc[p].sz ELSE s
  BY SbrkDownEffect
<1>2. /\ \A v : Content(pg'[p], mem', v) = Content(pg[p], mem, v)
      /\ MemKept(p) /\ Local(p)
      /\ proc[p].state # "EMBRYO" /\ UserRun[p] = "run" /\ UserRun'[p] = "run"
  BY <1>1, QuietView
<1>3. /\ s \in Int /\ proc[p].sz \in Int /\ s < proc[p].sz /\ Mapped(pg[p]) \subseteq Vpn
      /\ Vpn \subseteq Int
  BY Numbers
<1> HIDE DEF s
<1>4. UserSize(p)' = s /\ UserSize(p) = proc[p].sz
  BY <1>1, <1>3 DEF UserSize
<1>5. DataOK(p)'
  <2>1. Stage(kern'[p]) = "dealloc"
    BY <1>1 DEF Stage
  <2>2. ASSUME NEW v \in Mapped(pg[p]) PROVE v < s \/ v >= s
    <3>1. v \in Nat
      BY Numbers
    <3> QED BY <1>3, <3>1
  <2>3. s <= s
    BY <1>3
  <2> QED BY <1>1, <1>4, <2>1, <2>2, <2>3 DEF DataOK
<1>6. DataInv' /\ UserRun' = UserRun /\ UserImage' = [UserImage EXCEPT ![p] = UserImage'[p]]
  BY <1>2, <1>5, VisibleStep, Zenon
<1>7. /\ UserImage[p] = [v \in UserPages(p) |-> Content(pg[p], mem, v)]
      /\ UserImage'[p] = [v \in UserPages(p)' |-> Content(pg'[p], mem', v)]
  BY ViewOf
<1>8. UserPages(p)' = UserPages(p) \cap UM!UpTo(s) /\ DOMAIN UserImage[p] = UserPages(p)
  <2>1. /\ UserPages(p)' = {v \in Mapped(pg[p]) : v < s}
        /\ UserPages(p) = {v \in Mapped(pg[p]) : v < proc[p].sz}
    BY <1>1, <1>2, <1>4 DEF UserPages
  <2>2. UM!UpTo(s) = {v \in Vpn : v < s}
    BY DEF UM!UpTo
  <2>3. \A v \in Vpn : v < s => v < proc[p].sz
    BY <1>3
  <2> QED BY <1>3, <1>7, <2>1, <2>2, <2>3, Zenon
<1>9. UserImage'[p] = [v \in DOMAIN UserImage[p] \cap UM!UpTo(s) |-> UserImage[p][v]]
  <2>1. \A v \in UserPages(p) : Content(pg'[p], mem', v) = UserImage[p][v]
    BY <1>2, <1>7
  <2> QED BY <1>7, <1>8, <2>1, Zenon
<1>10. UM!Truncate(p, s)
  BY <1>2, <1>6, <1>9, Zenon DEF UM!Truncate
<1> QED BY <1>6, <1>10 DEF s

\* Exec and the start of a program: its memory is empty.
LEMMA ImageStartsVisible ==
  ASSUME Inv, Owned, DataInv, NEW p \in Proc, NEW n, Exec(p, n) \/ Spawn(p, n)
  PROVE  DataInv' /\ UM!Exec(p)
<1>1. PICK size : ImageStarts(p, size)
  BY ExecEffect, SpawnEffect
<1>2. /\ Local(p) /\ mem' = mem /\ size \in 0 .. MAX_SWAP_FILE_SZ
      /\ pg'[p] = init_page_meta(size) /\ proc'[p].state = "RUNNING" /\ kern'[p].pc = "exec"
  BY <1>1, Zenon DEF ImageStarts
<1>3. proc[p].state # "EMBRYO"
  <2>1. CASE Exec(p, n)
    BY <2>1, ExecEffect DEF Active
  <2>2. CASE Spawn(p, n)
    BY <2>2, SpawnEffect
  <2> QED BY <2>1, <2>2
<1>4. pg'[p].PTE_P = {}
  <2>1. Mapped(init_page_meta(size)) = {}
    BY <1>2, InitKeeps
  <2> QED BY <1>2, <2>1 DEF Mapped
<1>5. UserRun'[p] = "exec" /\ UserPages(p)' = {}
  BY <1>2, RunOf, Zenon DEF UserPages
<1>6. DataOK(p)'
  <2>1. Stage(kern'[p]) = "exec"
    BY <1>2 DEF Stage
  <2> QED BY <1>2, <1>4, <2>1, Zenon DEF DataOK
<1>7. MemKept(p)
  BY <1>2 DEF MemKept
<1>8. /\ DataInv' /\ UserRun' = [UserRun EXCEPT ![p] = UserRun'[p]]
      /\ UserImage' = [UserImage EXCEPT ![p] = UserImage'[p]]
  BY <1>2, <1>3, <1>6, <1>7, VisibleStep
<1>9. UserImage'[p] = [v \in UserPages(p)' |-> Content(pg'[p], mem', v)]
  BY ViewOf, Zenon
<1>10. UserImage'[p] = UM!Empty
  <2>1. UserImage'[p] = [v \in {} |-> Content(pg'[p], mem', v)]
    BY <1>5, <1>9, Zenon
  <2>2. UM!Empty = [v \in {} |-> Zero]
    BY Zenon DEF UM!Empty
  <2> QED BY <2>1, <2>2
<1> QED BY <1>5, <1>8, <1>10, Zenon DEF UM!Exec

\* Exec ends: the program has an image of zero pages.
LEMMA ExecDoneVisible ==
  ASSUME Inv, Owned, DataInv, NEW p \in Proc, ExecDone(p)
  PROVE  DataInv' /\ UM!Load(p, kern[p].lim)
<1> DEFINE n == kern[p].lim
<1>1. /\ Active(p) /\ kern[p].pc = "exec" /\ kern[p].a = n /\ kern'[p] = Idle
      /\ proc'[p].state = proc[p].state /\ proc'[p].sz = n
      /\ Local(p) /\ SameButBits(pg'[p], pg[p]) /\ kfree(kern[p].old)
  BY ExecDoneEffect
<1>2. /\ RecOK(pg[p]) /\ LoopOK(proc[p], pg[p], kern[p]) /\ pg[p] \in PageRec
      /\ proc[p].state = "RUNNING"
  BY <1>1, ActiveOK, Zenon
<1>3. Mapped(pg[p]) = Below(n) /\ pg[p].on_phys = pg[p].taken
  <2>1. Stage(kern[p]) = "exec"
    BY <1>1 DEF Stage
  <2> QED BY <1>1, <1>2, <2>1, Zenon DEF LoopOK
<1> HIDE DEF n
<1>4. Mapped(pg[p]) \subseteq pg[p].PTE_P
  <2> SUFFICES ASSUME NEW u \in Mapped(pg[p]), u \notin pg[p].PTE_P PROVE FALSE
    OBVIOUS
  <2>1. find_page_ind(pg[p], u) \in Swapped(pg[p])
    BY <1>2, Entry
  <2> QED BY <1>3, <2>1 DEF Swapped
<1>5. pg'[p].PTE_P = pg[p].PTE_P /\ pg'[p].PTE_ADDR = pg[p].PTE_ADDR /\ pg'[p].PTE_PG = pg[p].PTE_PG
  BY <1>1, Zenon DEF SameButBits
<1>6. MemKept(p) /\ \A g \in Frame \ kern[p].old : mem'[g] = mem[g]
  <2>1. kern[p].old \subseteq Held(p)
    BY DEF Held
  <2> QED BY <1>1, <2>1, KeptFree
<1>7. \A u \in pg[p].PTE_P : mem'[pg[p].PTE_ADDR[u]] = Zero
  <2>1. \A u \in pg[p].PTE_P : pg[p].PTE_ADDR[u] \notin kern[p].old =>
          mem'[pg[p].PTE_ADDR[u]] = mem[pg[p].PTE_ADDR[u]]
    BY <1>6, KeptFrames
  <2>2. Frames(pg[p]) \cap kern[p].old = {}
    BY OwnedHere
  <2>3. \A u \in pg[p].PTE_P : pg[p].PTE_ADDR[u] \notin kern[p].old
    BY <2>2, Zenon DEF Frames
  <2>4. \A u \in pg[p].PTE_P : mem[pg[p].PTE_ADDR[u]] = Zero
    BY <1>1 DEF DataInv, DataOK
  <2> QED BY <2>1, <2>3, <2>4
<1>8. \A u \in Below(n) : Content(pg'[p], mem', u) = Zero
  BY <1>3, <1>4, <1>5, <1>7 DEF Content
<1>9. kern'[p].pc = "user" /\ Stage(kern'[p]) \in {"user", "swapin"}
  BY <1>1, IdleFields DEF Stage
<1>10. DataOK(p)'
  BY <1>9, DataIdle, Zenon
<1>11. /\ UserRun[p] = "exec" /\ UserRun'[p] = "run" /\ UserSize(p)' = n
       /\ proc[p].state # "EMBRYO"
  BY <1>1, <1>2, <1>9, RunOf, SizeOf
<1>12. UserPages(p)' = Below(n)
  BY <1>3, <1>5, <1>11, Zenon DEF UserPages, Mapped, Below
<1>13. /\ DataInv' /\ UserRun' = [UserRun EXCEPT ![p] = UserRun'[p]]
       /\ UserImage' = [UserImage EXCEPT ![p] = UserImage'[p]]
  BY <1>1, <1>6, <1>10, <1>11, VisibleStep
<1>14. UserImage'[p] = [v \in UserPages(p)' |-> Content(pg'[p], mem', v)]
  BY ViewOf, Zenon
<1>15. UserImage'[p] = [v \in UM!UpTo(n) |-> Zero]
  <2>1. UM!UpTo(n) = Below(n)
    BY DEF UM!UpTo, Below
  <2> QED BY <1>8, <1>12, <1>14, <2>1
<1>16. UM!Load(p, n)
  BY <1>11, <1>13, <1>15, Zenon DEF UM!Load
<1> QED BY <1>13, <1>16, Zenon DEF n

\* A program ends: its memory is gone.
LEMMA EndVisible ==
  ASSUME Inv, Owned, DataInv, NEW p \in Proc, Local(p), MemKept(p), proc[p].state = "RUNNING",
         UserRun[p] # "none", UserRun'[p] = "none",
         kern'[p].pc \in {"user", "failed", "halt"}
  PROVE  DataInv' /\ UM!Exit(p)
<1>2. UserPages(p)' = {} /\ proc[p].state # "EMBRYO"
  BY DEF UserPages
<1>3. DataOK(p)'
  <2>1. /\ Stage(kern'[p]) = kern'[p].pc
        /\ kern'[p].pc \notin {"grow", "alloc", "dealloc", "exec", "copy"}
    BY DEF Stage
  <2> QED BY <2>1 DEF DataOK
<1>4. /\ DataInv' /\ UserRun' = [UserRun EXCEPT ![p] = UserRun'[p]]
      /\ UserImage' = [UserImage EXCEPT ![p] = UserImage'[p]]
  BY <1>2, <1>3, VisibleStep
<1>5. UserImage'[p] = [v \in UserPages(p)' |-> Content(pg'[p], mem', v)]
  BY ViewOf, Zenon
<1>6. UserImage'[p] = UM!Empty
  <2>1. UserImage'[p] = [v \in {} |-> Content(pg'[p], mem', v)]
    BY <1>2, <1>5, Zenon
  <2>2. UM!Empty = [v \in {} |-> Zero]
    BY Zenon DEF UM!Empty
  <2> QED BY <2>1, <2>2
<1> QED BY <1>4, <1>6 DEF UM!Exit

\* Exit, also after a failed exec.
LEMMA ExitVisible ==
  ASSUME Inv, Owned, DataInv, NEW p \in Proc, Exit(p)
  PROVE  DataInv' /\ UM!Exit(p)
<1>1. /\ Local(p) /\ mem' = mem /\ kern'[p] = kern[p] /\ kern[p].pc \in {"user", "failed"}
      /\ proc[p].state = "RUNNING" /\ proc'[p].state = "ZOMBIE"
  BY ExitEffect
<1>2. UserRun'[p] = "none" /\ UserRun[p] # "none"
  BY <1>1, RunOf
<1>3. MemKept(p) /\ kern'[p].pc \in {"user", "failed", "halt"}
  BY <1>1 DEF MemKept
<1> QED BY <1>1, <1>2, <1>3, EndVisible

\* The panic of a fork that has no buffer: what its parent finds in page 0 does not
\* matter, for the machine has stopped.
LEMMA ForkNoBufferVisible ==
  ASSUME Inv, Owned, DataInv, NEW p \in Proc, NEW q \in Proc, ForkNoBuffer(p, q)
  PROVE  DataInv' /\ UM!Exit(p)
<1>1. /\ Active(p) /\ kern[p].pc = "copy" /\ kern'[p].pc = "halt" /\ Local(p) /\ MemKept(p)
  BY ForkNoBufferEffect, Zenon
<1>2. proc[p].state = "RUNNING"
  BY <1>1, ActiveOK
<1>3. UserRun'[p] = "none" /\ UserRun[p] # "none"
  BY <1>1, <1>2, RunOf
<1> QED BY <1>1, <1>2, <1>3, EndVisible

-----------------------------------------------------------------------------
\* The steps of fork change what nobody but the child sees.
LEMMA ForkingView ==
  ASSUME Inv, Owned, DataInv, NEW p \in Proc, NEW q \in Proc, Forking(p, q), MemKept(q),
         \A r \in Proc \ {p} : kern[r].pc = "copy" => q \notin kern[r].peer,
         DataOK(p)'
  PROVE  /\ DataInv' /\ UserRun[p] = "run" /\ UserRun[q] = "none"
         /\ \A r \in Proc \ {q} : UserRun'[r] = UserRun[r] /\ UserImage'[r] = UserImage[r]
<1>1. /\ p # q /\ Active(p) /\ kern[p].pc \in {"user", "copy"} /\ kern[q].pc = "user"
      /\ proc[q].state # "RUNNING" /\ kern'[p].pc \in {"user", "copy"}
      /\ \A r \in Proc \ {q} : proc'[r] = proc[r] /\ pg'[r] = pg[r]
      /\ \A r \in Proc \ {p} : kern'[r] = kern[r]
  BY DEF Forking
<1>2. proc[p].state = "RUNNING"
  BY <1>1, ActiveOK
<1>3. UserRun[p] = "run" /\ UserRun'[p] = "run" /\ UserRun[q] = "none"
  BY <1>1, <1>2, RunOf, Zenon
<1>4. \A r \in Proc \ {q} : \A v \in pg[r].PTE_P :
        mem'[pg[r].PTE_ADDR[v]] = mem[pg[r].PTE_ADDR[v]]
  BY Elsewhere
<1>5. UserImage'[p] = UserImage[p]
  <2>1. UserSize(p)' = UserSize(p) /\ pg'[p] = pg[p]
    BY <1>1, SizeOf
  <2>2. UserPages(p)' = UserPages(p)
    BY <1>3, <2>1, Zenon DEF UserPages
  <2>3. ASSUME NEW v PROVE Content(pg'[p], mem', v) = Content(pg[p], mem, v)
    BY <1>1, <1>4, <2>1 DEF Content
  <2> QED BY <2>2, <2>3, ViewSame, Zenon
<1>6. ASSUME NEW r \in Proc \ {p, q}
      PROVE  UserRun'[r] = UserRun[r] /\ UserImage'[r] = UserImage[r] /\ DataOK(r)'
  <2>1. proc'[r] = proc[r] /\ pg'[r] = pg[r] /\ kern'[r] = kern[r]
    BY <1>1
  <2>2. \A v \in pg[r].PTE_P : mem'[pg[r].PTE_ADDR[v]] = mem[pg[r].PTE_ADDR[v]]
    BY <1>4
  <2>3. ASSUME kern[r].pc = "copy", NEW x \in kern[r].peer
        PROVE  /\ pg'[x] = pg[x]
               /\ \A v \in pg[x].PTE_P : /\ mem'[pg[x].PTE_ADDR[v]] = mem[pg[x].PTE_ADDR[v]]
                                         /\ v \in pg[r].PTE_P
    <3>1. x \in Proc /\ \A v \in pg[x].PTE_P : v \in pg[r].PTE_P
      BY <2>3, Peers
    <3>2. x \in Proc \ {q}
      BY <2>3, <3>1
    <3> QED BY <1>1, <1>4, <3>1, <3>2, Zenon
  <2>4. UserRun'[r] = UserRun[r] /\ UserImage'[r] = UserImage[r]
    BY <2>1, <2>2, SlotSame, Zenon
  <2>5. DataOK(r)'
    BY <2>1, <2>2, <2>3, DataSame, Zenon
  <2> QED BY <2>4, <2>5, Zenon
<1>7. DataOK(q)'
  <2>1. Stage(kern'[q]) \in {"user", "swapin"}
    BY <1>1 DEF Stage
  <2> QED BY <2>1, DataIdle
<1>8. DataInv'
  BY <1>6, <1>7, Zenon DEF DataInv
<1> QED BY <1>3, <1>5, <1>6, <1>8, Zenon

\* Fork, copyuvm's loop and its failure are hidden: the child does not run yet.
LEMMA ForkingHidden ==
  ASSUME Inv, Owned, DataInv, NEW p \in Proc, NEW q \in Proc, Forking(p, q), MemKept(q),
         \A r \in Proc \ {p} : kern[r].pc = "copy" => q \notin kern[r].peer,
         DataOK(p)', proc'[q].state # "RUNNING"
  PROVE  DataInv' /\ UM!Hidden
<1>1. /\ DataInv' /\ UserRun[q] = "none"
      /\ \A r \in Proc \ {q} : UserRun'[r] = UserRun[r] /\ UserImage'[r] = UserImage[r]
  BY ForkingView
<1>2. UserRun'[q] = "none"
  BY RunOf
<1>3. UserPages(q)' = {} /\ UserPages(q) = {}
  BY <1>1, <1>2 DEF UserPages
<1>4. UserImage'[q] = UserImage[q]
  <2>1. /\ UserPages(q)' = UserPages(q)
        /\ \A v \in UserPages(q) : Content(pg'[q], mem', v) = Content(pg[q], mem, v)
    BY <1>3
  <2> QED BY <2>1, ViewSame
<1>5. UM!Hidden
  BY <1>1, <1>2, <1>4, ViewHidden
<1> QED BY <1>1, <1>5

\* A child in the making belongs to one fork.
LEMMA OneParent ==
  ASSUME Inv, NEW p \in Proc, NEW q \in Proc, kern[p].pc = "copy", kern[p].peer = {q}
  PROVE  \A r \in Proc \ {p} : kern[r].pc = "copy" => q \notin kern[r].peer
BY DEF Inv, ForkOK

\* The start of fork.
LEMMA ForkHidden ==
  ASSUME Inv, Owned, DataInv, NEW p \in Proc, NEW q \in Proc, Fork(p, q)
  PROVE  DataInv' /\ UM!Hidden
<1>1. /\ Forking(p, q) /\ mem' = mem /\ kern'[p].pc = "copy" /\ kern'[p].peer = {q}
      /\ proc[q].state = "UNUSED" /\ proc'[q].state = "EMBRYO"
      /\ pg'[q] = init_page_meta(0)
  BY ForkEffect
<1>2. MemKept(q) /\ proc'[q].state # "RUNNING"
  BY <1>1 DEF MemKept
<1>3. ASSUME NEW r \in Proc \ {p}, kern[r].pc = "copy" PROVE q \notin kern[r].peer
  <2>1. ASSUME q \in kern[r].peer PROVE FALSE
    <3>1. proc[q].state = "EMBRYO"
      BY <1>3, <2>1, Peers, Zenon
    <3> QED BY <1>1, <3>1
  <2> QED BY <2>1
<1>4. DataOK(p)'
  <2>0. init_page_meta(0).PTE_P = {}
    BY DEF init_page_meta
  <2>1. pg'[q].PTE_P = {}
    BY <1>1, <2>0, Zenon
  <2>2. Stage(kern'[p]) = "copy"
    BY <1>1, Zenon DEF Stage
  <2> QED BY <1>1, <2>1, <2>2, Zenon DEF DataOK
<1> QED BY <1>1, <1>2, <1>3, <1>4, ForkingHidden

\* One turn of copyuvm's loop: the copy of a page has the content of the page.
LEMMA CopyPageHidden ==
  ASSUME Inv, Owned, DataInv, NEW p \in Proc, NEW q \in Proc, CopyPage(p, q)
  PROVE  DataInv' /\ UM!Hidden
<1> DEFINE v == kern[p].a
<1>1. /\ Forking(p, q) /\ kern[p].pc = "copy" /\ kern'[p].pc = "copy"
      /\ kern[p].peer = {q} /\ kern'[p].peer = {q} /\ proc'[q] = proc[q]
      /\ proc[q].state = "EMBRYO"
      /\ \/ /\ mem' = mem
            /\ pg'[q].PTE_P = pg[q].PTE_P /\ pg'[q].PTE_ADDR = pg[q].PTE_ADDR
         \/ /\ v \in pg[p].PTE_P
            /\ \E f \in free : PageMapped(q, v, f, mem[pg[p].PTE_ADDR[v]])
  BY CopyPageEffect, Zenon
<1>2. /\ \A r \in Proc \ {p} : kern[r].pc = "copy" => q \notin kern[r].peer
      /\ proc'[q].state # "RUNNING"
  BY <1>1, OneParent, Zenon
<1>3. p # q /\ pg'[p] = pg[p]
  BY <1>1, Zenon DEF Forking
<1>4. \A u \in pg[q].PTE_P : mem[pg[q].PTE_ADDR[u]] = mem[pg[p].PTE_ADDR[u]]
  BY <1>1, Zenon DEF DataInv, DataOK
<1>5. \A u \in pg[q].PTE_P : u \in pg[p].PTE_P
  BY <1>1, Peers, Zenon
<1>6. ASSUME MemKept(q),
             \A u \in pg'[q].PTE_P : mem'[pg'[q].PTE_ADDR[u]] = mem'[pg[p].PTE_ADDR[u]]
      PROVE  DataInv' /\ UM!Hidden
  <2>1. Stage(kern'[p]) = "copy"
    BY <1>1, Zenon DEF Stage
  <2>2. DataOK(p)'
    BY <1>1, <1>3, <1>6, <2>1, Zenon DEF DataOK
  <2> QED BY <1>1, <1>2, <1>6, <2>2, ForkingHidden
<1>7. CASE mem' = mem /\ pg'[q].PTE_P = pg[q].PTE_P /\ pg'[q].PTE_ADDR = pg[q].PTE_ADDR
  <2>1. MemKept(q)
    BY <1>7 DEF MemKept
  <2> QED BY <1>4, <1>6, <1>7, <2>1
<1> HIDE DEF v
<1>8. CASE /\ v \in pg[p].PTE_P
           /\ \E f \in free : PageMapped(q, v, f, mem[pg[p].PTE_ADDR[v]])
  <2>1. PICK f \in free : PageMapped(q, v, f, mem[pg[p].PTE_ADDR[v]])
    BY <1>8
  <2>2. /\ Alloc(f, mem[pg[p].PTE_ADDR[v]]) /\ v \in Vpn
        /\ pg'[q].PTE_P = pg[q].PTE_P \cup {v} /\ pg'[q].PTE_ADDR = [pg[q].PTE_ADDR EXCEPT ![v] = f]
        /\ v \notin pg[q].PTE_P
    BY <2>1, Zenon DEF PageMapped, Mapped
  <2>3. /\ MemKept(q) /\ mem'[f] = mem[pg[p].PTE_ADDR[v]]
        /\ \A u \in pg[q].PTE_P : mem'[pg[q].PTE_ADDR[u]] = mem[pg[q].PTE_ADDR[u]]
    BY <2>2, NewFrame, Zenon
  <2>4. \A u \in pg[p].PTE_P : mem'[pg[p].PTE_ADDR[u]] = mem[pg[p].PTE_ADDR[u]]
    BY <2>2, NewFrame, Zenon
  <2>5. pg'[q].PTE_ADDR[v] = f /\ \A u \in pg[q].PTE_P : pg'[q].PTE_ADDR[u] = pg[q].PTE_ADDR[u]
    <3>1. pg[q].PTE_ADDR \in [Vpn -> Frame \cup {NoFrame}] /\ pg[q].PTE_P \subseteq Vpn
      BY Same, Zenon DEF PageRec
    <3> QED BY <2>2, <3>1
  <2>6. \A u \in pg'[q].PTE_P : mem'[pg'[q].PTE_ADDR[u]] = mem'[pg[p].PTE_ADDR[u]]
    <3>1. mem'[pg'[q].PTE_ADDR[v]] = mem'[pg[p].PTE_ADDR[v]]
      BY <1>8, <2>3, <2>4, <2>5, Zenon
    <3>2. \A u \in pg[q].PTE_P : mem'[pg'[q].PTE_ADDR[u]] = mem'[pg[p].PTE_ADDR[u]]
      BY <1>4, <1>5, <2>3, <2>4, <2>5
    <3> QED BY <2>2, <3>1, <3>2, Zenon
  <2> QED BY <1>6, <2>3, <2>6, Zenon
<1> QED BY <1>1, <1>7, <1>8, ZenonT(60) DEF v

\* Copyuvm fails: the child is gone before it ran.
LEMMA ForkFailsHidden ==
  ASSUME Inv, Owned, DataInv, NEW p \in Proc, NEW q \in Proc,
         Forking(p, q), kern[p].pc = "copy", kern'[p] = Idle, kern[p].peer = {q},
         proc'[q].state = "UNUSED", MemKept(q)
  PROVE  DataInv' /\ UM!Hidden
<1>2. /\ \A r \in Proc \ {p} : kern[r].pc = "copy" => q \notin kern[r].peer
      /\ proc'[q].state # "RUNNING"
  BY OneParent
<1>4. DataOK(p)'
  <2>1. Stage(kern'[p]) \in {"user", "swapin"}
    BY IdleFields, Zenon DEF Stage
  <2> QED BY <2>1, DataIdle
<1> QED BY <1>2, <1>4, ForkingHidden

\* No memory for a frame or the page directory.
LEMMA CopyNoMemoryHidden ==
  ASSUME Inv, Owned, DataInv, NEW p \in Proc, NEW q \in Proc, CopyNoMemory(p, q)
  PROVE  DataInv' /\ UM!Hidden
<1>1. /\ Forking(p, q) /\ kern[p].pc = "copy" /\ kern'[p] = Idle /\ kern[p].peer = {q}
      /\ kfree(Frames(pg[q])) /\ proc'[q].state = "UNUSED"
  BY CopyNoMemoryEffect, Zenon
<1>2. Frames(pg[q]) \subseteq Held(q)
  BY DEF Held
<1>3. MemKept(q)
  BY <1>1, <1>2, KeptFree, Zenon
<1> QED BY <1>1, <1>3, ForkFailsHidden

\* No memory for the page table.
LEMMA CopyNoTableHidden ==
  ASSUME Inv, Owned, DataInv, NEW p \in Proc, NEW q \in Proc, CopyNoTable(p, q)
  PROVE  DataInv' /\ UM!Hidden
<1>1. /\ Forking(p, q) /\ kern[p].pc = "copy" /\ kern'[p] = Idle /\ kern[p].peer = {q}
      /\ proc'[q].state = "UNUSED"
  BY CopyNoTableEffect, Zenon
<1>2. PICK f \in free : Alloc(f, mem[pg[p].PTE_ADDR[0]])
  BY CopyNoTableEffect, Zenon
<1>3. MemKept(q)
  BY <1>2, KeptAlloc, Zenon
<1> QED BY <1>1, <1>3, ForkFailsHidden

\* The child's record, made from the parent's, describes the same contents.
LEMMA ChildContent ==
  ASSUME NEW src \in PageRec, RecOK(src), SwapOK(src), NEW dst, NEW q, NEW m,
         ChildRecord(q, dst, src), dst.PTE_P = src.PTE_P,
         \A u \in dst.PTE_P : m[dst.PTE_ADDR[u]] = m[src.PTE_ADDR[u]]
  PROVE  \A u \in Mapped(src) : Content(q, m, u) = Content(src, m, u)
<1> SUFFICES ASSUME NEW u \in Mapped(src) PROVE Content(q, m, u) = Content(src, m, u)
  OBVIOUS
<1> DEFINE j == find_page_ind(src, u)
           o == src.offset[j]
<1>1. /\ q.PTE_P = dst.PTE_P /\ q.PTE_ADDR = dst.PTE_ADDR
      /\ q.taken = src.taken /\ q.pte = src.pte /\ q.offset = src.offset
      /\ q.swap_len = src.file_size /\ q.swap = copy_swap_file(src)
  BY Zenon DEF ChildRecord
<1>2. CASE u \in src.PTE_P
  BY <1>1, <1>2, Zenon DEF Content
<1>3. CASE u \notin src.PTE_P
  <2>1. j \in Slot /\ o \in SwapSlot
    BY <1>3, Entry
  <2>2. find_page_ind(q, u) = j
    BY <1>1, Zenon DEF find_page_ind
  <2>3. o < src.swap_len /\ src.swap_len <= src.file_size
    BY <2>1, Zenon DEF SwapOK
  <2>4. src.swap_len \in Nat /\ SwapSlot \subseteq Nat /\ src.file_size \in Int
    BY FileTypes DEF PageRec
  <2> HIDE DEF j, o
  <2>5. o < src.file_size
    BY <2>1, <2>3, <2>4
  <2>6. readFromSwapFile(q, o) = readFromSwapFile(src, o)
    <3>1. q.swap[o] = readFromSwapFile(src, o)
      BY <1>1, <2>1, <2>5, Zenon DEF copy_swap_file
    <3> QED BY <1>1, <2>5, <3>1, Zenon DEF readFromSwapFile
  <2>7. Content(src, m, u) = readFromSwapFile(src, o)
    BY <1>3 DEF Content, j, o
  <2>8. Content(q, m, u) = readFromSwapFile(q, o)
    <3>1. u \notin q.PTE_P /\ q.offset[find_page_ind(q, u)] = o
      BY <1>1, <1>3, <2>2 DEF o
    <3> QED BY <3>1 DEF Content
  <2> QED BY <2>6, <2>7, <2>8
<1> QED BY <1>2, <1>3

\* Fork ends: the child has the memory of its parent.
LEMMA ForkDoneVisible ==
  ASSUME Inv, Owned, DataInv, NEW p \in Proc, NEW q \in Proc, ForkDone(p, q)
  PROVE  DataInv' /\ UM!Fork(p, q)
<1>1. /\ Forking(p, q) /\ kern[p].pc = "copy" /\ kern'[p] = Idle /\ kern[p].peer = {q}
      /\ mem' = mem /\ proc'[q].state = "RUNNING" /\ proc'[q].sz = proc[p].sz
      /\ pg[q].PTE_P = pg[p].PTE_P /\ pg[q].PTE_PG = pg[p].PTE_PG
      /\ ChildRecord(pg'[q], pg[q], pg[p])
  BY ForkDoneEffect
<1>2. \A r \in Proc \ {p} : kern[r].pc = "copy" => q \notin kern[r].peer
  BY <1>1, OneParent, Zenon
<1>3. MemKept(q)
  BY <1>1, Zenon DEF MemKept
<1>4. DataOK(p)'
  <2>1. Stage(kern'[p]) \in {"user", "swapin"}
    BY <1>1, IdleFields, Zenon DEF Stage
  <2> QED BY <2>1, DataIdle
<1>5. /\ DataInv' /\ UserRun[p] = "run" /\ UserRun[q] = "none"
      /\ \A r \in Proc \ {q} : UserRun'[r] = UserRun[r] /\ UserImage'[r] = UserImage[r]
  BY <1>1, <1>2, <1>3, <1>4, ForkingView
<1>6. kern'[q].pc = "user" /\ Active(p)
  BY <1>1, Zenon DEF Forking
<1>7. UserRun'[q] = "run" /\ UserSize(q)' = proc[p].sz /\ UserSize(p) = proc[p].sz
  BY <1>1, <1>6, RunOf, SizeOf
<1>8. UserPages(q)' = UserPages(p) /\ UserPages(p) \subseteq Mapped(pg[p])
  <2>1. Mapped(pg'[q]) = Mapped(pg[p])
    BY <1>1, Zenon DEF ChildRecord, Mapped
  <2> QED BY <1>5, <1>7, <2>1, Zenon DEF UserPages
<1>9. \A u \in Mapped(pg[p]) : Content(pg'[q], mem', u) = Content(pg[p], mem, u)
  <2>1. RecOK(pg[p]) /\ pg[p] \in PageRec /\ SwapOK(pg[p])
    BY <1>6, ActiveOK, OwnedHere, Zenon
  <2>2. \A u \in pg[q].PTE_P : mem[pg[q].PTE_ADDR[u]] = mem[pg[p].PTE_ADDR[u]]
    BY <1>1, Zenon DEF DataInv, DataOK
  <2>3. \A u \in Mapped(pg[p]) : Content(pg'[q], mem, u) = Content(pg[p], mem, u)
    <3>1. /\ pg[p] \in PageRec /\ RecOK(pg[p]) /\ SwapOK(pg[p])
          /\ ChildRecord(pg'[q], pg[q], pg[p]) /\ pg[q].PTE_P = pg[p].PTE_P
      BY <1>1, <2>1
    <3> QED BY <2>2, <3>1, ChildContent
  <2> QED BY <1>1, <2>3, Zenon
<1>10. /\ UserRun' = [UserRun EXCEPT ![q] = UserRun'[q]]
       /\ UserImage' = [UserImage EXCEPT ![q] = UserImage'[q]]
  BY <1>5, ViewStep, Zenon
<1>11. UserImage'[q] = UserImage[p]
  <2>1. UserImage'[q] = [v \in UserPages(q)' |-> Content(pg'[q], mem', v)]
    BY ViewOf, Zenon
  <2>2. UserImage[p] = [v \in UserPages(p) |-> Content(pg[p], mem, v)]
    BY ViewOf, Zenon
  <2> QED BY <1>8, <1>9, <2>1, <2>2
<1> QED BY <1>5, <1>7, <1>10, <1>11, Zenon DEF UM!Fork

-----------------------------------------------------------------------------
\* The invariant and the refinement hold in the initial states.
LEMMA InitData == Init => DataInv /\ UM!Init
<1> SUFFICES ASSUME Init PROVE DataInv /\ UM!Init
  OBVIOUS
<1>1. ASSUME NEW p \in Proc PROVE proc[p].state = "UNUSED" /\ kern[p].pc = "user"
  <2>1. proc[p] = Unused /\ kern[p] = Idle
    BY Zenon DEF Init
  <2> QED BY <2>1, IdleFields DEF Unused
<1>2. DataInv
  BY <1>1 DEF DataInv, DataOK, Stage
<1>3. ASSUME NEW p \in Proc PROVE UserRun[p] = "none" /\ UserImage[p] = UM!Empty
  <2>1. UserRun[p] = "none"
    BY <1>1 DEF UserRun
  <2>2. UserPages(p) = {}
    BY <2>1 DEF UserPages
  <2>3. UserImage[p] = [v \in UserPages(p) |-> Content(pg[p], mem, v)]
    BY ViewOf, Zenon
  <2>4. UserImage[p] = [v \in {} |-> Content(pg[p], mem, v)]
    BY <2>2, <2>3, Zenon
  <2>5. UM!Empty = [v \in {} |-> Zero]
    BY Zenon DEF UM!Empty
  <2> QED BY <2>1, <2>4, <2>5
<1>4. UserRun = [p \in Proc |-> "none"] /\ UserImage = [p \in Proc |-> UM!Empty]
  <2>1. UserRun = [p \in Proc |-> UserRun[p]] /\ UserImage = [p \in Proc |-> UserImage[p]]
    BY DEF UserRun, UserImage
  <2> QED BY <1>3, <2>1, Zenon
<1> QED BY <1>2, <1>4 DEF UM!Init

\* A kernel step is hidden, or sbrk, fork or exec that ends.
LEMMA KernelData ==
  ASSUME Inv, Owned, DataInv, NEW p \in Proc, KernelStep(p)
  PROVE  DataInv' /\ UserVisible
<1>1. CASE Scan(p) \/ SwapInNoMemory(p) \/ AllocNoMemory(p)
  BY <1>1, ScanHidden, AllocNoMemoryHidden, Zenon DEF UserVisible
<1>2. CASE SwapOut(p) \/ SwapIn(p) \/ AllocPage(p)
  BY <1>2, SwapOutHidden, SwapInHidden, AllocPageHidden, Zenon DEF UserVisible
<1>3. CASE Dealloc(p) \/ ExecPage(p) \/ ExecFails(p)
  BY <1>3, DeallocHidden, ExecPageHidden, ExecFailsHidden, Zenon DEF UserVisible
<1>4. CASE \E q \in Proc : CopyPage(p, q) \/ CopyNoMemory(p, q) \/ CopyNoTable(p, q)
  BY <1>4, CopyPageHidden, CopyNoMemoryHidden, CopyNoTableHidden, Zenon DEF UserVisible
<1>5. CASE Grow(p)
  BY <1>5, GrowVisible, Zenon DEF UserVisible
<1>6. CASE ExecDone(p)
  BY <1>6, ExecDoneVisible, Zenon DEF UserVisible
<1>7. CASE \E q \in Proc : ForkDone(p, q)
  BY <1>7, ForkDoneVisible, Zenon DEF UserVisible
<1>8. CASE \E q \in Proc : ForkNoBuffer(p, q)
  BY <1>8, ForkNoBufferVisible, Zenon DEF UserVisible
<1> QED BY <1>1, <1>2, <1>3, <1>4, <1>5, <1>6, <1>7, <1>8, Zenon DEF KernelStep

\* A user step is hidden, or one that its program takes.
LEMMA UserData ==
  ASSUME Inv, Owned, DataInv, NEW p \in Proc, UserStep(p)
  PROVE  DataInv' /\ UserVisible
<1>1. CASE \E v \in Vpn : Load(p, v) \/ PageFault(p, v)
  BY <1>1, LoadHidden, Zenon DEF UserVisible
<1>2. CASE \E v \in Vpn, d \in Data \ {Junk} : Store(p, v, d) \/ SysBuffer(p, v, d)
  <2>1. PICK v \in Vpn, d \in Data : Store(p, v, d) \/ SysBuffer(p, v, d)
    BY <1>2
  <2>2. DataInv' /\ (UM!Hidden \/ UM!Write(p, v, d))
    BY <2>1, WriteVisible
  <2> QED BY <2>1, <2>2, Zenon DEF UserVisible
<1>3. CASE \E n \in 1 .. MaxGrow : Sbrk(p, n)
  BY <1>3, SbrkHidden, Zenon DEF UserVisible
<1>4. CASE \E n \in 1 .. NVPN : SbrkDown(p, n)
  <2>1. PICK n \in 1 .. NVPN : SbrkDown(p, n)
    BY <1>4
  <2>2. DataInv' /\ UM!Truncate(p, proc[p].sz - n)
    BY <2>1, SbrkDownVisible
  <2> QED BY <2>1, <2>2, Zenon DEF UserVisible
<1>5. CASE \E q \in Proc : Fork(p, q)
  BY <1>5, ForkHidden, Zenon DEF UserVisible
<1>6. CASE (\E n \in ExecSizes : Exec(p, n)) \/ \E n \in SpawnSizes : Spawn(p, n)
  <2>1. PICK n \in ExecSizes \cup SpawnSizes : Exec(p, n) \/ Spawn(p, n)
    BY <1>6
  <2>2. DataInv' /\ UM!Exec(p)
    BY <2>1, ImageStartsVisible
  <2> QED BY <2>1, <2>2, Zenon DEF UserVisible
<1>7. CASE Kill(p) \/ Reap(p)
  BY <1>7, KillHidden, ReapHidden, Zenon DEF UserVisible
<1>8. CASE Exit(p)
  BY <1>8, ExitVisible, Zenon DEF UserVisible
<1> QED BY <1>1, <1>2, <1>3, <1>4, <1>5, <1>6, <1>7, <1>8, Zenon DEF UserStep

\* Every step keeps the invariant, and programs see it as UserVisible says.
LEMMA NextData ==
  Inv /\ Owned /\ DataInv /\ [Next]_vars => DataInv' /\ [UserVisible]_vars
<1> SUFFICES ASSUME Inv, Owned, DataInv, [Next]_vars PROVE DataInv' /\ [UserVisible]_vars
  OBVIOUS
<1>1. CASE UNCHANGED vars
  <2>1. Frozen
    BY <1>1 DEF vars, Frozen
  <2> QED BY <1>1, <2>1, FrozenHidden, Zenon
<1>2. CASE \E p \in Proc : KernelStep(p) \/ UserStep(p)
  BY <1>2, KernelData, UserData, Zenon
<1> QED BY <1>1, <1>2, Zenon DEF Next

\* What programs see is a step of UserMemory.
LEMMA VisibleIsNext == Inv /\ [UserVisible]_vars => [UM!Next]_(UM!vars)
<1> SUFFICES ASSUME Inv, [UserVisible]_vars PROVE [UM!Next]_(UM!vars)
  OBVIOUS
<1>1. CASE UNCHANGED vars
  <2>1. proc' = proc /\ pg' = pg /\ kern' = kern /\ mem' = mem
    BY <1>1, Zenon DEF vars
  <2>2. UserRun' = UserRun /\ UserImage' = UserImage
    BY <2>1 DEF UserRun, UserImage, UserSize, UserPage
  <2> QED BY <2>2 DEF UM!vars
<1>2. CASE UM!Hidden
  BY <1>2 DEF UM!Hidden
<1>3. CASE \E p \in Proc :
             \/ \E v \in Vpn, d \in Data : UM!Write(p, v, d)
             \/ \E q \in Proc : UM!Fork(p, q)
             \/ UM!Exec(p) \/ UM!Exit(p)
  BY <1>3, Zenon DEF UM!Next
<1>4. ASSUME NEW p \in Proc, Grow(p), UM!Extend(p, kern[p].lim) PROVE UM!Next
  <2>1. Active(p) /\ kern[p].pc = "grow"
    <3>1. In(p, "grow")
      BY <1>4, Zenon DEF Grow
    <3> QED BY <3>1, RunsActive
  <2>2. kern[p].lim > 0
    <3>1. LoopOK(proc[p], pg[p], kern[p])
      BY <2>1, ActiveOK, Zenon
    <3>2. 0 < proc[p].sz /\ proc[p].sz <= kern[p].a /\ kern[p].a <= kern[p].lim
      BY <2>1, <3>1, Zenon DEF LoopOK, Stage
    <3> QED BY <3>2, Numbers
  <2>3. kern[p].lim - 1 \in Vpn /\ kern[p].lim = (kern[p].lim - 1) + 1
    BY <2>2, Numbers DEF Vpn
  <2>4. kern[p].lim \in {v + 1 : v \in Vpn}
    BY <2>3
  <2> QED BY <1>4, <2>4, Zenon DEF UM!Next
<1>5. ASSUME NEW p \in Proc, ExecDone(p), UM!Load(p, kern[p].lim) PROVE UM!Next
  <2>1. Active(p) /\ kern[p].pc = "exec"
    BY <1>5, ExecDoneEffect, Zenon
  <2>2. kern[p].lim > 0
    <3>1. LoopOK(proc[p], pg[p], kern[p])
      BY <2>1, ActiveOK, Zenon
    <3>2. kern[p].lim \in SpawnSizes \cup ExecSizes
      BY <2>1, <3>1, Zenon DEF LoopOK, Stage
    <3> QED BY <3>2, EnvAssumption, Numbers
  <2>3. kern[p].lim - 1 \in Vpn /\ kern[p].lim = (kern[p].lim - 1) + 1
    BY <2>2, Numbers DEF Vpn
  <2>4. kern[p].lim \in {v + 1 : v \in Vpn}
    BY <2>3
  <2> QED BY <1>5, <2>4, Zenon DEF UM!Next
<1>6. ASSUME NEW p \in Proc, NEW n \in 1 .. NVPN, SbrkDown(p, n),
             UM!Truncate(p, proc[p].sz - n)
      PROVE  UM!Next
  <2>1. n <= proc[p].sz
    BY <1>6, Zenon DEF SbrkDown
  <2>2. proc[p].sz - n \in Vpn
    BY <2>1, Numbers DEF Vpn
  <2> QED BY <1>6, <2>2, Zenon DEF UM!Next
<1> QED BY <1>1, <1>2, <1>3, <1>4, <1>5, <1>6, Zenon DEF UserVisible
=============================================================================
