---------------------------- MODULE BufferCache ----------------------------
(***************************************************************************)
(* The buffer cache and the disk driver (bio.c, ide.c): buffers with       *)
(* reference counts and sleep locks on a list in order of use, a queue of  *)
(* requests, and the interrupt that ends one and starts the next.          *)
(*                                                                         *)
(* A process has a list of operations to do and holds buffers under        *)
(* numbers, as variables of the C code.  A step is what happens under one  *)
(* spin lock.  A process that sleeps is one whose step has to wait, which  *)
(* is what Sleep.tla shows of sleep locks and of wakeup.                   *)
(***************************************************************************)
EXTENDS Naturals, Sequences, SequencesExt, FiniteSets

CONSTANTS
  Proc, Block,
  NBUF,
  Programs      \* what the processes may do: functions from processes to lists

VARIABLES
  buf, lru,     \* the buffers, and their list: the first was used last
  idequeue,     \* buffers with a request, the first of which the disk works on
  busy,         \* the disk works
  disk,
  proc,         \* of each process: what it has to do and the buffers it has
  content,      \* what was last written to each block, for the properties
  panic

vars == <<buf, lru, idequeue, busy, disk, proc, content, panic>>

Buf == 1 .. NBUF
NoBlock == 0
Slot == 1 .. 2

Init ==
  /\ buf = [b \in Buf |-> [block |-> NoBlock, valid |-> FALSE, dirty |-> FALSE, refcnt |-> 0, holder |-> 0, data |-> 0]]
  /\ lru = [i \in Buf |-> NBUF + 1 - i]
  /\ idequeue = <<>>
  /\ busy = FALSE
  /\ disk = [k \in Block |-> 0]
  /\ \E g \in Programs : proc = [p \in Proc |-> [todo |-> g[p], has |-> [i \in Slot |-> 0]]]
  /\ content = [k \in Block |-> 0]
  /\ panic = ""

At(p, op) == panic = "" /\ proc[p].todo # <<>> /\ Head(proc[p].todo)[1] = op
Arg(p, i) == Head(proc[p].todo)[i + 1]
B(p) == proc[p].has[Arg(p, 1)]
Do(p, ops) == proc' = [proc EXCEPT ![p].todo = ops \o Tail(@)]

-----------------------------------------------------------------------------
\* The calls, as lists: x is the number under which the process has the buffer.

iderw(x) == <<<<"iderw", x>>, <<"wait", x>>>>
bread(x, k) == <<<<"bget", x, k>>, <<"acquiresleep", x>>, <<"bread", x>>>>
bwrite(x) == <<<<"bwrite", x>>>> \o iderw(x)
brelse(x) == <<<<"releasesleep", x>>, <<"brelse", x>>>>
\* What the rest of the kernel does with blocks: read one; change one and write it; change
\* one for the log, which keeps it in the cache; copy it to the log and from there home.
readsb(k) == bread(1, k) \o brelse(1)
write_head(k, v) == bread(1, k) \o <<<<"change", 1, v>>>> \o bwrite(1) \o brelse(1)
log_write(k, v) == bread(1, k) \o <<<<"change", 1, v>>, <<"pin", 1>>>> \o brelse(1)
write_log(l, k) == bread(1, l) \o bread(2, k) \o <<<<"copy", 1, 2>>>> \o bwrite(1) \o brelse(2) \o brelse(1)
install_trans(l, k) == bread(1, l) \o bread(2, k) \o <<<<"copy", 2, 1>>>> \o bwrite(2) \o brelse(1) \o brelse(2)

-----------------------------------------------------------------------------
\* Buffers.

\* The places of the buffers that have the block, and of those that can be recycled.
Cached(k) == {i \in Buf : buf[lru[i]].block = k}
\* Mutant: a buffer that waits for its commit is recycled.
Recyclable_dirty == {i \in Buf : buf[lru[i]].refcnt = 0}
Recyclable == {i \in Buf : buf[lru[i]].refcnt = 0 /\ ~buf[lru[i]].dirty}
Gets(p, b) == proc' = [proc EXCEPT ![p].todo = Tail(@), ![p].has[Arg(p, 1)] = b]

\* Mutant: a block that is being read in is not seen.
bget_valid(p) ==
  LET k == Arg(p, 2)
      cached == {i \in Cached(k) : buf[lru[i]].valid}
      b == IF cached # {} THEN lru[Min(cached)] ELSE lru[Max(Recyclable)]
  IN /\ At(p, "bget")
     /\ buf' = IF cached # {} THEN [buf EXCEPT ![b].refcnt = @ + 1]
               ELSE [buf EXCEPT ![b] = [@ EXCEPT !.block = k, !.valid = FALSE, !.dirty = FALSE, !.refcnt = 1]]
     /\ Gets(p, b)
     /\ UNCHANGED <<lru, idequeue, busy, disk, content, panic>>

\* The first buffer with the block, or else the last that nobody uses and that is clean.
bget(p) ==
  LET k == Arg(p, 2)
      found == lru[Min(Cached(k))]
      oldest == lru[Max(Recyclable)]
  IN /\ At(p, "bget")
     /\ IF Cached(k) # {}
        THEN buf' = [buf EXCEPT ![found].refcnt = @ + 1] /\ Gets(p, found) /\ UNCHANGED panic
        ELSE IF Recyclable # {}
        THEN /\ buf' = [buf EXCEPT ![oldest] = [@ EXCEPT !.block = k, !.valid = FALSE, !.dirty = FALSE, !.refcnt = 1]]
             /\ Gets(p, oldest)
             /\ UNCHANGED panic
        ELSE panic' = "bget: no buffers" /\ UNCHANGED <<buf, proc>>
     /\ UNCHANGED <<lru, idequeue, busy, disk, content>>

acquiresleep(p) ==
  /\ At(p, "acquiresleep")
  /\ buf[B(p)].holder = 0
  /\ buf' = [buf EXCEPT ![B(p)].holder = p]
  /\ Do(p, <<>>)
  /\ UNCHANGED <<lru, idequeue, busy, disk, content, panic>>

\* The end of bread: what is not valid is read.
bread_read(p) ==
  /\ At(p, "bread")
  /\ Do(p, IF buf[B(p)].valid THEN <<>> ELSE iderw(Arg(p, 1)))
  /\ UNCHANGED <<buf, lru, idequeue, busy, disk, content, panic>>

bwrite_dirty(p) ==
  /\ At(p, "bwrite")
  /\ panic' = IF buf[B(p)].holder = 0 THEN "bwrite" ELSE ""
  /\ buf' = [buf EXCEPT ![B(p)].dirty = TRUE]
  /\ Do(p, <<>>)
  /\ UNCHANGED <<lru, idequeue, busy, disk, content>>

releasesleep(p) ==
  /\ At(p, "releasesleep")
  /\ panic' = IF buf[B(p)].holder = 0 THEN "brelse" ELSE ""
  /\ buf' = [buf EXCEPT ![B(p)].holder = 0]
  /\ Do(p, <<>>)
  /\ UNCHANGED <<lru, idequeue, busy, disk, content>>

\* A buffer that nobody has or waits for is the one that was used last.
brelse_unref(p) ==
  LET b == B(p)
  IN /\ At(p, "brelse")
     /\ buf' = [buf EXCEPT ![b].refcnt = @ - 1]
     /\ lru' = IF buf[b].refcnt = 1 THEN <<b>> \o SelectSeq(lru, LAMBDA c : c # b) ELSE lru
     /\ proc' = [proc EXCEPT ![p].todo = Tail(@), ![p].has[Arg(p, 1)] = 0]
     /\ UNCHANGED <<idequeue, busy, disk, content, panic>>

\* The owner of a buffer changes it, marks it for the log, or copies another one.
change(p) ==
  /\ At(p, "change")
  /\ buf' = [buf EXCEPT ![B(p)].data = Arg(p, 2)]
  /\ content' = [content EXCEPT ![buf[B(p)].block] = Arg(p, 2)]
  /\ Do(p, <<>>)
  /\ UNCHANGED <<lru, idequeue, busy, disk, panic>>
pin(p) ==
  /\ At(p, "pin")
  /\ buf' = [buf EXCEPT ![B(p)].dirty = TRUE]
  /\ Do(p, <<>>)
  /\ UNCHANGED <<lru, idequeue, busy, disk, content, panic>>
copy(p) ==
  LET to == B(p)
      from == proc[p].has[Arg(p, 2)]
  IN /\ At(p, "copy")
     /\ buf' = [buf EXCEPT ![to].data = buf[from].data]
     /\ content' = [content EXCEPT ![buf[to].block] = content[buf[from].block]]
     /\ Do(p, <<>>)
     /\ UNCHANGED <<lru, idequeue, busy, disk, panic>>

-----------------------------------------------------------------------------
\* The disk.

\* idestart: a write gives its data to the disk at once.
Started(d, b) == IF buf[b].dirty THEN [d EXCEPT ![buf[b].block] = buf[b].data] ELSE d

\* The request goes to the end of the queue, and is started if it is the only one.
iderw_queue(p) ==
  LET b == B(p)
  IN /\ At(p, "iderw")
     /\ panic' = IF buf[b].holder = 0 THEN "iderw: buf not locked"
                 ELSE IF buf[b].valid /\ ~buf[b].dirty THEN "iderw: nothing to do" ELSE ""
     /\ idequeue' = Append(idequeue, b)
     /\ busy' = TRUE
     /\ disk' = IF idequeue = <<>> THEN Started(disk, b) ELSE disk
     /\ Do(p, <<>>)
     /\ UNCHANGED <<buf, lru, content>>

iderw_wait(p) ==
  /\ At(p, "wait")
  /\ buf[B(p)].valid /\ ~buf[B(p)].dirty
  /\ Do(p, <<>>)
  /\ UNCHANGED <<buf, lru, idequeue, busy, disk, content, panic>>

\* Mutant: the next request is not started.
ideintr_stop ==
  LET b == idequeue[1]
  IN /\ panic = "" /\ busy
     /\ idequeue' = Tail(idequeue)
     /\ buf' = [buf EXCEPT ![b] = [@ EXCEPT !.data = IF buf[b].dirty THEN @ ELSE disk[buf[b].block], !.valid = TRUE, !.dirty = FALSE]]
     /\ busy' = FALSE
     /\ UNCHANGED <<lru, disk, proc, content, panic>>
\* The first request is done: the data of a read are there, and the next one starts.
ideintr ==
  LET b == idequeue[1]
      next == Tail(idequeue)
  IN /\ panic = "" /\ busy
     /\ idequeue' = next
     /\ buf' = [buf EXCEPT ![b] = [@ EXCEPT !.data = IF buf[b].dirty THEN @ ELSE disk[buf[b].block],
                                             !.valid = TRUE, !.dirty = FALSE]]
     /\ busy' = (next # <<>>)
     /\ disk' = IF next = <<>> THEN disk ELSE Started(disk, next[1])
     /\ UNCHANGED <<lru, proc, content, panic>>

Step(p) ==
  \/ bget(p) \/ acquiresleep(p) \/ bread_read(p) \/ bwrite_dirty(p) \/ releasesleep(p) \/ brelse_unref(p)
  \/ change(p) \/ pin(p) \/ copy(p) \/ iderw_queue(p) \/ iderw_wait(p)

Next == ideintr \/ \E p \in Proc : Step(p)

\* Every process that can run does, and the disk ends what it works on.
Spec == Init /\ [][Next]_vars /\ WF_vars(ideintr) /\ \A p \in Proc : WF_vars(Step(p))
=============================================================================
