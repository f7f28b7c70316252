-------------------------------- MODULE Log --------------------------------
(***************************************************************************)
(* The redo log of the file system (log.c): begin_op, log_write, end_op,   *)
(* the commit, crashes at any point and the recovery at boot.              *)
(*                                                                         *)
(* log.lock makes begin_op and end_op atomic; log_write takes it only      *)
(* after its checks, so it is two steps, and the commit runs without it,   *)
(* one step per disk write.  A disk write of one block is atomic (BSIZE is *)
(* the sector size).  The buffer cache is a function from blocks to        *)
(* contents; a buffer that is neither locked nor B_DIRTY may be recycled   *)
(* at any time and is then read again from the disk.                       *)
(***************************************************************************)
EXTENDS Integers, Sequences, FiniteSets

CONSTANTS
  Proc,          \* processes in file system calls
  Block,         \* blocks outside the log
  Data,          \* what a block may contain
  Zero,          \* a block of zeroes
  MAXOPBLOCKS,   \* blocks that begin_op reserves for an operation (param.h)
  LOGSIZE,       \* entries of the log header (param.h)
  log_size,      \* blocks of the log on disk, header included (mkfs.c)
  OpBlocks,      \* blocks that an operation really writes
  Depth,         \* 1: system calls; 2: exec too, which begins an operation
                 \* inside an operation
  MaxOps         \* bound on the number of begin_op calls between two boots

ASSUME LogAssumption ==
  /\ MAXOPBLOCKS \in Nat /\ LOGSIZE \in Nat /\ log_size \in Nat
  /\ OpBlocks \in 1 .. MAXOPBLOCKS /\ MAXOPBLOCKS <= LOGSIZE /\ log_size <= LOGSIZE + 1
  /\ Depth \in 1 .. 2 /\ MaxOps \in Nat /\ Zero \in Data

VARIABLES
  home,          \* the blocks on disk
  dlog,          \* the log's data blocks on disk
  dhead,         \* the log's header block on disk
  cache,         \* the buffer cache
  dirty,         \* cached blocks with B_DIRTY
  lh,            \* log.lh
  outstanding,   \* log.outstanding
  committing,    \* log.committing
  pc,            \* what each process does
  depth,         \* operations that each process has begun and not ended
  wrote,         \* blocks that each process has written in its operation
  held,          \* the buffer that each process holds in log_write
  tail,          \* the loop variable of write_log and install_trans
  boot,          \* what the boot is doing: "up" once initlog is done
  ops,           \* begin_op calls since boot
  panic

disk == <<home, dlog, dhead>>
memory == <<cache, dirty, lh, outstanding, committing, pc, depth, wrote, held, tail, ops>>
vars == <<disk, memory, boot, panic>>

PC == {"run", "log_write", "sleep", "woken", "write_log", "write_head", "install_trans", "clear", "done"}

TypeOK ==
  /\ home \in [Block -> Data] /\ cache \in [Block -> Data] /\ dirty \subseteq Block
  /\ dlog \in [1 .. LOGSIZE -> Data]
  /\ dhead \in Seq(Block) /\ Len(dhead) <= LOGSIZE
  /\ lh \in Seq(Block) /\ Len(lh) <= LOGSIZE
  /\ outstanding \in Nat /\ committing \in BOOLEAN
  /\ pc \in [Proc -> PC] /\ depth \in [Proc -> 0 .. Depth]
  /\ wrote \in [Proc -> SUBSET Block] /\ held \in [Proc -> SUBSET Block] /\ tail \in 0 .. LOGSIZE
  /\ boot \in {"read_head", "install_trans", "up"} /\ ops \in Nat
  /\ panic \in {"", "log.committing", "too big a transaction", "log_write outside of trans"}

Init ==
  /\ home \in [Block -> Data] /\ dlog = [i \in 1 .. LOGSIZE |-> Zero]
  /\ dhead = <<>>
  /\ cache = home /\ dirty = {} /\ lh = <<>> /\ outstanding = 0 /\ committing = FALSE
  /\ pc = [p \in Proc |-> "run"] /\ depth = [p \in Proc |-> 0]
  /\ wrote = [p \in Proc |-> {}] /\ held = [p \in Proc |-> {}] /\ tail = 0 /\ ops = 0
  /\ boot = "read_head" /\ panic = ""

Up == panic = "" /\ boot = "up"

-----------------------------------------------------------------------------
\* wakeup(&log)
Woken(f) == [p \in Proc |-> IF f[p] = "sleep" THEN "woken" ELSE f[p]]

\* Mutant: the operations in progress are not counted.
HasRoomForOne == Len(lh) + MAXOPBLOCKS <= LOGSIZE
\* The log has room for one more operation than the outstanding ones.
HasRoom == Len(lh) + (outstanding + 1) * MAXOPBLOCKS <= LOGSIZE

\* A process calls begin_op, or wakes up in it.
begin_op(p) ==
  /\ Up /\ pc[p] \in {"run", "woken"}
  /\ pc[p] = "run" => depth[p] < Depth /\ ops < MaxOps
  /\ IF committing \/ ~HasRoom
     THEN /\ pc' = [pc EXCEPT ![p] = "sleep"]
          /\ UNCHANGED <<outstanding, depth>>
     ELSE /\ outstanding' = outstanding + 1
          /\ pc' = [pc EXCEPT ![p] = "run"]
          /\ depth' = [depth EXCEPT ![p] = @ + 1]
  /\ ops' = IF pc[p] = "run" THEN ops + 1 ELSE ops
  /\ UNCHANGED <<disk, cache, dirty, lh, committing, wrote, held, tail, boot, panic>>

\* A process modifies a block it has locked and calls log_write, which checks
\* the size of the transaction before it takes log.lock.
log_write(p, b, d) ==
  /\ Up /\ pc[p] = "run" /\ depth[p] > 0
  /\ \A q \in Proc : b \notin held[q]
  /\ b \in wrote[p] \/ Cardinality(wrote[p]) < depth[p] * OpBlocks
  /\ cache' = [cache EXCEPT ![b] = d]
  /\ wrote' = [wrote EXCEPT ![p] = @ \cup {b}] /\ held' = [held EXCEPT ![p] = {b}]
  /\ panic' = IF Len(lh) >= LOGSIZE \/ Len(lh) >= log_size - 1 THEN "too big a transaction"
              ELSE IF outstanding < 1 THEN "log_write outside of trans" ELSE ""
  /\ pc' = [pc EXCEPT ![p] = "log_write"]
  /\ UNCHANGED <<disk, dirty, lh, outstanding, committing, depth, tail, boot, ops>>

\* Log absorption: the header has a block once.
Recorded(b) == IF \E i \in 1 .. Len(lh) : lh[i] = b THEN lh ELSE Append(lh, b)

\* Mutant: the buffer is not pinned.
record_unpinned(p) ==
  /\ Up /\ pc[p] = "log_write"
  /\ \E b \in held[p] : lh' = Recorded(b)
  /\ held' = [held EXCEPT ![p] = {}] /\ pc' = [pc EXCEPT ![p] = "run"]
  /\ UNCHANGED <<disk, cache, dirty, outstanding, committing, depth, wrote, tail, boot, ops, panic>>

\* The rest of log_write, under log.lock; the caller then releases the buffer.
record(p) ==
  /\ Up /\ pc[p] = "log_write"
  /\ \E b \in held[p] : lh' = Recorded(b) /\ dirty' = dirty \cup {b}
  /\ held' = [held EXCEPT ![p] = {}] /\ pc' = [pc EXCEPT ![p] = "run"]
  /\ UNCHANGED <<disk, cache, outstanding, committing, depth, wrote, tail, boot, ops, panic>>

\* The operation that ends has no more blocks to write.
Ended(p) ==
  /\ depth' = [depth EXCEPT ![p] = @ - 1]
  /\ wrote' = IF depth[p] = 1 THEN [wrote EXCEPT ![p] = {}] ELSE wrote

\* Mutant: end_op commits although other operations are in progress.
end_op_commits(p) ==
  /\ Up /\ pc[p] = "run" /\ depth[p] > 0 /\ ~committing
  /\ outstanding' = outstanding - 1 /\ Ended(p)
  /\ committing' = TRUE /\ tail' = 0
  /\ pc' = [pc EXCEPT ![p] = IF lh = <<>> THEN "done" ELSE "write_log"]
  /\ UNCHANGED <<disk, cache, dirty, lh, held, boot, ops, panic>>

\* end_op up to its call of commit, which does nothing if the header is empty.
end_op(p) ==
  /\ Up /\ pc[p] = "run" /\ depth[p] > 0
  /\ outstanding' = outstanding - 1 /\ Ended(p)
  /\ panic' = IF committing THEN "log.committing" ELSE ""
  /\ IF outstanding = 1
     THEN /\ committing' = TRUE /\ tail' = 0
          /\ pc' = [pc EXCEPT ![p] = IF lh = <<>> THEN "done" ELSE "write_log"]
     ELSE pc' = Woken(pc) /\ UNCHANGED <<committing, tail>>
  /\ UNCHANGED <<disk, cache, dirty, lh, held, boot, ops>>

-----------------------------------------------------------------------------
\* commit: the cached blocks go to the log, one disk write each.
write_log(p) ==
  /\ Up /\ pc[p] = "write_log"
  /\ dlog' = [dlog EXCEPT ![tail + 1] = cache[lh[tail + 1]]]
  /\ IF tail + 1 = Len(lh)
     THEN tail' = 0 /\ pc' = [pc EXCEPT ![p] = "write_head"]
     ELSE tail' = tail + 1 /\ UNCHANGED pc
  /\ UNCHANGED <<home, dhead, cache, dirty, lh, outstanding, committing, depth, wrote, held,
                 boot, ops, panic>>

\* The commit point.
write_head(p) ==
  /\ Up /\ pc[p] = "write_head"
  /\ dhead' = lh /\ pc' = [pc EXCEPT ![p] = "install_trans"]
  /\ UNCHANGED <<home, dlog, cache, dirty, lh, outstanding, committing, depth, wrote, held, tail,
                 boot, ops, panic>>

\* A turn of install_trans: the block goes from the log to its place, and its
\* buffer is clean.
InstallOne ==
  /\ home' = [home EXCEPT ![lh[tail + 1]] = dlog[tail + 1]]
  /\ cache' = [cache EXCEPT ![lh[tail + 1]] = dlog[tail + 1]]
  /\ dirty' = dirty \ {lh[tail + 1]}

install_trans(p) ==
  /\ Up /\ pc[p] = "install_trans"
  /\ InstallOne
  /\ IF tail + 1 = Len(lh)
     THEN tail' = 0 /\ pc' = [pc EXCEPT ![p] = "clear"]
     ELSE tail' = tail + 1 /\ UNCHANGED pc
  /\ UNCHANGED <<dlog, dhead, lh, outstanding, committing, depth, wrote, held, boot, ops, panic>>

\* Mutant: the transaction stays in the log on disk.
clear_in_memory(p) ==
  /\ Up /\ pc[p] = "clear"
  /\ lh' = <<>> /\ pc' = [pc EXCEPT ![p] = "done"]
  /\ UNCHANGED <<disk, cache, dirty, outstanding, committing, depth, wrote, held, tail,
                 boot, ops, panic>>

\* log.lh.n = 0 and the second write_head of commit.
clear(p) ==
  /\ Up /\ pc[p] = "clear"
  /\ lh' = <<>> /\ dhead' = <<>> /\ pc' = [pc EXCEPT ![p] = "done"]
  /\ UNCHANGED <<home, dlog, cache, dirty, outstanding, committing, depth, wrote, held, tail,
                 boot, ops, panic>>

\* Mutant: nobody is woken at the end of a commit.
done_silent(p) ==
  /\ Up /\ pc[p] = "done"
  /\ committing' = FALSE /\ pc' = [pc EXCEPT ![p] = "run"]
  /\ UNCHANGED <<disk, cache, dirty, lh, outstanding, depth, wrote, held, tail, boot, ops, panic>>

\* end_op after its call of commit.
done(p) ==
  /\ Up /\ pc[p] = "done"
  /\ committing' = FALSE /\ pc' = [Woken(pc) EXCEPT ![p] = "run"]
  /\ UNCHANGED <<disk, cache, dirty, lh, outstanding, depth, wrote, held, tail, boot, ops, panic>>

-----------------------------------------------------------------------------
\* bget recycles the buffer of b, and the next bread reads it from the disk.
Recycle(b) ==
  /\ Up /\ b \notin dirty /\ \A p \in Proc : b \notin held[p]
  /\ cache' = [cache EXCEPT ![b] = home[b]]
  /\ UNCHANGED <<disk, dirty, lh, outstanding, committing, pc, depth, wrote, held, tail,
                 boot, ops, panic>>

\* The machine stops, and starts again with its memory lost.
Crash ==
  /\ panic = "" /\ boot \in {"up", "install_trans"}
  /\ boot' = "read_head"
  /\ cache' = home /\ dirty' = {} /\ lh' = <<>> /\ outstanding' = 0 /\ committing' = FALSE
  /\ pc' = [p \in Proc |-> "run"] /\ depth' = [p \in Proc |-> 0]
  /\ wrote' = [p \in Proc |-> {}] /\ held' = [p \in Proc |-> {}] /\ tail' = 0 /\ ops' = 0
  /\ UNCHANGED <<disk, panic>>

read_head ==
  /\ panic = "" /\ boot = "read_head"
  /\ lh' = dhead
  /\ boot' = "install_trans"
  /\ UNCHANGED <<disk, cache, dirty, outstanding, committing, pc, depth, wrote, held, tail, ops, panic>>

\* A turn of install_trans at boot, and at its end log.lh.n = 0 and write_head.
recover_from_log ==
  /\ panic = "" /\ boot = "install_trans"
  /\ IF tail < Len(lh)
     THEN /\ InstallOne
          /\ tail' = tail + 1
          /\ UNCHANGED <<dhead, lh, boot>>
     ELSE /\ lh' = <<>> /\ dhead' = <<>> /\ tail' = 0 /\ boot' = "up"
          /\ UNCHANGED <<home, cache, dirty>>
  /\ UNCHANGED <<dlog, outstanding, committing, pc, depth, wrote, held, ops, panic>>

-----------------------------------------------------------------------------
Step(p) ==
  \/ pc[p] = "woken" /\ begin_op(p)
  \/ record(p) \/ end_op(p)
  \/ write_log(p) \/ write_head(p) \/ install_trans(p) \/ clear(p) \/ done(p)

Next ==
  \/ \E p \in Proc : Step(p) \/ begin_op(p) \/ \E b \in Block, d \in Data : log_write(p, b, d)
  \/ \E b \in Block : Recycle(b)
  \/ Crash \/ read_head \/ recover_from_log

Spec == Init /\ [][Next]_vars

\* The scheduler runs every process that is not asleep, and an operation writes
\* finitely often before it ends; nothing obliges a process to begin one or to
\* write, and nothing obliges the machine to crash.
FairSpec ==
  /\ Spec
  /\ \A p \in Proc : WF_vars(Step(p)) /\ SF_vars(end_op(p))
  /\ WF_vars(read_head \/ recover_from_log)

-----------------------------------------------------------------------------
\* What recovery would leave on disk: the log's blocks over their homes.
Durable ==
  [b \in Block |->
     IF \E i \in 1 .. Len(dhead) : dhead[i] = b
     THEN dlog[CHOOSE i \in 1 .. Len(dhead) : dhead[i] = b] ELSE home[b]]

\* Buffers locked by a writer.
Locked == UNION {held[p] : p \in Proc}

\* What bread returns once the machine is up, with the dirty buffers pinned.
Readable == IF boot = "up" THEN [b \in Block |-> IF b \in dirty \cup Locked THEN cache[b] ELSE home[b]]
            ELSE Durable

\* log.c: "there is never any reasoning required about whether a commit might
\* write an uncommitted system call's updates to disk".  Whatever the
\* interleaving, and wherever the machine stops, all the updates of finished
\* operations reach the disk in one step and none of an unfinished one.
AD == INSTANCE AtomicDisk WITH disk <- Durable, cache <- Readable, active <- outstanding
DiskIsAtomic == AD!Spec

\* A block that is not pinned in the cache can be recycled without losing an
\* update, so bread always finds the last contents.
CacheCoherent == boot = "up" /\ panic = "" => \A b \in Block \ (dirty \cup Locked) : cache[b] = home[b]

\* begin_op reserves enough room: neither log_write nor end_op ever panics, and
\* the header never overflows.
NoPanic == panic = ""

\* Between operations the log is empty and everything is in its place.
QuietIsDurable ==
  boot = "up" /\ outstanding = 0 /\ ~committing /\ panic = "" =>
    /\ dhead = <<>> /\ lh = <<>> /\ dirty = {} /\ home = cache

\* log.c: begin_op "sleeps until the last outstanding end_op() commits": once no
\* more operations begin, every process that waits in begin_op has been let in
\* and the last commit is on disk.
OpsFinish == (outstanding > 0 \/ committing) ~> (outstanding = 0 /\ ~committing /\ \A p \in Proc : pc[p] = "run")
=============================================================================
