----------------------------- MODULE FileSystem -----------------------------
(***************************************************************************)
(* The file system of fs.c, file.c and sysfile.c as processes use it at the *)
(* same time: the inode cache with its sleep locks and reference counts,   *)
(* path lookup, the table of open files, the system calls on files, and    *)
(* what exec, fork and exit do to files, the swap file included.           *)
(*                                                                         *)
(* A process in the kernel has a list todo of the operations that are left *)
(* of its system call; an operation is a step between two places where the *)
(* code may wait for the sleep lock of an inode.  What a step does to an   *)
(* inode it does with that inode's lock held, so nobody sees it half done. *)
(* The log always has room here: the behaviours are those in which         *)
(* begin_op does not wait.  Log.tla shows that an operation that is not    *)
(* inside another is let in after a while; the ones that exec begins       *)
(* inside its own may wait for ever (LogNested.cfg), and such executions   *)
(* go no further than this model takes them.  A crash leaves the disk as   *)
(* it was when the last operation that was under way ended.                *)
(***************************************************************************)
EXTENDS FsDisk

CONSTANTS
  Proc,         \* process slots, 1 .. NPROC
  NINODE,       \* entries of the inode cache
  NFILE,        \* entries of the table of open files
  NOFILE,       \* descriptors of a process
  MaxWrite,     \* cells that filewrite writes in one operation
  Image,        \* the files mkfs is given
  Workloads     \* the scripts of system calls that the first processes run

VARIABLES disk, icache, ftable, proc, outstanding, failures, panic

vars == <<disk, icache, ftable, proc, outstanding, failures, panic>>

Slot == 1 .. NINODE
File == 1 .. NFILE
Fd == 0 .. NOFILE - 1
ELF_MAGIC == 9
RDONLY == {"RDONLY"}
\* "/.swap" and the number of the process: the slot for the code's pid, since a slot
\* is free again only after its swap file is gone.
SwapName == <<".swap1", ".swap2", ".swap3">>

\* The lock of a slot is held by a process, or 0.
EmptySlot == [inum |-> 0, ref |-> 0, valid |-> FALSE, holder |-> 0, ino |-> FreeInode]
NoFile == [ref |-> 0, type |-> "none", ip |-> 0, off |-> 0, readable |-> FALSE, writable |-> FALSE]
NoProc == [state |-> "unused", parent |-> 0, ofile |-> [fd \in Fd |-> 0], cwd |-> 0, swapFile |-> 0,
           prog |-> <<>>, todo |-> <<>>, called |-> FALSE, ip |-> 0, path |-> <<>>, name |-> "",
           res |-> 0, data |-> <<>>, fds |-> [v \in {"fd", "fd1"} |-> -1]]

\* The processes of a workload start in the root directory, with no open files.
Init ==
  \E w \in Workloads :
    /\ disk = mkfs(Image)
    /\ icache = [s \in Slot |-> IF s = 1 THEN [EmptySlot EXCEPT !.inum = ROOTINO, !.ref = Cardinality(DOMAIN w)]
                                ELSE EmptySlot]
    /\ ftable = [f \in File |-> NoFile]
    /\ proc = [p \in Proc |-> IF p \in DOMAIN w
                              THEN [NoProc EXCEPT !.state = "run", !.cwd = 1, !.prog = w[p]]
                              ELSE NoProc]
    /\ outstanding = 0
    /\ failures = {}
    /\ panic = ""

-----------------------------------------------------------------------------
\* Where a process is, and what it does next.

At(p, op) == panic = "" /\ proc[p].todo # <<>> /\ Head(proc[p].todo)[1] = op
Arg(p, i) == Head(proc[p].todo)[i + 1]
Rest(p) == Tail(proc[p].todo)
Goes(p, todo) == [proc[p] EXCEPT !.todo = todo]
Becomes(p, r) == proc' = [proc EXCEPT ![p] = r]
Returns(p, v, todo) == Becomes(p, [Goes(p, todo) EXCEPT !.res = v])

-----------------------------------------------------------------------------
\* The inode cache.

\* The slot that iget finds or takes for an inode, 0 if there is none.
SlotOf(ic, inum) ==
  LET same == {s \in Slot : ic[s].ref > 0 /\ ic[s].inum = inum}
      empty == {s \in Slot : ic[s].ref = 0}
  IN IF same # {} THEN Min(same) ELSE IF empty # {} THEN Min(empty) ELSE 0

iget(ic, inum) ==
  LET s == SlotOf(ic, inum)
  IN IF s = 0 THEN ic
     ELSE [ic EXCEPT ![s] = IF @.ref > 0 THEN [@ EXCEPT !.ref = @ + 1]
                            ELSE [@ EXCEPT !.inum = inum, !.ref = 1, !.valid = FALSE]]
IgetPanic(ic, inum) == IF SlotOf(ic, inum) = 0 THEN "iget: no inodes" ELSE ""

idup(ic, s) == [ic EXCEPT ![s].ref = @ + 1]

\* The inode that ilock leaves in the slot: the cached copy, or the disk's.
Ino(s) == IF icache[s].valid THEN icache[s].ino ELSE disk.inode[icache[s].inum]

\* The lock is free; the panics of ilock.
Unlocked(s) == icache[s].holder = 0
IlockPanic(s) ==
  IF icache[s].ref < 1 THEN "ilock"
  ELSE IF ~icache[s].valid /\ Ino(s).type = "none" THEN "ilock: no type" ELSE ""

\* The cache with slot s locked by h (0 after iunlock), holding inode ip.
Holding(ic, s, h, ip) == [ic EXCEPT ![s] = [@ EXCEPT !.holder = h, !.valid = TRUE, !.ino = ip]]
iunlock(ic, s) == [ic EXCEPT ![s].holder = 0]

\* Mutant: the lock is released only when the inode is freed.
iput_locked(p) ==
  /\ At(p, "iput")
  /\ LET s == Arg(p, 1)
         last == icache[s].valid /\ icache[s].ino.nlink = 0 /\ icache[s].ref = 1
     IN /\ Unlocked(s)
        /\ icache' = [icache EXCEPT ![s].holder = p]
        /\ Becomes(p, Goes(p, <<<<IF last THEN "ifree" ELSE "iunref", s>>>> \o Rest(p)))
  /\ UNCHANGED <<disk, ftable, outstanding, failures, panic>>
\* Mutant: the other references are not looked at.
iput_any(p) ==
  /\ At(p, "iput")
  /\ LET s == Arg(p, 1)
         last == icache[s].valid /\ icache[s].ino.nlink = 0
     IN /\ Unlocked(s)
        /\ icache' = [icache EXCEPT ![s].holder = IF last THEN p ELSE 0]
        /\ Becomes(p, Goes(p, <<<<IF last THEN "ifree" ELSE "iunref", s>>>> \o Rest(p)))
  /\ UNCHANGED <<disk, ftable, outstanding, failures, panic>>
\* iput: with the lock held, an inode without links and without other references
\* is to be freed; any other only loses the reference.
iput(p) ==
  /\ At(p, "iput")
  /\ LET s == Arg(p, 1)
         last == icache[s].valid /\ icache[s].ino.nlink = 0 /\ icache[s].ref = 1
     IN /\ Unlocked(s)
        /\ icache' = [icache EXCEPT ![s].holder = IF last THEN p ELSE 0]
        /\ Becomes(p, Goes(p, <<<<IF last THEN "ifree" ELSE "iunref", s>>>> \o Rest(p)))
  /\ UNCHANGED <<disk, ftable, outstanding, failures, panic>>

\* The content is truncated, the inode freed on disk, the slot marked invalid, and
\* the lock released.
ifree(p) ==
  /\ At(p, "ifree")
  /\ LET s == Arg(p, 1)
         i == icache[s].inum
     IN /\ disk' = iupdate(itrunc(disk, i, icache[s].ino), i, [Truncated(icache[s].ino) EXCEPT !.type = "none"])
        /\ icache' = [icache EXCEPT ![s].valid = FALSE, ![s].ino = FreeInode, ![s].holder = 0]
        /\ panic' = IF FreesFreeBlock(disk, icache[s].ino) THEN "freeing free block" ELSE ""
        /\ Becomes(p, Goes(p, <<<<"iunref", s>>>> \o Rest(p)))
  /\ UNCHANGED <<ftable, outstanding, failures>>

iunref(p) ==
  /\ At(p, "iunref")
  /\ icache' = [icache EXCEPT ![Arg(p, 1)].ref = @ - 1]
  /\ Becomes(p, Goes(p, Rest(p)))
  /\ UNCHANGED <<disk, ftable, outstanding, failures, panic>>

\* iunlock as a step of its own, for locks that are held across a wait.
IunlockStep(p) ==
  /\ At(p, "iunlock")
  /\ icache' = iunlock(icache, Arg(p, 1))
  /\ Becomes(p, Goes(p, Rest(p)))
  /\ UNCHANGED <<disk, ftable, outstanding, failures, panic>>

-----------------------------------------------------------------------------
\* Path lookup.  A path is a sequence of names, with "/" first if it is absolute.

\* The start of namex: the root directory or the current one.
Absolute(path) == path # <<>> /\ path[1] = "/"
StartSlot(ic, r, path) == IF Absolute(path) THEN SlotOf(ic, ROOTINO) ELSE r.cwd
Started(ic, r, path) == IF Absolute(path) THEN iget(ic, ROOTINO) ELSE idup(ic, r.cwd)
Lookup(p, ic, r, path, todo) ==
  /\ icache' = Started(ic, r, path)
  /\ Becomes(p, [r EXCEPT !.ip = StartSlot(ic, r, path), !.todo = todo,
                          !.path = IF Absolute(path) THEN Tail(path) ELSE path])

Walking(p) == At(p, "namei") \/ At(p, "nameiparent")
\* Mutant: namex does not drop the directory where it stops.
NoInode_leak(p, s) == [Goes(p, Rest(p)) EXCEPT !.ip = 0]
\* namex or create returns 0, and drops the inode it has.
NoInode(p, s) == [Goes(p, <<<<"iput", s>>>> \o Rest(p)) EXCEPT !.ip = 0]

\* No element is left: namei returns the inode, nameiparent has no parent to return.
namex_end(p) ==
  /\ Walking(p)
  /\ proc[p].path = <<>>
  /\ Becomes(p, IF At(p, "nameiparent") THEN NoInode(p, proc[p].ip) ELSE Goes(p, Rest(p)))
  /\ UNCHANGED <<disk, icache, ftable, outstanding, failures, panic>>

\* An element is left: with the directory locked, it is the parent that was asked
\* for, or it has no such entry or is no directory, or the entry is next.
namex_element(p) ==
  LET s == proc[p].ip
      dp == Ino(s)
      name == Head(proc[p].path)
      inum == dirlookup(disk, dp, name)
      ic == Holding(icache, s, 0, dp)
      parent == At(p, "nameiparent") /\ Len(proc[p].path) = 1
  IN /\ Walking(p)
     /\ proc[p].path # <<>>
     /\ Unlocked(s)
     /\ \/ /\ dp.type # "dir" \/ (~parent /\ inum = 0)
           /\ Becomes(p, NoInode(p, s))
           /\ icache' = ic
           /\ panic' = IlockPanic(s)
        \/ /\ dp.type = "dir" /\ parent
           /\ Becomes(p, [Goes(p, Rest(p)) EXCEPT !.name = name])
           /\ icache' = ic
           /\ panic' = IlockPanic(s)
        \/ /\ dp.type = "dir" /\ ~parent /\ inum # 0
           /\ Becomes(p, [Goes(p, <<<<"iput", s>>>> \o proc[p].todo)
                            EXCEPT !.ip = SlotOf(ic, inum), !.path = Tail(@)])
           /\ icache' = iget(ic, inum)
           /\ panic' = IgetPanic(ic, inum)
     /\ UNCHANGED <<disk, ftable, outstanding, failures>>

-----------------------------------------------------------------------------
\* Operations of the log: the last one to end commits.

end_op(p) ==
  /\ At(p, "end_op")
  /\ outstanding' = outstanding - 1
  /\ Becomes(p, Goes(p, Rest(p)))
  /\ UNCHANGED <<disk, icache, ftable, failures, panic>>

-----------------------------------------------------------------------------
\* create: the inode that it returns is locked.

\* Without the parent directory there is nothing to create.
create_noparent(p) ==
  /\ At(p, "create")
  /\ proc[p].ip = 0
  /\ Becomes(p, Goes(p, Rest(p)))
  /\ UNCHANGED <<disk, icache, ftable, outstanding, failures, panic>>

\* The name exists: its inode is wanted instead.
create_found(p) ==
  LET s == proc[p].ip
      inum == dirlookup(disk, Ino(s), proc[p].name)
      ic == Holding(icache, s, 0, Ino(s))
  IN /\ At(p, "create")
     /\ s # 0
     /\ Unlocked(s)
     /\ inum # 0
     /\ icache' = iget(ic, inum)
     /\ panic' = IgetPanic(ic, inum)
     /\ Becomes(p, [Goes(p, <<<<"iput", s>>, <<"create_found", Arg(p, 1)>>>> \o Rest(p))
                      EXCEPT !.ip = SlotOf(ic, inum)])
     /\ UNCHANGED <<disk, ftable, outstanding, failures>>

\* It is returned if it is a file and a file was asked for.
create_existing(p) ==
  LET s == proc[p].ip
      match == Arg(p, 1) = "file" /\ Ino(s).type = "file"
  IN /\ At(p, "create_found")
     /\ Unlocked(s)
     /\ panic' = IlockPanic(s)
     /\ icache' = Holding(icache, s, IF match THEN p ELSE 0, Ino(s))
     /\ Becomes(p, IF match THEN Goes(p, Rest(p)) ELSE NoInode(p, s))
     /\ UNCHANGED <<disk, ftable, outstanding, failures>>

\* The name is new: ialloc takes the first free inode.
create_ialloc(p) ==
  LET s == proc[p].ip
      free == Inum \ Allocated(disk)
      inum == IF free = {} THEN 1 ELSE Min(free)
      ic == Holding(icache, s, p, Ino(s))
  IN /\ At(p, "create")
     /\ s # 0
     /\ Unlocked(s)
     /\ dirlookup(disk, Ino(s), proc[p].name) = 0
     /\ disk' = iupdate(disk, inum, NewInode(Arg(p, 1)))
     /\ icache' = iget(ic, inum)
     /\ panic' = IF IlockPanic(s) # "" THEN IlockPanic(s)
                 ELSE IF free = {} THEN "ialloc: no inodes" ELSE IgetPanic(ic, inum)
     /\ Becomes(p, [Goes(p, <<<<"create_new", Arg(p, 1), s>>>> \o Rest(p)) EXCEPT !.ip = SlotOf(ic, inum)])
     /\ UNCHANGED <<ftable, outstanding, failures>>

\* A new directory's entries for itself and its parent.
Dots(d, inum, ip, dnum) ==
  LET dot == dirlink(d, inum, ip, ".", inum) IN dirlink(dot.d, inum, dot.ip, "..", dnum)

\* Mutant: a new directory does not count as a link to its parent.
create_new_nolink(p) ==
  LET s == Arg(p, 2)
      t == proc[p].ip
      dnum == icache[s].inum
      inum == icache[t].inum
      ip == [Ino(t) EXCEPT !.nlink = 1]
      dir == Arg(p, 1) = "dir"
      made == IF dir THEN Dots(iupdate(disk, inum, ip), inum, ip, dnum)
              ELSE [d |-> iupdate(disk, inum, ip), ip |-> ip]
      named == dirlink(made.d, dnum, icache[s].ino, proc[p].name, inum)
  IN /\ At(p, "create_new")
     /\ Unlocked(t)
     /\ disk' = named.d
     /\ icache' = Holding(Holding(icache, t, p, made.ip), s, 0, named.ip)
     /\ Becomes(p, Goes(p, <<<<"iput", s>>>> \o Rest(p)))
     /\ UNCHANGED <<ftable, outstanding, failures, panic>>
\* With both locked the inode gets its link and, in a directory, its entries; the
\* parent gets the name.  The parent is unlocked and dropped, the inode stays locked.
create_new(p) ==
  LET s == Arg(p, 2)
      t == proc[p].ip
      dnum == icache[s].inum
      inum == icache[t].inum
      dir == Arg(p, 1) = "dir"
      ip == [Ino(t) EXCEPT !.nlink = 1]
      dp == [icache[s].ino EXCEPT !.nlink = IF dir THEN @ + 1 ELSE @]
      d == iupdate(iupdate(disk, inum, ip), dnum, dp)
      made == IF dir THEN Dots(d, inum, ip, dnum) ELSE [d |-> d, ip |-> ip]
      named == dirlink(made.d, dnum, dp, proc[p].name, inum)
  IN /\ At(p, "create_new")
     /\ Unlocked(t)
     /\ disk' = named.d
     /\ icache' = Holding(Holding(icache, t, p, made.ip), s, 0, named.ip)
     /\ panic' = IF IlockPanic(t) # "" THEN IlockPanic(t)
                 ELSE IF Refused(dp, EmptyPlace(Entries(made.d, dp)), 1) THEN "dirlink" ELSE ""
     /\ Becomes(p, Goes(p, <<<<"iput", s>>>> \o Rest(p)))
     /\ UNCHANGED <<ftable, outstanding, failures>>

-----------------------------------------------------------------------------
\* open, mkdir and mknod after the lookup.

FreeFiles == {f \in File : ftable[f].ref = 0}
FreeFds(p) == {fd \in Fd : proc[p].ofile[fd] = 0}

\* Nothing was found or created.
open_noinode(p) ==
  /\ At(p, "open") \/ At(p, "mkdir")
  /\ proc[p].ip = 0
  /\ Returns(p, -1, <<<<"end_op">>>> \o Rest(p))
  /\ UNCHANGED <<disk, icache, ftable, outstanding, failures, panic>>

\* The inode is locked, by create or now.  A directory is opened for reading only;
\* without a file structure or a descriptor the open fails; the file that
\* filealloc had found is closed again, before it has a type.
open_inode(p) ==
  LET s == proc[p].ip
      mode == Arg(p, 1)
      dir == "CREATE" \notin mode /\ Ino(s).type = "dir" /\ mode # RDONLY
      fails == dir \/ FreeFiles = {} \/ FreeFds(p) = {}
      f == Min(FreeFiles)
      fd == Min(FreeFds(p))
  IN /\ At(p, "open")
     /\ s # 0
     /\ "CREATE" \in mode \/ Unlocked(s)
     /\ panic' = IF "CREATE" \in mode THEN "" ELSE IlockPanic(s)
     /\ icache' = Holding(icache, s, 0, Ino(s))
     /\ \/ /\ fails
           /\ Returns(p, -1, <<<<"iput", s>>, <<"end_op">>>> \o Rest(p))
           /\ UNCHANGED ftable
        \/ /\ ~fails
           /\ ftable' = [ftable EXCEPT ![f] = [ref |-> 1, type |-> "inode", ip |-> s, off |-> 0,
                                               readable |-> "WRONLY" \notin mode,
                                               writable |-> mode \cap {"WRONLY", "RDWR"} # {}]]
           /\ Becomes(p, [Goes(p, <<<<"end_op">>>> \o Rest(p)) EXCEPT !.ofile[fd] = f, !.res = fd])
     /\ UNCHANGED <<disk, outstanding, failures>>

\* mkdir and mknod drop what they created.
mkdir_inode(p) ==
  /\ At(p, "mkdir")
  /\ proc[p].ip # 0
  /\ icache' = iunlock(icache, proc[p].ip)
  /\ Returns(p, 0, <<<<"iput", proc[p].ip>>, <<"end_op">>>> \o Rest(p))
  /\ UNCHANGED <<disk, ftable, outstanding, failures, panic>>

-----------------------------------------------------------------------------
\* link.

link_noinode(p) ==
  /\ At(p, "link")
  /\ proc[p].ip = 0
  /\ Returns(p, -1, <<<<"end_op">>>>)
  /\ UNCHANGED <<disk, icache, ftable, outstanding, failures, panic>>

\* The count of links is raised first; then the parent of the new name is looked up.
link_inode(p) ==
  LET s == proc[p].ip
      ip == [Ino(s) EXCEPT !.nlink = @ + 1]
  IN /\ At(p, "link")
     /\ s # 0
     /\ Unlocked(s)
     /\ panic' = IlockPanic(s)
     /\ \/ /\ Ino(s).type = "dir"
           /\ icache' = Holding(icache, s, 0, Ino(s))
           /\ Returns(p, -1, <<<<"iput", s>>, <<"end_op">>>>)
           /\ UNCHANGED disk
        \/ /\ Ino(s).type # "dir"
           /\ disk' = iupdate(disk, icache[s].inum, ip)
           /\ Lookup(p, Holding(icache, s, 0, ip), [proc[p] EXCEPT !.res = -1], Arg(p, 1),
                     <<<<"nameiparent">>, <<"dirlink", s>>>>)
     /\ UNCHANGED <<ftable, outstanding, failures>>

\* dirlink in sys_link.  A name that is there makes it fail; dirlookup's reference is
\* dropped with the directory still locked.
link_dirlink(p) ==
  LET s == proc[p].ip
      old == Arg(p, 1)
      inum == dirlookup(disk, Ino(s), proc[p].name)
      named == dirlink(disk, icache[s].inum, Ino(s), proc[p].name, icache[old].inum)
      ic == Holding(icache, s, p, Ino(s))
  IN /\ At(p, "dirlink")
     /\ s # 0
     /\ Unlocked(s)
     /\ \/ /\ inum # 0
           /\ icache' = iget(ic, inum)
           /\ panic' = IgetPanic(ic, inum)
           /\ Becomes(p, Goes(p, <<<<"iput", SlotOf(ic, inum)>>, <<"iunlock", s>>, <<"iput", s>>, <<"link_bad", old>>>>))
           /\ UNCHANGED disk
        \/ /\ inum = 0
           /\ disk' = named.d
           /\ icache' = Holding(icache, s, 0, named.ip)
           /\ panic' = IF Refused(Ino(s), EmptyPlace(Entries(disk, Ino(s))), 1) THEN "dirlink" ELSE ""
           /\ Returns(p, 0, <<<<"iput", s>>, <<"iput", old>>, <<"end_op">>>>)
     /\ UNCHANGED <<ftable, outstanding, failures>>

\* Mutant: the failed link leaves the raised count on disk.
link_bad_noupdate(p) ==
  LET old == Arg(p, 1)
      ip == [Ino(old) EXCEPT !.nlink = @ - 1]
  IN /\ At(p, "link_bad") \/ (At(p, "dirlink") /\ proc[p].ip = 0)
     /\ Unlocked(old)
     /\ icache' = Holding(icache, old, 0, ip)
     /\ Becomes(p, Goes(p, <<<<"iput", old>>, <<"end_op">>>>))
     /\ UNCHANGED <<disk, ftable, outstanding, failures, panic>>
\* bad: the count is lowered again.
link_bad(p) ==
  LET old == Arg(p, 1)
      ip == [Ino(old) EXCEPT !.nlink = @ - 1]
  IN /\ At(p, "link_bad") \/ (At(p, "dirlink") /\ proc[p].ip = 0)
     /\ Unlocked(old)
     /\ panic' = IlockPanic(old)
     /\ disk' = iupdate(disk, icache[old].inum, ip)
     /\ icache' = Holding(icache, old, 0, ip)
     /\ Becomes(p, Goes(p, <<<<"iput", old>>, <<"end_op">>>>))
     /\ UNCHANGED <<ftable, outstanding, failures>>

-----------------------------------------------------------------------------
\* unlink, and removeSwapFile after it has closed the file.

unlink_noparent(p) ==
  /\ At(p, "unlink")
  /\ proc[p].ip = 0
  /\ Returns(p, -1, <<<<"end_op">>>> \o Rest(p))
  /\ UNCHANGED <<disk, icache, ftable, outstanding, failures, panic>>

\* With the directory locked: "." and ".." are refused, as is a name that is not there.
unlink_name(p) ==
  LET s == proc[p].ip
      name == proc[p].name
      inum == IF name \in {".", ".."} THEN 0 ELSE dirlookup(disk, Ino(s), name)
      ic == Holding(icache, s, p, Ino(s))
  IN /\ At(p, "unlink")
     /\ s # 0
     /\ Unlocked(s)
     /\ \/ /\ inum = 0
           /\ icache' = Holding(icache, s, 0, Ino(s))
           /\ panic' = IlockPanic(s)
           /\ Returns(p, -1, <<<<"iput", s>>, <<"end_op">>>> \o Rest(p))
        \/ /\ inum # 0
           /\ icache' = iget(ic, inum)
           /\ panic' = IgetPanic(ic, inum)
           /\ Becomes(p, [Goes(p, <<<<"unlink_ip", s>>>> \o Rest(p)) EXCEPT !.ip = SlotOf(ic, inum)])
     /\ UNCHANGED <<disk, ftable, outstanding, failures>>

\* With both locked: a directory that is not empty stays.  Otherwise the entry is
\* cleared, the parent loses the link of "..", is unlocked and dropped.
unlink_ip(p) ==
  LET s == Arg(p, 1)
      t == proc[p].ip
      dp == icache[s].ino
      off == Min(Places(Entries(disk, dp), proc[p].name)) - 1
      dp2 == [dp EXCEPT !.nlink = IF Ino(t).type = "dir" THEN @ - 1 ELSE @]
      w == writei(disk, icache[s].inum, dp2, off, <<NoCell>>)
      full == Ino(t).type = "dir" /\ ~isdirempty(disk, Ino(t))
  IN /\ At(p, "unlink_ip")
     /\ Unlocked(t)
     /\ panic' = IF IlockPanic(t) # "" THEN IlockPanic(t)
                 ELSE IF Ino(t).nlink < 1 THEN "unlink: nlink < 1" ELSE ""
     /\ \/ /\ full
           /\ icache' = Holding(icache, t, 0, Ino(t))
           /\ Returns(p, -1, <<<<"iput", t>>, <<"iunlock", s>>, <<"iput", s>>, <<"end_op">>>> \o Rest(p))
           /\ UNCHANGED disk
        \/ /\ ~full
           /\ disk' = IF dp2 = dp THEN w.d ELSE iupdate(w.d, icache[s].inum, dp2)
           /\ icache' = Holding(Holding(icache, t, p, Ino(t)), s, 0, dp2)
           /\ Becomes(p, Goes(p, <<<<"iput", s>>, <<"unlinked", t>>>> \o Rest(p)))
     /\ UNCHANGED <<ftable, outstanding, failures>>

\* The inode loses its link and is dropped.
unlinked(p) ==
  LET t == Arg(p, 1)
      ip == [icache[t].ino EXCEPT !.nlink = @ - 1]
  IN /\ At(p, "unlinked")
     /\ disk' = iupdate(disk, icache[t].inum, ip)
     /\ icache' = Holding(icache, t, 0, ip)
     /\ Returns(p, 0, <<<<"iput", t>>, <<"end_op">>>> \o Rest(p))
     /\ UNCHANGED <<ftable, outstanding, failures, panic>>

-----------------------------------------------------------------------------
\* chdir after the lookup: the old directory is dropped inside the operation, the new
\* one becomes current after it.

chdir_inode(p) ==
  LET s == proc[p].ip
  IN /\ At(p, "chdir")
     /\ s # 0
     /\ Unlocked(s)
     /\ panic' = IlockPanic(s)
     /\ icache' = Holding(icache, s, 0, Ino(s))
     /\ IF Ino(s).type # "dir" THEN Returns(p, -1, <<<<"iput", s>>, <<"end_op">>>>)
        ELSE Returns(p, 0, <<<<"iput", proc[p].cwd>>, <<"end_op">>, <<"cwd", s>>>>)
     /\ UNCHANGED <<disk, ftable, outstanding, failures>>

chdir_noinode(p) ==
  /\ At(p, "chdir")
  /\ proc[p].ip = 0
  /\ Returns(p, -1, <<<<"end_op">>>>)
  /\ UNCHANGED <<disk, icache, ftable, outstanding, failures, panic>>

chdir_cwd(p) ==
  /\ At(p, "cwd")
  /\ Becomes(p, [Goes(p, Rest(p)) EXCEPT !.cwd = Arg(p, 1)])
  /\ UNCHANGED <<disk, icache, ftable, outstanding, failures, panic>>

-----------------------------------------------------------------------------
\* Open files.

\* The last close of a file drops its inode, in an operation of its own.
fileclose(p) ==
  LET f == Arg(p, 1)
      last == ftable[f].ref = 1
  IN /\ At(p, "fileclose")
     /\ panic' = IF ftable[f].ref < 1 THEN "fileclose" ELSE ""
     /\ \/ /\ ~last
           /\ ftable' = [ftable EXCEPT ![f].ref = @ - 1]
           /\ Becomes(p, Goes(p, Rest(p)))
           /\ UNCHANGED outstanding
        \/ /\ last
           /\ ftable' = [ftable EXCEPT ![f] = NoFile]
           /\ outstanding' = outstanding + 1
           /\ Becomes(p, Goes(p, <<<<"iput", ftable[f].ip>>, <<"end_op">>>> \o Rest(p)))
     /\ UNCHANGED <<disk, icache, failures>>

\* With the inode locked, cells are read at the offset, which moves.
fileread(p) ==
  LET f == Arg(p, 1)
      s == ftable[f].ip
      ip == Ino(s)
      data == IF ftable[f].off > ip.size THEN <<>> ELSE readi(disk, ip, ftable[f].off, Arg(p, 2))
  IN /\ At(p, "fileread")
     /\ Unlocked(s)
     /\ panic' = IlockPanic(s)
     /\ icache' = Holding(icache, s, 0, ip)
     /\ ftable' = [ftable EXCEPT ![f].off = @ + Len(data)]
     /\ Becomes(p, [Goes(p, Rest(p)) EXCEPT !.data = data,
                       !.res = IF ftable[f].off > ip.size THEN -1 ELSE Len(data)])
     /\ UNCHANGED <<disk, outstanding, failures>>

\* Mutant: the offset is read before the inode is locked and not moved.
filewrite_offset(p) ==
  LET f == Arg(p, 1)
      s == ftable[f].ip
      part == SubSeq(Arg(p, 2), 1, Min({MaxWrite, Len(Arg(p, 2))}))
      w == writei(disk, icache[s].inum, Ino(s), ftable[f].off, part)
  IN /\ At(p, "filewrite")
     /\ Unlocked(s)
     /\ disk' = w.d
     /\ icache' = Holding(icache, s, 0, w.ip)
     /\ outstanding' = outstanding + 1
     /\ Becomes(p, Goes(p, <<<<"end_op">>>> \o Rest(p)))
     /\ UNCHANGED <<ftable, failures, panic>>
\* A piece of at most MaxWrite cells is written in an operation of its own, with the
\* inode locked; a piece that is refused ends the write with -1.
filewrite(p) ==
  LET f == Arg(p, 1)
      s == ftable[f].ip
      n == Min({MaxWrite, Len(Arg(p, 2))})
      part == SubSeq(Arg(p, 2), 1, n)
      rest == SubSeq(Arg(p, 2), n + 1, Len(Arg(p, 2)))
      w == writei(disk, icache[s].inum, Ino(s), ftable[f].off, part)
      refused == Refused(Ino(s), ftable[f].off, n)
      more == IF rest = <<>> \/ refused THEN <<>> ELSE <<<<"filewrite", f, rest>>>>
  IN /\ At(p, "filewrite")
     /\ Unlocked(s)
     /\ panic' = IlockPanic(s)
     /\ disk' = w.d
     /\ icache' = Holding(icache, s, 0, w.ip)
     /\ ftable' = [ftable EXCEPT ![f].off = IF refused THEN @ ELSE @ + n]
     /\ outstanding' = outstanding + 1
     /\ Becomes(p, [Goes(p, <<<<"end_op">>>> \o more \o Rest(p)) EXCEPT !.res = IF refused THEN -1 ELSE @])
     /\ UNCHANGED failures

-----------------------------------------------------------------------------
\* The swap file: removeSwapFile closes and unlinks it, createSwapFile makes it.

RemoveSwapFile(p) ==
  IF proc[p].swapFile = 0 THEN <<>>
  ELSE <<<<"fileclose", proc[p].swapFile>>, <<"lookup", <<"/", SwapName[p]>>>>, <<"nameiparent">>, <<"unlink">>>>
CreateSwapFile(q) ==
  <<<<"lookup", <<"/", SwapName[q]>>>>, <<"nameiparent">>, <<"create", "file">>, <<"swapfile", q>>, <<"end_op">>>>

\* begin_op and the start of a lookup inside exec, fork and exit.
swap_lookup(p) ==
  /\ At(p, "lookup")
  /\ outstanding' = outstanding + 1
  /\ panic' = IgetPanic(icache, ROOTINO)
  /\ Lookup(p, icache, proc[p], Arg(p, 1), Rest(p))
  /\ UNCHANGED <<disk, ftable, failures>>

\* The created inode is unlocked and becomes the swap file of process q.
createSwapFile(p) ==
  LET q == Arg(p, 1)
      f == Min(FreeFiles)
      s == proc[p].ip
  IN /\ At(p, "swapfile")
     /\ \/ /\ FreeFiles = {} \/ s = 0
           /\ panic' = IF s = 0 THEN "iunlock" ELSE "no slot for files on /store"
           /\ UNCHANGED <<proc, ftable, icache>>
        \/ /\ FreeFiles # {} /\ s # 0
           /\ icache' = iunlock(icache, s)
           /\ ftable' = [ftable EXCEPT ![f] = [ref |-> 1, type |-> "inode", ip |-> s, off |-> 0,
                                               readable |-> TRUE, writable |-> TRUE]]
           /\ proc' = [proc EXCEPT ![p].todo = Rest(p), ![q].swapFile = f]
           /\ UNCHANGED panic
     /\ UNCHANGED <<disk, outstanding, failures>>

\* exec after the lookup: the program's inode is locked and must be a program; the
\* old swap file is removed and, except for the shell, a new one made, with that
\* lock held.
exec_noinode(p) ==
  /\ At(p, "exec")
  /\ proc[p].ip = 0
  /\ Returns(p, -1, <<<<"end_op">>>>)
  /\ UNCHANGED <<disk, icache, ftable, outstanding, failures, panic>>
exec_inode(p) ==
  LET s == proc[p].ip
      ip == Ino(s)
      elf == ip.size >= 1 /\ readi(disk, ip, 0, 1) = <<<<ELF_MAGIC, "">>>>
      swap == RemoveSwapFile(p) \o IF Arg(p, 1) = <<"sh">> THEN <<>> ELSE CreateSwapFile(p)
  IN /\ At(p, "exec")
     /\ s # 0
     /\ Unlocked(s)
     /\ panic' = IlockPanic(s)
     /\ \/ /\ ~elf
           /\ icache' = Holding(icache, s, 0, ip)
           /\ Returns(p, -1, <<<<"iput", s>>, <<"end_op">>>>)
        \/ /\ elf
           /\ icache' = Holding(icache, s, p, ip)
           /\ Becomes(p, Goes(p, swap \o <<<<"iunlock", s>>, <<"iput", s>>, <<"end_op">>, <<"exec_done">>>>))
     /\ UNCHANGED <<disk, ftable, outstanding, failures>>
exec_done(p) ==
  /\ At(p, "exec_done")
  /\ Returns(p, 0, Rest(p))
  /\ UNCHANGED <<disk, icache, ftable, outstanding, failures, panic>>

-----------------------------------------------------------------------------
\* System calls.  A script is a sequence of calls; the head is the current one.

Ready(p, op) ==
  /\ panic = "" /\ proc[p].state = "run" /\ ~proc[p].called
  /\ proc[p].prog # <<>> /\ Head(proc[p].prog).op = op
Call(p) == Head(proc[p].prog)
Enters(p) == [proc[p] EXCEPT !.called = TRUE]

\* The operations after the lookup of a call's path.
AfterLookup(c) ==
  CASE c.op = "open" /\ "CREATE" \in c.mode -> <<<<"nameiparent">>, <<"create", "file">>, <<"open", c.mode>>>>
    [] c.op = "open" /\ "CREATE" \notin c.mode -> <<<<"namei">>, <<"open", c.mode>>>>
    [] c.op = "mkdir" -> <<<<"nameiparent">>, <<"create", "dir">>, <<"mkdir">>>>
    [] c.op = "mknod" -> <<<<"nameiparent">>, <<"create", "dev">>, <<"mkdir">>>>
    [] c.op = "link" -> <<<<"namei">>, <<"link", c.new>>>>
    [] c.op = "unlink" -> <<<<"nameiparent">>, <<"unlink">>>>
    [] c.op = "chdir" -> <<<<"namei">>, <<"chdir">>>>
    [] c.op = "exec" -> <<<<"namei">>, <<"exec", c.path>>>>

\* The calls that begin an operation and look up a path.
sys_path(p) ==
  /\ \E op \in {"open", "mkdir", "mknod", "link", "unlink", "chdir", "exec"} : Ready(p, op)
  /\ outstanding' = outstanding + 1
  /\ panic' = IgetPanic(icache, ROOTINO)
  /\ Lookup(p, icache, Enters(p), Call(p).path, AfterLookup(Call(p)))
  /\ UNCHANGED <<disk, ftable, failures>>

\* argfd: the file of the descriptor that a call names, 0 if it is not open.
argfd(p) == LET fd == proc[p].fds[Call(p).fd] IN IF fd \in Fd THEN proc[p].ofile[fd] ELSE 0

\* read and write: a file that is not open, or not for this, makes the call fail.
sys_read(p) ==
  LET f == argfd(p)
  IN /\ Ready(p, "read")
     /\ Becomes(p, IF f = 0 \/ ~ftable[f].readable THEN [Enters(p) EXCEPT !.res = -1, !.data = <<>>]
                   ELSE [Enters(p) EXCEPT !.todo = <<<<"fileread", f, Call(p).n>>>>])
     /\ UNCHANGED <<disk, icache, ftable, outstanding, failures, panic>>
sys_write(p) ==
  LET f == argfd(p)
  IN /\ Ready(p, "write")
     /\ Becomes(p, IF f = 0 \/ ~ftable[f].writable THEN [Enters(p) EXCEPT !.res = -1]
                   ELSE [Enters(p) EXCEPT !.res = Len(Call(p).data),
                            !.todo = IF Call(p).data = <<>> THEN <<>> ELSE <<<<"filewrite", f, Call(p).data>>>>])
     /\ UNCHANGED <<disk, icache, ftable, outstanding, failures, panic>>

sys_close(p) ==
  LET f == argfd(p)
  IN /\ Ready(p, "close")
     /\ Becomes(p, IF f = 0 THEN [Enters(p) EXCEPT !.res = -1]
                   ELSE [Enters(p) EXCEPT !.res = 0, !.ofile[proc[p].fds[Call(p).fd]] = 0,
                                          !.todo = <<<<"fileclose", f>>>>])
     /\ UNCHANGED <<disk, icache, ftable, outstanding, failures, panic>>

\* fork: the child gets the open files and the current directory, and a swap file if
\* the parent has one (its content is Paging's concern); then it runs.
fork(p) ==
  LET free == {q \in Proc : proc[q].state = "unused"}
      q == Min(free)
      child == [NoProc EXCEPT !.state = "embryo", !.parent = p, !.ofile = proc[p].ofile, !.cwd = proc[p].cwd,
                              !.fds = proc[p].fds, !.prog = Call(p).child]
      held(f) == Cardinality({fd \in Fd : proc[p].ofile[fd] = f})
      swap == IF proc[p].swapFile = 0 THEN <<>> ELSE CreateSwapFile(q)
  IN /\ Ready(p, "fork")
     /\ \/ /\ free = {}
           /\ Becomes(p, [Enters(p) EXCEPT !.res = -1])
           /\ UNCHANGED <<icache, ftable>>
        \/ /\ free # {}
           /\ ftable' = [f \in File |-> [ftable[f] EXCEPT !.ref = @ + held(f)]]
           /\ icache' = idup(icache, proc[p].cwd)
           /\ proc' = [proc EXCEPT ![q] = child,
                                   ![p] = [Enters(p) EXCEPT !.todo = swap \o <<<<"runnable", q>>>>, !.res = q]]
     /\ UNCHANGED <<disk, outstanding, failures, panic>>
fork_runnable(p) ==
  /\ At(p, "runnable")
  /\ proc' = [proc EXCEPT ![p].todo = Rest(p), ![Arg(p, 1)].state = "run", ![p].res = Arg(p, 1)]
  /\ UNCHANGED <<disk, icache, ftable, outstanding, failures, panic>>

\* exit: the files are closed, the current directory dropped in an operation, the
\* swap file removed; then the process is a zombie.
exit(p) ==
  LET open == SelectSeq([i \in 1 .. NOFILE |-> proc[p].ofile[i - 1]], LAMBDA f : f # 0)
      close == [i \in 1 .. Len(open) |-> <<"fileclose", open[i]>>]
  IN /\ Ready(p, "exit")
     /\ Becomes(p, [Enters(p) EXCEPT !.ofile = NoProc.ofile, !.cwd = 0,
                      !.todo = close \o <<<<"begin_op">>, <<"iput", proc[p].cwd>>, <<"end_op">>>>
                               \o RemoveSwapFile(p) \o <<<<"zombie">>>>])
     /\ UNCHANGED <<disk, icache, ftable, outstanding, failures, panic>>
begin_op(p) ==
  /\ At(p, "begin_op")
  /\ outstanding' = outstanding + 1
  /\ Becomes(p, Goes(p, Rest(p)))
  /\ UNCHANGED <<disk, icache, ftable, failures, panic>>
exit_zombie(p) ==
  /\ At(p, "zombie")
  /\ proc' = [q \in Proc |-> IF q = p THEN [NoProc EXCEPT !.state = "zombie", !.parent = proc[p].parent]
                             ELSE IF proc[q].parent = p THEN [proc[q] EXCEPT !.parent = 0] ELSE proc[q]]
  /\ UNCHANGED <<disk, icache, ftable, outstanding, failures, panic>>

\* wait: sleeps until a child is a zombie and frees its slot; fails without children.
wait(p) ==
  LET kids == {q \in Proc : proc[q].parent = p}
      dead == {q \in kids : proc[q].state = "zombie"}
  IN /\ Ready(p, "wait")
     /\ kids = {} \/ dead # {}
     /\ proc' = IF kids = {} THEN [proc EXCEPT ![p] = [Enters(p) EXCEPT !.res = -1]]
                ELSE [proc EXCEPT ![p] = [Enters(p) EXCEPT !.res = Min(dead)], ![Min(dead)] = NoProc]
     /\ UNCHANGED <<disk, icache, ftable, outstanding, failures, panic>>

\* Back in user mode the script looks at the result.
Expected(p) ==
  LET c == Call(p)
  IN /\ c.want = "ok" => proc[p].res >= 0
     /\ c.want = "fail" => proc[p].res < 0
     /\ c.op = "read" /\ c.accept # {} => proc[p].data \in c.accept
Return(p) ==
  /\ panic = "" /\ proc[p].called /\ proc[p].todo = <<>>
  /\ failures' = IF Expected(p) THEN failures ELSE failures \cup {Call(p)}
  /\ Becomes(p, [proc[p] EXCEPT !.called = FALSE, !.prog = Tail(@), !.ip = 0, !.name = "", !.path = <<>>,
                    !.res = 0, !.data = <<>>,
                    !.fds = IF Call(p).op = "open" THEN [@ EXCEPT ![Call(p).fd] = proc[p].res] ELSE @])
  /\ UNCHANGED <<disk, icache, ftable, outstanding, panic>>

-----------------------------------------------------------------------------
Step(p) ==
  \/ iput(p) \/ ifree(p) \/ iunref(p) \/ IunlockStep(p)
  \/ namex_end(p) \/ namex_element(p) \/ begin_op(p) \/ end_op(p)
  \/ create_noparent(p) \/ create_found(p) \/ create_existing(p) \/ create_ialloc(p) \/ create_new(p)
  \/ open_noinode(p) \/ open_inode(p) \/ mkdir_inode(p)
  \/ link_noinode(p) \/ link_inode(p) \/ link_dirlink(p) \/ link_bad(p)
  \/ unlink_noparent(p) \/ unlink_name(p) \/ unlink_ip(p) \/ unlinked(p)
  \/ chdir_inode(p) \/ chdir_noinode(p) \/ chdir_cwd(p)
  \/ fileclose(p) \/ fileread(p) \/ filewrite(p)
  \/ swap_lookup(p) \/ createSwapFile(p) \/ exec_noinode(p) \/ exec_inode(p) \/ exec_done(p)
  \/ sys_path(p) \/ sys_read(p) \/ sys_write(p) \/ sys_close(p)
  \/ fork(p) \/ fork_runnable(p) \/ exit(p) \/ exit_zombie(p) \/ wait(p) \/ Return(p)

\* When every process has ended the scheduler finds nobody to run.
Idle == panic = "" /\ (\A p \in Proc : proc[p].state \in {"zombie", "unused"}) /\ UNCHANGED vars

Next == Idle \/ \E p \in Proc : Step(p)

Spec == Init /\ [][Next]_vars
=============================================================================
