---------------------------- MODULE MCFileSystem ----------------------------
(***************************************************************************)
(* The file system run by tests of usertests.c, two processes at a time:   *)
(* tests that fork, and pairs of tests that use different names.           *)
(***************************************************************************)
EXTENDS FileSystem

T == INSTANCE UserTests

\* Files of the image: a file that is no program, and two programs.
MCImage == <<<<"README", <<<<1, "">>>>>>, <<"cat", <<<<ELF_MAGIC, "">>>>>>, <<"echo", <<<<ELF_MAGIC, "">>>>>>>>

One(t) == <<t \o <<T!exit>>>>
Two(t, u) == <<t \o <<T!exit>>, u \o <<T!exit>>>>

\* init's console, and tests one after the other, as the main program of usertests
\* runs them.
Sequential ==
  T!init_console \o T!opentest \o T!writetest \o T!writetest1(MAXFILE, BSIZE) \o T!createtest \o T!exitiputtest \o T!createdelete(1, 4)
  \o T!unlinkread \o T!linktest \o T!bigdir(<<"x00", "x01">>) \o T!subdir \o T!bigwrite(2 * BSIZE) \o T!bigfile
  \o T!dirfile \o T!runcmd_fails \o T!exectest \o T!exitiputtest \o T!iref(2)

Tests ==
  {One(Sequential), One(T!openiputtest), One(T!sharedfd), One(T!fourfiles), One(T!createdelete(2, 2)),
   One(T!concreate_delete), Two(T!iputtest, T!rmdot), Two(T!exectest, T!dirtest), Two(T!dirtest, T!createtest)}

\* Names that two processes create, link and unlink at the same time.
SameName == {One(T!linkunlink), One(T!concreate)}

\* A directory that one process opens while the other removes it.
OpenAndRemove == {One(T!openiputtest)}

-----------------------------------------------------------------------------
\* The tests of usertests.c pass, whatever the order of the steps of the processes.
TestsPass == failures = {}

\* None of the panics of the code above is reached: ilock, iget, ialloc, bfree, balloc,
\* dirlink, unlink, fileclose, iunlock.
NoPanic == panic = "" /\ ~disk.full

\* When no operation of the log is under way the disk is consistent; that is the disk
\* a crash leaves.
CrashConsistent == outstanding = 0 => Fsck(disk)

\* A cached inode that is valid and not locked is the one on disk, and no inode is
\* cached twice.
CacheCoherent ==
  /\ \A s \in Slot : icache[s].ref > 0 /\ icache[s].valid /\ icache[s].holder = 0 =>
       icache[s].ino = disk.inode[icache[s].inum]
  /\ \A s, t \in Slot : icache[s].ref > 0 /\ icache[t].ref > 0 /\ icache[s].inum = icache[t].inum => s = t

\* When no process is in the kernel, an inode's references are its open files and the
\* processes that have it as their current directory, and a file's references are the
\* descriptors and swap files.
RefsCounted ==
  (\A p \in Proc : proc[p].todo = <<>> /\ proc[p].state # "embryo") =>
    /\ \A s \in Slot : icache[s].ref = Cardinality({f \in File : ftable[f].ref > 0 /\ ftable[f].ip = s})
                                        + Cardinality({p \in Proc : proc[p].cwd = s})
    /\ \A f \in File : ftable[f].ref = Cardinality({e \in Proc \X Fd : proc[e[1]].ofile[e[2]] = f})
                                        + Cardinality({p \in Proc : proc[p].swapFile = f})

\* An inode on disk that has no links is referenced: iput by the last holder frees it.
LastReferenceFrees ==
  \A i \in Allocated(disk) : disk.inode[i].nlink = 0 =>
    \E s \in Slot : icache[s].ref > 0 /\ icache[s].inum = i

\* The slot whose lock a process takes in its next step, 0 if it takes none.
Wants(p) ==
  LET op == IF proc[p].todo = <<>> THEN "" ELSE Head(proc[p].todo)[1]
  IN CASE op = "iput" -> Arg(p, 1)
       [] op = "link_bad" -> Arg(p, 1)
       [] op \in {"namei", "nameiparent"} /\ proc[p].path # <<>> -> proc[p].ip
       [] op \in {"create", "create_found", "create_new", "link", "dirlink", "unlink", "unlink_ip", "chdir", "exec"} ->
            proc[p].ip
       [] op = "open" /\ "CREATE" \notin Arg(p, 1) -> proc[p].ip
       [] op \in {"fileread", "filewrite"} -> ftable[Arg(p, 1)].ip
       [] OTHER -> 0

\* No processes wait in a circle for locks that the others of them hold, so that with a
\* scheduler that runs whoever can run every system call returns.
NoCircularWait ==
  \A P \in (SUBSET Proc) \ {{}} :
    \E p \in P : Wants(p) = 0 \/ icache[Wants(p)].holder \notin P
=============================================================================
