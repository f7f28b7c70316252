----------------------------- MODULE Processes -----------------------------
(***************************************************************************)
(* Processes and how they talk: fork, exit, wait and kill of proc.c, sleep *)
(* and wakeup, pipes (pipe.c), descriptors and the table of open files     *)
(* (file.c, sysfile.c), with programs as lists of system calls: init, the  *)
(* shell and the programs it runs (Shell.tla), and tests of usertests.c.   *)
(*                                                                         *)
(* A step is one stretch of a system call under one lock: up to where it   *)
(* returns or sleeps.  sleep gives up the lock and sleeps at once, which   *)
(* Sleep.tla justifies.  A process number is a slot of the process table.  *)
(***************************************************************************)
EXTENDS Shell, Integers, FiniteSets, SequencesExt, FiniteSetsExt

CONSTANTS
  NPROC,        \* slots of the process table; 1 is init
  NOFILE,       \* descriptors of a process
  NFILE,        \* open files
  NPIPE,        \* pages for pipes
  PIPESIZE,     \* cells of a pipe
  Wrap,         \* a pipe's counters are modulo this multiple of PIPESIZE (2^32 in C)
  ReadSize,     \* cells that a program reads at a time
  Starts        \* what may be typed: sequences of lines

VARIABLES proc, ftable, pipes, store, tty, lines, typed, failures, panic

vars == <<proc, ftable, pipes, store, tty, lines, typed, failures, panic>>

Proc == 1 .. NPROC
init == 1
Fd == 0 .. NOFILE - 1
File == 1 .. NFILE
PipeId == 1 .. NPIPE

Unused == [state |-> "unused", parent |-> 0, chan |-> <<>>, killed |-> FALSE, exiting |-> FALSE, inkernel |-> FALSE,
           np |-> 0, ofile |-> [fd \in Fd |-> 0], code |-> <<>>, p |-> <<0, 0>>, kids |-> <<>>]
NoFile == [ref |-> 0, type |-> "none", pipe |-> 0, name |-> "", off |-> 0, readable |-> FALSE, writable |-> FALSE]
NoPipe == [used |-> FALSE, nread |-> 0, nwrite |-> 0, data |-> [i \in 0 .. PIPESIZE - 1 |-> ""],
           readopen |-> FALSE, writeopen |-> FALSE]

\* init runs with descriptors 0, 1 and 2 on the console.
Init ==
  \E s \in Starts :
    /\ proc = [q \in Proc |-> IF q = init THEN [Unused EXCEPT !.state = "run", !.code = init_main,
                                                  !.ofile = [fd \in Fd |-> IF fd <= 2 THEN 1 ELSE 0]]
                              ELSE Unused]
    /\ ftable = [f \in File |-> IF f = 1 THEN [NoFile EXCEPT !.ref = 3, !.type = "console", !.readable = TRUE,
                                                             !.writable = TRUE]
                                ELSE NoFile]
    /\ pipes = [i \in PipeId |-> NoPipe]
    /\ store = [n \in {} |-> <<>>]
    /\ tty = <<>>
    /\ lines = s
    /\ typed = s
    /\ failures = {}
    /\ panic = ""

-----------------------------------------------------------------------------
\* The running process.

\* A killed process exits where it would go on in user mode.
Runs(p) == panic = "" /\ proc[p].state = "run" /\ proc[p].code # <<>>
At(p, call) ==
  /\ Runs(p)
  /\ Head(proc[p].code)[1] = call
  /\ ~proc[p].killed \/ proc[p].exiting \/ proc[p].inkernel
Arg(p, i) == Head(proc[p].code)[i + 1]
Rest(p) == Tail(proc[p].code)

\* The process returns from its call, to go on with code.
Back(p, code) == [proc[p] EXCEPT !.code = code, !.inkernel = FALSE]
\* It sleeps on a channel, in the call that it will look at again.
Asleep(p, code, chan) == [proc[p] EXCEPT !.code = code, !.inkernel = TRUE, !.state = "sleeping", !.chan = chan]

\* wakeup: everyone who sleeps on the channel can run.
wakeup(ps, chan) ==
  [q \in Proc |-> IF ps[q].state = "sleeping" /\ ps[q].chan = chan
                  THEN [ps[q] EXCEPT !.state = "run", !.chan = <<>>] ELSE ps[q]]
With(p, r) == [proc EXCEPT ![p] = r]

-----------------------------------------------------------------------------
\* Descriptors and files.

Number(p, fd) == IF fd >= P0 THEN proc[p].p[fd - P0 + 1] ELSE fd
FileOf(p, fd) == proc[p].ofile[Number(p, fd)]
FreeFds(p) == {fd \in Fd : proc[p].ofile[fd] = 0}
FreeFiles == {f \in File : ftable[f].ref = 0}

\* dup: another descriptor for the same open file.
sys_dup(p) ==
  LET f == FileOf(p, Arg(p, 1))
  IN /\ At(p, "dup")
     /\ \/ /\ f = 0 \/ FreeFds(p) = {}
           /\ proc' = With(p, Back(p, Rest(p)))
           /\ UNCHANGED <<ftable, panic>>
        \/ /\ f # 0 /\ FreeFds(p) # {}
           /\ proc' = With(p, [Back(p, Rest(p)) EXCEPT !.ofile[Min(FreeFds(p))] = f])
           /\ ftable' = [ftable EXCEPT ![f].ref = @ + 1]
           /\ panic' = IF ftable[f].ref < 1 THEN "filedup" ELSE ""
     /\ UNCHANGED <<pipes, store, tty, lines, typed, failures>>

\* open of a file by name, at its start; for writing it is made if need be, and not cut.
\* The programs give up if it fails.
sys_open(p) ==
  LET f == Min(FreeFiles)
      fd == Min(FreeFds(p))
      name == Arg(p, 1)
      writes == Arg(p, 2) = "write"
  IN /\ At(p, "open")
     /\ \/ /\ FreeFiles = {} \/ FreeFds(p) = {} \/ (~writes /\ name \notin DOMAIN store)
           /\ proc' = With(p, Back(p, <<<<"exit">>>>))
           /\ UNCHANGED ftable
        \/ /\ FreeFiles # {} /\ FreeFds(p) # {}
           /\ writes \/ name \in DOMAIN store
           /\ proc' = With(p, [Back(p, Rest(p)) EXCEPT !.ofile[fd] = f, !.p = <<fd, 0>>])
           /\ ftable' = [ftable EXCEPT ![f] = [NoFile EXCEPT !.ref = 1, !.type = "inode", !.name = name,
                                                 !.readable = ~writes, !.writable = writes]]
     /\ store' = IF writes /\ name \notin DOMAIN store
                 THEN [n \in DOMAIN store \cup {name} |-> IF n = name THEN <<>> ELSE store[n]]
                 ELSE store
     /\ UNCHANGED <<pipes, tty, lines, typed, failures, panic>>

\* Mutant: readers are not woken when the last writer closes.
pipeclose_quiet(ps, i, writable) ==
  /\ proc' = IF writable THEN ps ELSE wakeup(ps, <<"nwrite", i>>)
  /\ pipes' = [pipes EXCEPT ![i] = IF (writable /\ ~@.readopen) \/ (~writable /\ ~@.writeopen) THEN NoPipe
                                   ELSE IF writable THEN [@ EXCEPT !.writeopen = FALSE]
                                   ELSE [@ EXCEPT !.readopen = FALSE]]
\* An end of a pipe is closed and the other end woken; the second end frees the pipe.
pipeclose(ps, i, writable) ==
  /\ proc' = wakeup(ps, IF writable THEN <<"nread", i>> ELSE <<"nwrite", i>>)
  /\ pipes' = [pipes EXCEPT ![i] = IF (writable /\ ~@.readopen) \/ (~writable /\ ~@.writeopen) THEN NoPipe
                                   ELSE IF writable THEN [@ EXCEPT !.writeopen = FALSE]
                                   ELSE [@ EXCEPT !.readopen = FALSE]]

\* Closing a descriptor; the last reference closes the file.
sys_close(p) ==
  LET fd == Number(p, Arg(p, 1))
      f == proc[p].ofile[fd]
      closed == With(p, [Back(p, Rest(p)) EXCEPT !.ofile[fd] = 0])
  IN /\ At(p, "close")
     /\ \/ /\ f = 0
           /\ proc' = With(p, Back(p, Rest(p)))
           /\ UNCHANGED <<ftable, pipes, panic>>
        \/ /\ f # 0
           /\ panic' = IF ftable[f].ref < 1 THEN "fileclose" ELSE ""
           /\ ftable' = [ftable EXCEPT ![f] = IF @.ref = 1 THEN NoFile ELSE [@ EXCEPT !.ref = @ - 1]]
           /\ IF ftable[f].ref = 1 /\ ftable[f].type = "pipe" THEN pipeclose(closed, ftable[f].pipe, ftable[f].writable)
              ELSE proc' = closed /\ UNCHANGED pipes
     /\ UNCHANGED <<store, tty, lines, typed, failures>>

-----------------------------------------------------------------------------
\* Pipes.

FreePipes == {i \in PipeId : ~pipes[i].used}
Stored(i) == (pipes[i].nwrite - pipes[i].nread) % Wrap

\* pipe: two files, a page and two descriptors, or nothing at all.
sys_pipe(p) ==
  LET rf == Min(FreeFiles)
      wf == Min(FreeFiles \ {rf})
      fd0 == Min(FreeFds(p))
      fd1 == Min(FreeFds(p) \ {fd0})
      i == Min(FreePipes)
      End(w) == [NoFile EXCEPT !.ref = 1, !.type = "pipe", !.pipe = i, !.readable = ~w, !.writable = w]
      fits == Cardinality(FreeFiles) >= 2 /\ FreePipes # {} /\ Cardinality(FreeFds(p)) >= 2
  IN /\ At(p, "pipe")
     /\ \/ /\ ~fits
           /\ proc' = With(p, Back(p, <<<<"exit">>>>))
           /\ UNCHANGED <<ftable, pipes>>
        \/ /\ fits
           /\ proc' = With(p, [Back(p, Rest(p)) EXCEPT !.ofile = [@ EXCEPT ![fd0] = rf, ![fd1] = wf], !.p = <<fd0, fd1>>])
           /\ ftable' = [ftable EXCEPT ![rf] = End(FALSE), ![wf] = End(TRUE)]
           /\ pipes' = [pipes EXCEPT ![i] = [NoPipe EXCEPT !.used = TRUE, !.readopen = TRUE, !.writeopen = TRUE]]
     /\ UNCHANGED <<store, tty, lines, typed, failures, panic>>

\* What a program does when a call returned badly: nothing, exit, or report it.
Bad(p, then, what) ==
  /\ failures' = IF then = "fail" THEN failures \cup {what} ELSE failures
  /\ proc' = With(p, Back(p, IF then = "any" THEN Rest(p) ELSE <<<<"exit">>>>))

\* Cells written to a pipe, as many as fit.
Filled(i, cells) ==
  [pipes[i] EXCEPT !.nwrite = (@ + Len(cells)) % Wrap,
                   !.data = [j \in DOMAIN @ |->
                               LET k == (j - pipes[i].nwrite) % PIPESIZE
                               IN IF k < Len(cells) THEN cells[k + 1] ELSE @[j]]]

\* Mutant: a writer that slept starts again with its first cell.
pipewrite_again(p) ==
  LET i == ftable[FileOf(p, Arg(p, 1))].pipe
      cells == Arg(p, 2)
      n == Min({Len(cells), PIPESIZE - Stored(i)})
      left == SubSeq(cells, n + 1, Len(cells))
  IN /\ pipes' = [pipes EXCEPT ![i] = Filled(i, SubSeq(cells, 1, n))]
     /\ \/ /\ left = <<>>
           /\ proc' = wakeup(With(p, Back(p, Rest(p))), <<"nread", i>>)
           /\ UNCHANGED failures
        \/ /\ left # <<>> /\ (~pipes[i].readopen \/ proc[p].killed)
           /\ Bad(p, Arg(p, 3), "write")
        \/ /\ left # <<>> /\ pipes[i].readopen /\ ~proc[p].killed
           /\ proc' = [wakeup(proc, <<"nread", i>>) EXCEPT
                         ![p] = Asleep(p, <<[Head(proc[p].code) EXCEPT ![3] = cells]>> \o Rest(p), <<"nwrite", i>>)]
           /\ UNCHANGED failures
\* write(fd, cells, then).  To a pipe: what fits; when it is full the writer wakes the
\* readers and sleeps with the cells that are left, or fails if there is no reader or it
\* was killed.  Cells that it stored before it fails stay, and nobody is woken for them.
pipewrite(p) ==
  LET i == ftable[FileOf(p, Arg(p, 1))].pipe
      cells == Arg(p, 2)
      n == Min({Len(cells), PIPESIZE - Stored(i)})
      left == SubSeq(cells, n + 1, Len(cells))
  IN /\ pipes' = [pipes EXCEPT ![i] = Filled(i, SubSeq(cells, 1, n))]
     /\ \/ /\ left = <<>>
           /\ proc' = wakeup(With(p, Back(p, Rest(p))), <<"nread", i>>)
           /\ UNCHANGED failures
        \/ /\ left # <<>> /\ (~pipes[i].readopen \/ proc[p].killed)
           /\ Bad(p, Arg(p, 3), "write")
        \/ /\ left # <<>> /\ pipes[i].readopen /\ ~proc[p].killed
           /\ proc' = [wakeup(proc, <<"nread", i>>) EXCEPT
                         ![p] = Asleep(p, <<[Head(proc[p].code) EXCEPT ![3] = left]>> \o Rest(p), <<"nwrite", i>>)]
           /\ UNCHANGED failures

\* Mutant: what was behind the cells is cut off.
Overwrite_cut(old, off, cells) == SubSeq(old, 1, off) \o cells
Overwrite(old, off, cells) == SubSeq(old, 1, off) \o cells \o SubSeq(old, off + Len(cells) + 1, Len(old))

sys_write(p) ==
  LET f == FileOf(p, Arg(p, 1))
      file == ftable[f]
      cells == Arg(p, 2)
  IN /\ At(p, "write")
     /\ \/ /\ IF f = 0 THEN TRUE ELSE ~file.writable
           /\ Bad(p, Arg(p, 3), "write")
           /\ UNCHANGED <<ftable, pipes, store, tty>>
        \/ /\ f # 0 /\ file.writable /\ file.type = "pipe"
           /\ pipewrite(p)
           /\ UNCHANGED <<ftable, store, tty>>
        \/ /\ f # 0 /\ file.writable /\ file.type = "inode"
           /\ store' = [store EXCEPT ![file.name] = Overwrite(@, file.off, cells)]
           /\ ftable' = [ftable EXCEPT ![f].off = @ + Len(cells)]
           /\ proc' = With(p, Back(p, Rest(p)))
           /\ UNCHANGED <<pipes, tty, failures>>
        \/ /\ f # 0 /\ file.writable /\ file.type = "console"
           /\ tty' = tty \o cells
           /\ proc' = With(p, Back(p, Rest(p)))
           /\ UNCHANGED <<ftable, pipes, store, failures>>
     /\ UNCHANGED <<lines, typed, panic>>

-----------------------------------------------------------------------------
\* Reading.  "cat" copies to its output until the end, "drain" reads twice as much each
\* time and knows what it must get, "read" reads once.

Marks == <<"a", "b", "c", "d", "e", "f", "g">>
Sequence(from, n) == [k \in 1 .. n |-> Marks[((from + k - 1) % Len(Marks)) + 1]]

Reads(p) == {c \in {"cat", "drain", "read"} : At(p, c)}
Wanted(p) == IF At(p, "drain") THEN Arg(p, 2) ELSE ReadSize
\* What the program goes on with, given what it read.
AfterRead(p, cells) ==
  CASE At(p, "cat") -> IF cells = <<>> THEN Rest(p) ELSE <<<<"write", 1, cells, "exit">>>> \o proc[p].code
    [] At(p, "drain") -> IF cells = <<>> THEN Rest(p)
                         ELSE <<<<"drain", Arg(p, 1), Min({2 * Arg(p, 2), ReadSize}), Arg(p, 3) + Len(cells), Arg(p, 4)>>>>
                              \o Rest(p)
    [] At(p, "read") -> Rest(p)
RightRead(p, cells) ==
  CASE At(p, "cat") -> TRUE
    [] At(p, "drain") -> IF cells = <<>> THEN Arg(p, 3) = Arg(p, 4) ELSE cells = Sequence(Arg(p, 3), Len(cells))
    [] At(p, "read") -> Len(cells) = Arg(p, 2)
GotRead(p, cells) ==
  /\ failures' = IF RightRead(p, cells) THEN failures ELSE failures \cup {"read"}

\* What there is in the pipe, up to what was asked for; writers are woken.
piperead(p, i) ==
  LET n == Min({Wanted(p), Stored(i)})
      cells == [k \in 1 .. n |-> pipes[i].data[(pipes[i].nread + k - 1) % PIPESIZE]]
  IN /\ proc' = wakeup(With(p, Back(p, AfterRead(p, cells))), <<"nwrite", i>>)
     /\ pipes' = [pipes EXCEPT ![i].nread = (@ + n) % Wrap]
     /\ GotRead(p, cells)

\* A read of the console waits for keys, which do not come but at the prompt.
sys_read(p) ==
  /\ Reads(p) # {}
  /\ LET f == FileOf(p, Arg(p, 1))
         file == ftable[f]
         i == file.pipe
         empty == pipes[i].nread = pipes[i].nwrite /\ pipes[i].writeopen
         cells == SubSeq(store[file.name], file.off + 1, Min({Len(store[file.name]), file.off + Wanted(p)}))
     IN \/ /\ IF f = 0 THEN TRUE ELSE ~file.readable
           /\ proc' = With(p, Back(p, <<<<"exit">>>>))
           /\ UNCHANGED <<ftable, pipes, failures>>
        \/ /\ f # 0 /\ file.readable /\ file.type = "inode"
           /\ proc' = With(p, Back(p, AfterRead(p, cells)))
           /\ ftable' = [ftable EXCEPT ![f].off = @ + Len(cells)]
           /\ GotRead(p, cells)
           /\ UNCHANGED pipes
        \/ /\ f # 0 /\ file.readable /\ file.type = "pipe" /\ empty /\ proc[p].killed
           /\ proc' = With(p, Back(p, <<<<"exit">>>>))
           /\ UNCHANGED <<ftable, pipes, failures>>
        \/ /\ f # 0 /\ file.readable /\ file.type = "pipe" /\ empty /\ ~proc[p].killed
           /\ proc' = With(p, Asleep(p, proc[p].code, <<"nread", i>>))
           /\ UNCHANGED <<ftable, pipes, failures>>
        \/ /\ f # 0 /\ file.readable /\ file.type = "pipe" /\ ~empty
           /\ piperead(p, i)
           /\ UNCHANGED ftable
  /\ UNCHANGED <<store, tty, lines, typed, panic>>

-----------------------------------------------------------------------------
\* Processes.

FreeSlots == {q \in Proc : proc[q].state = "unused"}
Forking(p) == At(p, "fork") \/ At(p, "forks")

\* allocproc: the first free slot is taken, or fork fails.  "forks" is the loop of
\* forktest, which then waits for each child and for one more.
fork_alloc(p) ==
  /\ Forking(p) /\ proc[p].np = 0
  /\ \/ /\ FreeSlots # {}
        /\ LET q == Min(FreeSlots)
           IN proc' = [proc EXCEPT ![p].np = q, ![p].inkernel = TRUE, ![q].state = "embryo", ![q].parent = p]
     \/ /\ FreeSlots = {}
        /\ proc' = With(p, Back(p, IF At(p, "fork") THEN <<<<"exit">>>>
                                   ELSE [k \in 1 .. Arg(p, 1) |-> <<"wait", "ok">>] \o <<<<"wait", "none">>>> \o Rest(p)))
  /\ UNCHANGED <<ftable, pipes, store, tty, lines, typed, failures, panic>>

\* Mutant: the child's descriptors are not counted.
fork_run_nodup(p) ==
  LET q == proc[p].np
      code == IF At(p, "fork") THEN Arg(p, 1) ELSE <<<<"exit">>>>
      next == IF At(p, "fork") THEN Rest(p) ELSE <<<<"forks", Arg(p, 1) + 1>>>> \o Rest(p)
  IN /\ Forking(p) /\ q # 0
     /\ proc' = [proc EXCEPT ![p] = [Back(p, next) EXCEPT !.np = 0, !.kids = Append(@, q)],
                             ![q] = [@ EXCEPT !.state = "run", !.ofile = proc[p].ofile, !.p = proc[p].p, !.code = code]]
     /\ UNCHANGED <<ftable, pipes, store, tty, lines, typed, failures, panic>>
\* The child has the files of its parent, and can run.
fork_run(p) ==
  LET q == proc[p].np
      code == IF At(p, "fork") THEN Arg(p, 1) ELSE <<<<"exit">>>>
      next == IF At(p, "fork") THEN Rest(p) ELSE <<<<"forks", Arg(p, 1) + 1>>>> \o Rest(p)
      shared == [f \in File |-> Cardinality({fd \in Fd : proc[p].ofile[fd] = f})]
  IN /\ Forking(p) /\ q # 0
     /\ proc' = [proc EXCEPT ![p] = [Back(p, next) EXCEPT !.np = 0, !.kids = Append(@, q)],
                             ![q] = [@ EXCEPT !.state = "run", !.ofile = proc[p].ofile, !.p = proc[p].p, !.code = code]]
     /\ ftable' = [f \in File |-> [ftable[f] EXCEPT !.ref = @ + shared[f]]]
     /\ panic' = IF \E f \in File : shared[f] > 0 /\ ftable[f].ref < 1 THEN "filedup" ELSE ""
     /\ UNCHANGED <<pipes, store, tty, lines, typed, failures>>

\* exit, called or because the process was killed: its files are closed one by one.
exit(p) ==
  LET open == {fd \in Fd : proc[p].ofile[fd] # 0}
  IN /\ Runs(p) /\ ~proc[p].exiting
     /\ At(p, "exit") \/ (proc[p].killed /\ ~proc[p].inkernel)
     /\ panic' = IF p = init THEN "init exiting" ELSE ""
     /\ proc' = With(p, [proc[p] EXCEPT !.exiting = TRUE,
                                        !.code = SetToSortSeq({<<"close", fd>> : fd \in open}, LAMBDA a, b : a[2] < b[2])
                                                 \o <<<<"zombie">>>>])
     /\ UNCHANGED <<ftable, pipes, store, tty, lines, typed, failures>>

Orphaned(ps, p) == [q \in Proc |-> IF ps[q].parent = p THEN [ps[q] EXCEPT !.parent = init] ELSE ps[q]]
Dead(ps, p) == [ps EXCEPT ![p].state = "zombie", ![p].code = <<>>]
\* Then, under the lock of the table: the parent is woken, the children are init's,
\* which is woken if one of them is dead, and the process is a zombie.
exit_zombie(p) ==
  LET woken == wakeup(proc, <<"proc", proc[p].parent>>)
      dead == \E q \in Proc : proc[q].parent = p /\ proc[q].state = "zombie"
  IN /\ At(p, "zombie")
     /\ proc' = Dead(Orphaned(IF dead THEN wakeup(woken, <<"proc", init>>) ELSE woken, p), p)
     /\ UNCHANGED <<ftable, pipes, store, tty, lines, typed, failures, panic>>

\* wait: the first zombie among the children is freed; without children, or killed, -1;
\* else sleep.  init's loop starts a new shell when its own is gone.
wait(p) ==
  LET kids == {q \in Proc : proc[q].parent = p}
      zombies == {q \in kids : proc[q].state = "zombie"}
      got == IF zombies = {} THEN 0 ELSE Min(zombies)
      right == CASE At(p, "reap") -> TRUE
                 [] Arg(p, 1) = "any" -> TRUE
                 [] Arg(p, 1) = "ok" -> got # 0
                 [] Arg(p, 1) = "none" -> got = 0
                 [] Arg(p, 1) = "last" -> got = Last(proc[p].kids)
      next == IF ~At(p, "reap") THEN Rest(p)
              ELSE IF got = 0 \/ got = Last(proc[p].kids) THEN init_main ELSE proc[p].code
  IN /\ At(p, "wait") \/ At(p, "reap")
     /\ \/ /\ zombies # {} \/ kids = {} \/ proc[p].killed
           /\ proc' = [q \in Proc |-> IF q = p THEN Back(p, next) ELSE IF q = got THEN Unused ELSE proc[q]]
           /\ failures' = IF right THEN failures ELSE failures \cup {"wait"}
        \/ /\ zombies = {} /\ kids # {} /\ ~proc[p].killed
           /\ proc' = With(p, Asleep(p, proc[p].code, <<"proc", p>>))
           /\ UNCHANGED failures
     /\ UNCHANGED <<ftable, pipes, store, tty, lines, typed, panic>>

\* kill of the program's i-th child.
kill(p) ==
  LET q == proc[p].kids[Arg(p, 1)]
  IN /\ At(p, "kill")
     /\ proc' = [With(p, Back(p, Rest(p))) EXCEPT
                   ![q] = IF @.state = "unused" THEN @
                          ELSE [@ EXCEPT !.killed = TRUE, !.state = IF @ = "sleeping" THEN "run" ELSE @]]
     /\ UNCHANGED <<ftable, pipes, store, tty, lines, typed, failures, panic>>

\* exec of a program, or the next call if there is none of that name.
exec(p) ==
  /\ At(p, "exec")
  /\ proc' = With(p, IF IsProgram(Arg(p, 1))
                     THEN [Back(p, Program(Arg(p, 1))) EXCEPT !.p = <<0, 0>>, !.kids = <<>>]
                     ELSE Back(p, Rest(p)))
  /\ UNCHANGED <<ftable, pipes, store, tty, lines, typed, failures, panic>>

\* The shell reads a line.
Calls == [s \in UNION {{t[k] : k \in DOMAIN t} : t \in Starts} |-> ShellCalls(s)]
getcmd(p) ==
  /\ At(p, "getcmd") /\ lines # <<>>
  /\ proc' = With(p, [Back(p, Calls[lines[1]]) EXCEPT !.kids = <<>>])
  /\ lines' = Tail(lines)
  /\ UNCHANGED <<ftable, pipes, store, tty, typed, failures, panic>>

Step(p) ==
  \/ sys_dup(p) \/ sys_open(p) \/ sys_close(p) \/ sys_pipe(p) \/ sys_write(p) \/ sys_read(p)
  \/ fork_alloc(p) \/ fork_run(p) \/ exit(p) \/ exit_zombie(p) \/ wait(p) \/ kill(p) \/ exec(p) \/ getcmd(p)

\* A shell at its prompt, and nobody else but init, who waits.  When all that is typed
\* has been read the system stops here.
Prompt ==
  /\ proc[init].state = "sleeping"
  /\ \E s \in Proc \ {init} : At(s, "getcmd") /\ \A q \in Proc \ {init, s} : proc[q].state = "unused"
Quiet == Prompt /\ lines = <<>>

Next == \E p \in Proc : Step(p)

\* The scheduler runs every process that can run, in turn.
Spec == Init /\ [][Next]_vars /\ \A p \in Proc : WF_vars(Step(p))
=============================================================================
