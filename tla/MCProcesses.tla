---------------------------- MODULE MCProcesses ----------------------------
(***************************************************************************)
(* Processes with a shell and lines that are typed at it, and what the     *)
(* lines mean.                                                             *)
(***************************************************************************)
EXTENDS Processes

Lines == {
  <<<<"cd", "d">>, <<"echo", "a", "b", "c", "|", "cat">>>>,
  <<<<"echo", "a", "b", "c", ">", "f">>, <<"cat", "f", "f">>, <<"echo", "d", ">", "f">>, <<"cat", "<", "f">>>>,
  <<<<"(", "echo", "a", ";", "echo", "b", ")", "|", "cat">>>>,
  <<<<"(", "echo", "a", ";", "echo", "b", ")", ">", "f", ";", "cat", "f">>>>,
  <<<<"echo", "a", "&">>, <<"zombie">>>>,
  <<<<"echo", "a", "&", "echo", "b">>, <<"echo", "|", ">">>, <<"none">>, <<"cat", "g">>, <<"echo", "c">>>>,
  <<<<"echo", "a", "b", "c", "|", "none">>>>,
  <<<<"pipe1">>>>, <<<<"preempt">>>>, <<<<"exitwait">>>>, <<<<"forktest">>>> }
\* More processes than there are slots.
Crowded == {<<<<"(", "echo", "a", ";", ")", "|", "(", "cat", ";", ")">>>>}
\* How much is written before the writer is killed is left to chance.
Killed == {<<<<"kill_writer">>>>}
MCStarts == Lines \cup Crowded \cup Killed

-----------------------------------------------------------------------------
\* What a command means: given its input and the files, its output and the files after
\* it.  A child that cannot be made is not part of it.

RECURSIVE Does(_, _, _), DoesLines(_, _)

Cats(names, files) == FlattenSeq([i \in 1 .. Len(names) |-> IF names[i] \in DOMAIN files THEN files[names[i]] ELSE <<>>])
Does(c, in, files) ==
  CASE c.type = "exec" ->
         [files |-> files,
          out |-> IF c.argv = <<>> THEN <<>>
                  ELSE CASE c.argv[1] = "echo" -> Tail(c.argv)
                         [] c.argv = <<"cat">> -> in
                         [] c.argv[1] = "cat" -> Cats(Tail(c.argv), files)
                         [] c.argv[1] \in {"pipe1", "preempt", "exitwait", "forktest"} -> <<"ok">>
                         [] OTHER -> <<>>]
    [] c.type = "redir" /\ c.mode = "read" -> Does(c.cmd, IF c.file \in DOMAIN files THEN files[c.file] ELSE <<>>, files)
    [] c.type = "redir" /\ c.mode = "write" ->
         LET made == [n \in DOMAIN files \cup {c.file} |-> IF n \in DOMAIN files THEN files[n] ELSE <<>>]
             r == Does(c.cmd, in, made)
         IN [out |-> <<>>, files |-> [r.files EXCEPT ![c.file] = r.out \o SubSeq(@, Len(r.out) + 1, Len(@))]]
    [] c.type = "pipe" -> LET l == Does(c.left, in, files) IN Does(c.right, l.out, l.files)
    [] c.type = "list" -> LET l == Does(c.left, in, files)
                              r == Does(c.right, <<>>, l.files)
                          IN [r EXCEPT !.out = l.out \o @]
    [] c.type = "back" -> Does(c.cmd, in, files)

DoesLines(ls, files) ==
  IF ls = <<>> THEN [out |-> <<>>, files |-> files]
  ELSE LET c == parsecmd(ls[1])
           r == IF c.ok /\ ls[1][1] # "cd" THEN Does(c.cmd, <<>>, files) ELSE [out |-> <<>>, files |-> files]
           rest == DoesLines(Tail(ls), r.files)
       IN [rest EXCEPT !.out = r.out \o @]

-----------------------------------------------------------------------------
\* No test sees a wrong byte, a failed write or a wrong child, and the kernel does not
\* panic (init exiting, fileclose, filedup).
TestsPass == failures = {} /\ panic = ""

\* When the shell is back at its prompt and all background work is done, the console and
\* the files hold what the lines read so far mean, however the processes were
\* interleaved.
LinesDone == SubSeq(typed, 1, Len(typed) - Len(lines))
OutputRight ==
  Prompt /\ typed \in Lines => LET m == DoesLines(LinesDone, [n \in {} |-> <<>>]) IN tty = m.out /\ store = m.files

\* An open file counts its descriptors, those of embryos and zombies included, and a
\* pipe is there exactly as long as one of its ends, open where there is one, and never
\* holds more than fits.
Descriptors(f) == {d \in Proc \X Fd : proc[d[1]].ofile[d[2]] = f}
Ends(i, w) == {f \in File : ftable[f].type = "pipe" /\ ftable[f].pipe = i /\ ftable[f].writable = w}
RefsExact ==
  panic = "" => /\ \A f \in File : ftable[f].ref = Cardinality(Descriptors(f))
                /\ \A i \in PipeId : /\ Stored(i) <= PIPESIZE
                                      /\ pipes[i].readopen = (Ends(i, FALSE) # {})
                                      /\ pipes[i].writeopen = (Ends(i, TRUE) # {})
                                      /\ pipes[i].used = (pipes[i].readopen \/ pipes[i].writeopen)

\* What a sleeper waits for: a reader for bytes or the end of a pipe, a writer for room or
\* the end of the readers, a parent for a zombie or the end of its children.
Ready(c) ==
  CASE c[1] = "nread" -> Stored(c[2]) > 0 \/ ~pipes[c[2]].writeopen
    [] c[1] = "nwrite" -> Stored(c[2]) < PIPESIZE \/ ~pipes[c[2]].readopen
    [] c[1] = "proc" -> LET kids == {k \in Proc : proc[k].parent = c[2]}
                        IN kids = {} \/ \E k \in kids : proc[k].state = "zombie"
Overlooked(q) == proc[q].state = "sleeping" /\ Ready(proc[q].chan)
\* pipewrite of a killed process, which finds the pipe full again and returns without
\* waking those who read it.
GivesUp(q) ==
  \E p \in Proc : /\ proc[p].killed /\ At(p, "write") /\ proc[p].code # proc'[p].code
                 /\ proc[q].chan = <<"nread", ftable[FileOf(p, Arg(p, 1))].pipe>>

\* Nobody comes to sleep, or goes on sleeping, when there is what it waits for, with one
\* exception: a writer that is killed fills the pipe and leaves without waking its reader.
\* That reader too is woken when the last writer closes the pipe.
NoLostWakeup ==
  [][\A q \in Proc : Overlooked(q)' =>
       /\ Overlooked(q) \/ GivesUp(q)
       /\ proc'[q].chan[1] = "nread" /\ pipes'[proc'[q].chan[2]].writeopen]_vars

\* Whatever is typed, all of it is run and every process but init and a shell is gone
\* in the end, reaped.
PromptReturns == <>[]Quiet
=============================================================================
