------------------------------ MODULE Console ------------------------------
(***************************************************************************)
(* console.c: the line editor that the keyboard and serial interrupts run, *)
(* and the processes that read and write the console.  cons.lock protects  *)
(* the circular buffer; the console's inode is locked by sys_read and      *)
(* sys_write, and consoleread and consolewrite let go of it meanwhile.     *)
(***************************************************************************)
EXTENDS Integers, Sequences
CONSTANTS
    Proc,        \* the processes, positive numbers
    INPUT_BUF,   \* the size of the buffer
    Wrap,        \* the indices are unsigned numbers modulo Wrap (2^32)
    ReadSizes,   \* bytes asked for by a read
    MaxTyped,    \* bound on the characters typed
    MaxCalls,    \* bound on the calls
    Killable,    \* the processes that somebody may kill
    Start        \* where the indices stand after earlier input, all of it read
VARIABLES
    input,       \* the buffer and the indices r (read), w (write) and e (edit)
    lock,        \* the process that holds cons.lock, 0 when it is free
    inode,       \* the process that has locked the console's inode, or 0
    proc,        \* where each process is in its call, and its locals
    typed,       \* the characters typed so far
    calls        \* the calls made so far
vars == <<input, lock, inode, proc, typed, calls>>

ASSUME ConsoleConstants == /\ Proc \subseteq Nat \ {0} /\ INPUT_BUF \in Nat \ {0}
                           /\ Wrap \in Nat /\ Wrap % INPUT_BUF = 0 /\ Wrap > INPUT_BUF
                           /\ ReadSizes \subseteq Nat \ {0} /\ Start \in 0..Wrap-1

Keys == {"a", "b", "nl", "D", "U", "H"}
Diff(i, j) == (i - j) % Wrap
Plus(i, k) == (i + k) % Wrap
At(in, i) == in.buf[i % INPUT_BUF]
\* The bytes at the indices i, i+1, ..., j-1.
Bytes(in, i, j) == [k \in 1..Diff(j, i) |-> At(in, Plus(i, k - 1))]

User(killed) == [pc |-> "user", op |-> "none", n |-> 0, target |-> 0,
                 dst |-> <<>>, killed |-> killed]

Init ==
    /\ input = [buf |-> [i \in 0..INPUT_BUF-1 |-> "none"], 
                r |-> Start, w |-> Start, e |-> Start]
    /\ lock = 0 /\ inode = 0 /\ typed = 0 /\ calls = 0
    /\ proc = [p \in Proc |-> User(FALSE)]

Goto(p, pc) == proc' = [proc EXCEPT ![p].pc = pc]
\* wakeup(&input.r)
Woken == [p \in Proc |-> IF proc[p].pc = "sleeping"
                         THEN [proc[p] EXCEPT !.pc = "acquire"] ELSE proc[p]]

-----------------------------------------------------------------------------
(* Control-U erases the line, back to the last newline or what is entered.  *)
kill_line(in) ==
    LET keep(i) == i = in.w \/ At(in, Plus(i, -1)) = "nl"
        back    == CHOOSE k \in 0..Diff(in.e, in.w) :
                      /\ keep(Plus(in.e, -k))
                      /\ \A j \in 0..k-1 : ~keep(Plus(in.e, -j))
    IN  [in EXCEPT !.e = Plus(@, -back)]

backspace(in) == IF in.e # in.w THEN [in EXCEPT !.e = Plus(@, -1)] ELSE in

Enters(in, c) == c \in {"nl", "D"} \/ in.e = Plus(in.r, INPUT_BUF)

\* Mutant: one character more than the buffer holds.
Room_one_more(in) == Diff(in.e, in.r) <= INPUT_BUF
Room(in) == Diff(in.e, in.r) < INPUT_BUF

\* One character of an interrupt; the next one of the same interrupt is the
\* same action again, with no other step between.
consoleintr(c) ==
    LET put == [input EXCEPT !.buf[input.e % INPUT_BUF] = c, !.e = Plus(@, 1)]
    IN  /\ lock = 0 /\ typed < MaxTyped
        /\ typed' = typed + 1
        /\ CASE c = "U" -> input' = kill_line(input) /\ UNCHANGED proc
             [] c = "H" -> input' = backspace(input) /\ UNCHANGED proc
             [] OTHER ->
                IF ~Room(input) THEN UNCHANGED <<input, proc>>
                ELSE IF Enters(put, c)
                THEN input' = [put EXCEPT !.w = put.e] /\ proc' = Woken
                ELSE input' = put /\ UNCHANGED proc
        /\ UNCHANGED <<lock, inode, calls>>

-----------------------------------------------------------------------------
(* A call: fileread or filewrite locks the inode, consoleread or            *)
(* consolewrite unlocks it, does its work under cons.lock, and locks the    *)
(* inode again for its caller to unlock.                                    *)
Call(p, op, n) ==
    /\ proc[p].pc = "user" /\ ~proc[p].killed /\ calls < MaxCalls
    /\ inode = 0 /\ inode' = p
    /\ proc' = [proc EXCEPT ![p] = [@ EXCEPT !.pc = "iunlock", !.op = op, !.n = n, !.target = n]]
    /\ calls' = calls + 1
    /\ UNCHANGED <<input, lock, typed>>

\* Mutant: the inode stays locked while the call waits.
iunlock_not(p) ==
    /\ proc[p].pc = "iunlock"
    /\ Goto(p, "acquire")
    /\ UNCHANGED <<input, lock, typed, inode, calls>>
iunlock(p) ==
    /\ proc[p].pc = "iunlock"
    /\ inode' = 0 /\ Goto(p, "acquire")
    /\ UNCHANGED <<input, lock, typed, calls>>

\* The loop of consoleread with n bytes to go passes over i bytes and stops:
\* before a newline or an end of file, or with nothing left to ask for or read.
Most(in, n) == IF n <= Diff(in.w, in.r) THEN n ELSE Diff(in.w, in.r)
Ends(in, i) == At(in, Plus(in.r, i)) \in {"nl", "D"}
Stops(in, n, i) == /\ i = Most(in, n) \/ Ends(in, i)
                   /\ \A j \in 0..i-1 : ~Ends(in, j)

\* What the loop leaves when it stops there: the newline is copied too; the
\* end of file is not, and only a read that has no bytes yet takes it.
Copied(in, n, target, dst, i) ==
    LET ended == i < Most(in, n)
        eof   == ended /\ At(in, Plus(in.r, i)) = "D"
        k     == IF ended /\ ~eof THEN i + 1 ELSE i
        gone  == IF eof /\ n - k = target THEN k + 1 ELSE k
    IN  [in   |-> [in EXCEPT !.r = Plus(@, gone)],
         n    |-> n - k,
         dst  |-> dst \o Bytes(in, in.r, Plus(in.r, k)),
         over |-> ended \/ k = n]

\* The loop stops in one place.
Copy(in, n, target, dst) ==
    {Copied(in, n, target, dst, i) : i \in {j \in 0..Most(in, n) : Stops(in, n, j)}}

\* Mutant: cons.lock is released before the process sleeps.
consoleread_unlocks(p) ==
    /\ proc[p].pc = "acquire" /\ proc[p].op = "read" /\ lock = 0
    /\ \E s \in Copy(input, proc[p].n, proc[p].target, proc[p].dst) :
         LET waits == ~s.over /\ ~proc[p].killed
         IN  /\ input' = s.in /\ lock' = 0
             /\ proc' = [proc EXCEPT ![p] = [@ EXCEPT !.n = s.n, !.dst = s.dst,
                                             !.pc = IF waits THEN "sleep" ELSE "ilock"]]
    /\ UNCHANGED <<inode, typed, calls>>

consoleread(p) ==
    /\ proc[p].pc = "acquire" /\ proc[p].op = "read" /\ lock = 0
    /\ \E s \in Copy(input, proc[p].n, proc[p].target, proc[p].dst) :
         LET waits == ~s.over /\ ~proc[p].killed
         IN  /\ input' = s.in /\ lock' = IF waits THEN p ELSE 0
             /\ proc' = [proc EXCEPT ![p] = [@ EXCEPT !.n = s.n, !.dst = s.dst,
                                             !.pc = IF waits THEN "sleep" ELSE "ilock"]]
    /\ UNCHANGED <<inode, typed, calls>>

\* sleep(&input.r, &cons.lock): a kill since the test above is not noticed.
sleep(p) ==
    /\ proc[p].pc = "sleep"
    /\ lock' = 0 /\ Goto(p, "sleeping")
    /\ UNCHANGED <<input, inode, typed, calls>>

consolewrite(p) ==
    /\ proc[p].pc = "acquire" /\ proc[p].op = "write" /\ lock = 0
    /\ Goto(p, "ilock")
    /\ UNCHANGED <<input, lock, inode, typed, calls>>

ilock(p) ==
    /\ proc[p].pc = "ilock" /\ inode = 0
    /\ inode' = p /\ Goto(p, "return")
    /\ UNCHANGED <<input, lock, typed, calls>>

Return(p) ==
    /\ proc[p].pc = "return"
    /\ inode' = 0 /\ proc' = [proc EXCEPT ![p] = User(@.killed)]
    /\ UNCHANGED <<input, lock, typed, calls>>

kill(p) ==
    /\ p \in Killable /\ ~proc[p].killed
    /\ proc' = [proc EXCEPT ![p].killed = TRUE,
                            ![p].pc = IF @ = "sleeping" THEN "acquire" ELSE @]
    /\ UNCHANGED <<input, lock, inode, typed, calls>>

Step(p) == iunlock(p) \/ consoleread(p) \/ sleep(p) \/ consolewrite(p) \/ ilock(p) \/ Return(p)
Next ==
    \/ \E c \in Keys : consoleintr(c)
    \/ \E p \in Proc : Step(p)
    \/ \E p \in Proc, n \in ReadSizes : Call(p, "read", n)
    \/ \E p \in Proc : Call(p, "write", 0)
    \/ \E p \in Proc : kill(p)

\* A process that can run in the kernel is eventually run: the scheduler goes
\* round the table, and cons.lock is held for a bounded time.
Spec == Init /\ [][Next]_vars /\ \A p \in Proc : WF_vars(Step(p))

-----------------------------------------------------------------------------
\* What a process has asked for and not been given.
Asks(p) == IF proc[p].op = "read" /\ proc[p].pc \in {"iunlock", "acquire", "sleep", "sleeping"}
           THEN proc[p].n ELSE 0

L == INSTANCE LineDiscipline WITH
        ready <- Bytes(input, input.r, input.w),
        line  <- Bytes(input, input.w, input.e),
        want  <- [p \in Proc |-> Asks(p)],
        got   <- [p \in Proc |-> proc[p].dst],
        killed <- [p \in Proc |-> proc[p].killed]

\* The circular buffer with its three wrapping indices implements the line
\* discipline: editing never reaches what has been entered, no byte is lost,
\* repeated or reordered between the interrupt handler and any number of
\* readers, one read returns at most one line, and an end of file that follows
\* other bytes is still there for the next read (console.c, consoleintr and
\* consoleread).
LinesKept == L!Spec

\* A reader sleeps only while there is nothing to read: no order of
\* interrupts, reads, kills and put-back ends of file loses the wakeup of
\* consoleintr.
ReadersWoken == (\E p \in Proc : proc[p].pc = "sleeping") => input.r = input.w

\* A reader that waits for a line keeps nobody else from the console: every
\* write returns, and what has been entered is read while somebody reads
\* (the inode is not locked while consoleread sleeps).
Reading(p) == proc[p].op = "read" /\ proc[p].pc # "user"
Served ==
    /\ \A p \in Proc : (proc[p].op = "write" /\ proc[p].pc # "user") ~> (proc[p].pc = "user")
    /\ \A p \in Proc : (Reading(p) /\ input.r # input.w) ~> (~Reading(p) \/ input.r = input.w)
=============================================================================
