--------------------------- MODULE LineDiscipline ---------------------------
(***************************************************************************)
(* What the console promises to the programs that read it, without its     *)
(* circular buffer: the line being typed can still be edited, what has     *)
(* been entered is read in order, and one read takes at most one line.     *)
(***************************************************************************)
EXTENDS Integers, Sequences, FiniteSetsExt
CONSTANTS
    Proc,        \* the processes that read
    INPUT_BUF,   \* how much may be typed ahead
    ReadSizes    \* the sizes of the reads
VARIABLES
    ready,       \* what has been entered and not been read
    line,        \* the line that is being typed
    want,        \* want[p]: bytes that p's read still asks for, 0 when it is over
    got,         \* got[p]: what p's read has taken so far
    killed       \* killed[p]: p has been killed
vars == <<ready, line, want, got, killed>>

Ends == {"nl", "D"}     \* the end of a line and the end of the file

Init ==
    /\ ready = <<>> /\ line = <<>>
    /\ want = [p \in Proc |-> 0]
    /\ got = [p \in Proc |-> <<>>]
    /\ killed = [p \in Proc |-> FALSE]

Erase ==
    /\ line # <<>>
    /\ line' \in {<<>>, SubSeq(line, 1, Len(line) - 1)}
    /\ UNCHANGED <<ready, want, got, killed>>

\* A character that ends a line, or fills the buffer, enters the line.
Enter(c) ==
    LET typed == Append(line, c)
    IN  /\ Len(ready \o typed) <= INPUT_BUF
        /\ IF c \in Ends \/ Len(ready \o typed) = INPUT_BUF
           THEN ready' = ready \o typed /\ line' = <<>>
           ELSE line' = typed /\ UNCHANGED ready
        /\ UNCHANGED <<want, got, killed>>

Ask(p, n) ==
    /\ want[p] = 0 /\ got[p] = <<>>
    /\ want' = [want EXCEPT ![p] = n]
    /\ UNCHANGED <<ready, line, got, killed>>

\* One read takes, at once, what is left of a line or as much as it asked for.
\* An end of file is a read of no bytes: after other bytes it is left for the
\* next read.  The read of a killed process does not wait for more.
Take(p) ==
    LET stops == {i \in 1..Len(ready) : i <= want[p] /\ ready[i] \in Ends}
        ended == stops # {}
        eof   == ended /\ ready[Min(stops)] = "D"
        k     == IF eof THEN Min(stops) - 1
                 ELSE IF ended THEN Min(stops) ELSE Min({want[p], Len(ready)})
        bytes == got[p] \o SubSeq(ready, 1, k)
        gone  == IF eof /\ bytes = <<>> THEN 1 ELSE k
    IN  /\ want[p] > 0 /\ ready # <<>>
        /\ ready' = SubSeq(ready, gone + 1, Len(ready))
        /\ got' = [got EXCEPT ![p] = bytes]
        /\ want' = [want EXCEPT ![p] = IF ended \/ killed[p] THEN 0 ELSE @ - k]
        /\ UNCHANGED <<line, killed>>

\* A killed process gives up when there is nothing to read.
GiveUp(p) ==
    /\ killed[p] /\ want[p] > 0 /\ ready = <<>>
    /\ want' = [want EXCEPT ![p] = 0]
    /\ UNCHANGED <<ready, line, got, killed>>

\* The read returns.
Return(p) ==
    /\ want[p] = 0
    /\ got' = [got EXCEPT ![p] = <<>>]
    /\ UNCHANGED <<ready, line, want, killed>>

Kill(p) ==
    /\ killed' = [killed EXCEPT ![p] = TRUE]
    /\ UNCHANGED <<ready, line, want, got>>

Next ==
    \/ Erase
    \/ \E c \in {"a", "b"} \cup Ends : Enter(c)
    \/ \E p \in Proc : Take(p) \/ GiveUp(p) \/ Return(p) \/ Kill(p)
    \/ \E p \in Proc, n \in ReadSizes : Ask(p, n)

Spec == Init /\ [][Next]_vars
=============================================================================
