----------------------------- MODULE MCConsole -----------------------------
(***************************************************************************)
(* The console for TLC, and the loop of consoleread as it is written.      *)
(***************************************************************************)
EXTENDS Console

\* consoleread's loop, one byte a turn.
RECURSIVE Loop(_, _, _, _)
Loop(in, n, target, dst) ==
    LET c    == At(in, in.r)
        next == [in EXCEPT !.r = Plus(@, 1)]
    IN  IF n = 0 THEN [in |-> in, n |-> 0, dst |-> dst, over |-> TRUE]
        ELSE IF in.r = in.w THEN [in |-> in, n |-> n, dst |-> dst, over |-> FALSE]
        ELSE IF c = "D"
        THEN [in |-> IF n < target THEN in ELSE next, n |-> n, dst |-> dst, over |-> TRUE]
        ELSE IF c = "nl" THEN [in |-> next, n |-> n - 1, dst |-> Append(dst, c), over |-> TRUE]
        ELSE Loop(next, n - 1, target, Append(dst, c))

\* Copy has one element, and it is what the loop computes: from every buffer,
\* wherever its indices stand, for a new read and one that has a byte already.
ASSUME CopyIsLoop ==
    \A buf \in [0..INPUT_BUF-1 -> {"a", "nl", "D"}], r \in 0..Wrap-1,
       d \in 0..INPUT_BUF, n \in 1..INPUT_BUF+1, t \in 0..1 :
       LET in  == [buf |-> buf, r |-> r, w |-> Plus(r, d), e |-> Plus(r, d)]
           dst == [j \in 1..t |-> "a"]
       IN  Copy(in, n, n + t, dst) = {Loop(in, n, n + t, dst)}
=============================================================================
