----------------------------- MODULE UserMemory -----------------------------
(***************************************************************************)
(* What paging promises to user programs: every process has a memory of    *)
(* its own that changes only by what the process does.  There are no       *)
(* frames, no swap files and no page faults here.                          *)
(***************************************************************************)
EXTENDS Integers

CONSTANTS
  Proc,   \* processes
  Page,   \* page numbers of an address space
  Data,   \* what a page may contain
  Zero    \* the content of a new page

VARIABLES
  run,    \* run[p]: "none", "exec" while its image is loaded, or "run"
  img     \* img[p]: the content of each page of its memory

vars == <<run, img>>

Empty == [v \in {} |-> Zero]
UpTo(n) == {v \in Page : v < n}

Init ==
  /\ run = [p \in Proc |-> "none"]
  /\ img = [p \in Proc |-> Empty]

Write(p, v, d) ==
  /\ run[p] = "run" /\ v \in DOMAIN img[p]
  /\ img' = [img EXCEPT ![p] = [@ EXCEPT ![v] = d]]
  /\ UNCHANGED run

\* sbrk with a positive argument: the new pages are zero.
Extend(p, n) ==
  /\ run[p] = "run" /\ DOMAIN img[p] \subseteq UpTo(n)
  /\ img' = [img EXCEPT ![p] =
               [v \in UpTo(n) |-> IF v \in DOMAIN img[p] THEN img[p][v] ELSE Zero]]
  /\ UNCHANGED run

\* sbrk with a negative argument.
Truncate(p, n) ==
  /\ run[p] = "run"
  /\ img' = [img EXCEPT ![p] = [v \in DOMAIN img[p] \cap UpTo(n) |-> img[p][v]]]
  /\ UNCHANGED run

Fork(p, q) ==
  /\ run[p] = "run" /\ run[q] = "none"
  /\ run' = [run EXCEPT ![q] = "run"]
  /\ img' = [img EXCEPT ![q] = img[p]]

Exec(p) ==
  /\ run' = [run EXCEPT ![p] = "exec"]
  /\ img' = [img EXCEPT ![p] = Empty]

Load(p, n) ==
  /\ run[p] = "exec"
  /\ run' = [run EXCEPT ![p] = "run"]
  /\ img' = [img EXCEPT ![p] = [v \in UpTo(n) |-> Zero]]

Exit(p) ==
  /\ run' = [run EXCEPT ![p] = "none"]
  /\ img' = [img EXCEPT ![p] = Empty]

\* What the kernel does behind the program's back.
Hidden == UNCHANGED vars

Next ==
  \/ Hidden
  \/ \E p \in Proc :
       \/ Exec(p) \/ Exit(p)
       \/ \E q \in Proc : Fork(p, q)
       \/ \E v \in Page, d \in Data : Write(p, v, d)
       \/ \E n \in {v + 1 : v \in Page} : Extend(p, n) \/ Load(p, n)
       \/ \E n \in Page : Truncate(p, n)

Spec == Init /\ [][Next]_vars
=============================================================================
