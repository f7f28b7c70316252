----------------------------- MODULE SleepLock -----------------------------
(***************************************************************************)
(* What a sleep lock promises (sleeplock.c): one owner at a time, and a    *)
(* process that finds it taken is asleep until the owner gives it back,    *)
(* as if the test and falling asleep, and giving it back and the wakeup,   *)
(* were one step each.                                                     *)
(***************************************************************************)
EXTENDS Naturals

CONSTANT Proc
VARIABLES
  owner,        \* the process that has the lock, 0 if none
  waiting       \* the processes that sleep until it is given back

vars == <<owner, waiting>>

Init == owner = 0 /\ waiting = {}

Take(p) ==
  /\ owner = 0 /\ p \notin waiting
  /\ owner' = p
  /\ UNCHANGED waiting

Wait(p) ==
  /\ owner # 0 /\ owner # p
  /\ waiting' = waiting \cup {p}
  /\ UNCHANGED owner

\* All who wait are woken, and look again.
Give(p) ==
  /\ owner = p
  /\ owner' = 0
  /\ waiting' = {}

\* A process that is killed is woken, and looks again too.
Interrupt(p) ==
  /\ waiting' = waiting \ {p}
  /\ UNCHANGED owner

Next == \E p \in Proc : Take(p) \/ Wait(p) \/ Give(p) \/ Interrupt(p)
Spec == Init /\ [][Next]_vars
=============================================================================
