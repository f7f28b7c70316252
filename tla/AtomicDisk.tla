----------------------------- MODULE AtomicDisk -----------------------------
(***************************************************************************)
(* What the file system expects of the log: a disk that changes in one     *)
(* step, only between file system operations, and survives crashes.        *)
(***************************************************************************)
EXTENDS Naturals

CONSTANTS Block, Data

VARIABLES
  disk,      \* what is read after a crash
  cache,     \* what is read now
  active     \* operations between begin_op and end_op

Init ==
  /\ disk \in [Block -> Data] /\ cache = disk
  /\ active = 0

Begin == active' = active + 1 /\ UNCHANGED <<disk, cache>>

Write ==
  /\ active > 0
  /\ \E b \in Block, d \in Data : cache' = [cache EXCEPT ![b] = d]
  /\ UNCHANGED <<disk, active>>

End == active > 0 /\ active' = active - 1 /\ UNCHANGED <<disk, cache>>

\* All the updates of the operations since the last commit, and no part of an
\* operation that has not ended.
Commit == active = 0 /\ disk' = cache /\ UNCHANGED <<cache, active>>

Crash == cache' = disk /\ active' = 0 /\ UNCHANGED disk

Next == Begin \/ Write \/ End \/ Commit \/ Crash

Spec == Init /\ [][Next]_<<disk, cache, active>>
=============================================================================
