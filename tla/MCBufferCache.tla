--------------------------- MODULE MCBufferCache ---------------------------
(***************************************************************************)
(* The buffer cache with more blocks than buffers and two or three         *)
(* processes that use the same blocks.                                     *)
(***************************************************************************)
EXTENDS BufferCache

\* No more buffers are held and pinned at a time than there are (NBUF in param.h is three
\* times what an operation may log).
MCPrograms == {
  <<write_head(1, 11) \o readsb(2) \o readsb(1), readsb(3) \o write_head(1, 21), readsb(1) \o write_head(4, 31)>>,
  <<log_write(1, 11) \o readsb(2) \o write_log(4, 1) \o install_trans(4, 1),
    readsb(3) \o readsb(1) \o readsb(2), <<>>>>,
  <<log_write(1, 11) \o write_log(4, 1) \o write_head(3, 12) \o install_trans(4, 1), write_head(2, 21) \o readsb(1), readsb(1)>> }

\* The kernel always finds what was last written to a block, in the cache or, once its
\* buffer was recycled, on the disk: buffers are recycled, read in by one process while
\* another asks for them, and changed in the cache only, in every order.
Coherent ==
  \A k \in Block :
    LET copies == {b \in Buf : buf[b].block = k /\ buf[b].valid}
    IN /\ \A b \in copies : buf[b].data = content[k]
       /\ copies = {} => disk[k] = content[k]

\* No block has two buffers; a buffer is counted by the processes that have it, and only
\* one of them has it locked; whoever has a request in the queue has it once, with the
\* buffer locked, and the disk works exactly when there is one.
BuffersSound ==
  /\ \A a, b \in Buf : buf[a].block = buf[b].block /\ buf[a].block # NoBlock => a = b
  /\ \A b \in Buf : buf[b].refcnt = Cardinality({s \in Proc \X Slot : proc[s[1]].has[s[2]] = b})
  /\ \A b \in Buf : buf[b].holder # 0 => \E i \in Slot : proc[buf[b].holder].has[i] = b
  /\ \A i, j \in DOMAIN idequeue : idequeue[i] = idequeue[j] => i = j
  /\ \A i \in DOMAIN idequeue : buf[idequeue[i]].holder # 0 /\ (buf[idequeue[i]].valid => buf[idequeue[i]].dirty)
  /\ busy = (idequeue # <<>>)
  /\ panic = ""

\* Every request is served and every lock is given up in the end.
AllServed == <>[](\A p \in Proc : proc[p].todo = <<>>)
=============================================================================
