------------------------------ MODULE MCPaging ------------------------------
EXTENDS Paging, TLC

\* Frames are interchangeable: states that differ only in which frame holds a
\* page are the same state.
Content(p) == [v \in Vpn |-> IF v \in pg[p].PTE_P THEN mem[pg[p].PTE_ADDR[v]] ELSE Junk]
AnyFrames ==
  << [p \in Proc |-> << proc[p], [pg[p] EXCEPT !.PTE_ADDR = Content(p)],
                        [kern[p] EXCEPT !.old = Cardinality(@)] >>],
     Cardinality(free), panic >>

\* So are the slots of a process table of at most two.
AnySlots ==
  << {<< proc[p], [pg[p] EXCEPT !.PTE_ADDR = Content(p)],
         [kern[p] EXCEPT !.old = Cardinality(@), !.peer = Cardinality(@)] >> : p \in Proc},
     Cardinality(free), panic >>
=============================================================================
