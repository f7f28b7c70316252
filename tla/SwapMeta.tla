------------------------------ MODULE SwapMeta ------------------------------
(***************************************************************************)
(* The paging fields of struct proc (proc.h) and the operations of swap.c  *)
(* on them, for the default build (SELECTION=SCFIFO).  Each C function is  *)
(* an operator from the paging record of a process to its new value; the   *)
(* state machine of module Paging applies them.                            *)
(*                                                                         *)
(* Representation.  pages[] is kept as one set or function per field of    *)
(* struct page_meta: a flag is the set of indices that have it.  A page    *)
(* table is kept the same way, per flag of mmu.h.  Addresses are virtual   *)
(* page numbers, a pointer to a page table entry is the page number it     *)
(* translates, and swap offsets and file sizes count pages.                *)
(***************************************************************************)
EXTENDS Integers

CONSTANTS
  MAX_PHYS_PAGES,    \* resident pages a process may have (param.h)
  MAX_TOTAL_PAGES,   \* entries of p->pages (param.h)
  NVPN,              \* virtual pages of the modelled address space
  Frame,             \* physical page frames
  NoFrame,           \* no frame: an unmapped or swapped out page
  Data,              \* what a page may contain
  Zero,              \* the content of a page after memset(mem, 0, PGSIZE)
  Junk               \* the content of a page that nobody has filled

ASSUME SizesAssumption ==
  /\ MAX_PHYS_PAGES \in Nat /\ MAX_TOTAL_PAGES \in Nat /\ NVPN \in Nat
  /\ 2 <= MAX_PHYS_PAGES /\ MAX_PHYS_PAGES <= MAX_TOTAL_PAGES /\ 1 <= NVPN

ASSUME ValuesAssumption ==
  /\ NoFrame \notin Frame
  /\ Zero \in Data /\ Junk \in Data /\ Zero # Junk

\* Mutant: as many swap pages as pages that are not resident, without the spare one.
no_spare_page == MAX_TOTAL_PAGES - MAX_PHYS_PAGES

MAX_SWAP_FILE_SZ == MAX_TOTAL_PAGES - MAX_PHYS_PAGES + 1
Slot == 0 .. MAX_TOTAL_PAGES - 1       \* indices of p->pages
SwapSlot == 0 .. MAX_SWAP_FILE_SZ - 1  \* indices of p->offsets, and offsets
Vpn == 0 .. NVPN - 1
TAKEN_OFFSET == -1

\* The index at which a loop from 0 upwards over the indices stops, -1 if none.
First(S) == IF S = {} THEN -1 ELSE CHOOSE i \in S : \A j \in S : i <= j

\* The part of struct proc that swap.c and vm.c work on, with the page table
\* (PTE_*) that p->pgdir points to and the swap file's contents and length.
PageRec ==
  [ taken : SUBSET Slot, on_phys : SUBSET Slot,
    pte : [Slot -> Vpn \cup {-1}], offset : [Slot -> SwapSlot \cup {-1}],
    nextp : [Slot -> Slot \cup {-1}], prevp : [Slot -> Slot \cup {-1}],
    headp : Slot \cup {-1}, phys_pages : Int, num_of_pages : Int,
    offsets : [SwapSlot -> SwapSlot \cup {TAKEN_OFFSET}],
    file_size : 0 .. MAX_SWAP_FILE_SZ, swap_len : 0 .. MAX_SWAP_FILE_SZ,
    swap : [SwapSlot -> Data],
    PTE_P : SUBSET Vpn, PTE_PG : SUBSET Vpn, PTE_A : SUBSET Vpn,
    PTE_U : SUBSET Vpn, PTE_ADDR : [Vpn -> Frame \cup {NoFrame}] ]

\* Every field init_page_meta sets; an empty page table, and an empty swap file.
\* file_size is not among the fields it resets.
init_page_meta(size) ==
  [ taken |-> {}, on_phys |-> {},
    pte |-> [i \in Slot |-> -1], offset |-> [i \in Slot |-> -1],
    nextp |-> [i \in Slot |-> -1], prevp |-> [i \in Slot |-> -1],
    headp |-> -1, phys_pages |-> 0, num_of_pages |-> 0,
    offsets |-> [i \in SwapSlot |-> i],
    file_size |-> size, swap_len |-> 0, swap |-> [i \in SwapSlot |-> Junk],
    PTE_P |-> {}, PTE_PG |-> {}, PTE_A |-> {}, PTE_U |-> {},
    PTE_ADDR |-> [v \in Vpn |-> NoFrame] ]

find_page_ind(pr, v) == First({i \in pr.taken : pr.pte[i] = v})
find_free_slot(pr) == First(Slot \ pr.taken)

\* Mutant: get_offset searches from the end of the table.
last_offset_ind(pr) ==
  LET S == {i \in SwapSlot : pr.offsets[i] # TAKEN_OFFSET}
  IN IF S = {} THEN -1 ELSE CHOOSE i \in S : \A j \in S : i >= j

\* get_offset takes the offset at this index; -1 is panic("swap file").
get_offset_ind(pr) == First({i \in SwapSlot : pr.offsets[i] # TAKEN_OFFSET})
\* free_offset stores an offset at this index; -1 is panic("swap file").
free_offset_ind(pr) == First({i \in SwapSlot : pr.offsets[i] = TAKEN_OFFSET})
\* Mutant: free_offset stores the offset that the index had initially.
free_own_offset(pr, off) ==
  LET i == free_offset_ind(pr) IN [pr.offsets EXCEPT ![i] = i]
\* The table of offsets after free_offset(off).
free_offset(pr, off) == [pr.offsets EXCEPT ![free_offset_ind(pr)] = off]

\* mappages of one page, with permissions PTE_W|PTE_U.
mappages(pr, v, f) ==
  [pr EXCEPT !.PTE_P = @ \cup {v}, !.PTE_U = @ \cup {v},
             !.PTE_PG = @ \ {v}, !.PTE_A = @ \ {v}, !.PTE_ADDR = [@ EXCEPT ![v] = f]]

\* *pte = 0
clear_pte(pr, v) ==
  [pr EXCEPT !.PTE_P = @ \ {v}, !.PTE_U = @ \ {v},
             !.PTE_PG = @ \ {v}, !.PTE_A = @ \ {v},
             !.PTE_ADDR = [@ EXCEPT ![v] = NoFrame]]

\* The links once page i is in the circular list of resident pages, before the
\* head; the list of one page has no head yet.
next_appended(pr, i) ==
  IF pr.headp = -1 THEN [pr.nextp EXCEPT ![i] = i]
  ELSE [pr.nextp EXCEPT ![i] = pr.headp, ![pr.prevp[pr.headp]] = i]
prev_appended(pr, i) ==
  IF pr.headp = -1 THEN [pr.prevp EXCEPT ![i] = i]
  ELSE [pr.prevp EXCEPT ![i] = pr.prevp[pr.headp], ![pr.headp] = i]

\* Mutant: only the forward links are updated.
prev_kept(pr, i) == pr.prevp

\* The links once page i is out of the list; its own links stay as they are.
next_unlinked(pr, i) == [pr.nextp EXCEPT ![pr.prevp[i]] = pr.nextp[i]]
prev_unlinked(pr, i) == [pr.prevp EXCEPT ![pr.nextp[i]] = pr.prevp[i]]

\* The head once page i is gone.
next_head(pr, i) ==
  IF pr.headp # i THEN pr.headp ELSE IF pr.nextp[i] = i THEN -1 ELSE pr.nextp[i]

\* p->file_size after a write at off.
size_after(size, off) == IF off + 1 > size THEN off + 1 ELSE size

\* Mutant: a write at the end of the file is refused.
write_not_at_end(pr, off, d) ==
  IF off >= pr.swap_len THEN pr ELSE [pr EXCEPT !.swap[off] = d]

\* writei refuses to write beyond the end of the file, and nobody looks at
\* the result: such a write leaves the swap file as it was.
writeToSwapFile(pr, off, d) ==
  IF off > pr.swap_len THEN pr
  ELSE [pr EXCEPT !.swap = [@ EXCEPT ![off] = d],
                  !.swap_len = IF off = @ THEN @ + 1 ELSE @]

\* A read that starts at or beyond the end of the file fills nothing.
readFromSwapFile(pr, off) == IF off < pr.swap_len THEN pr.swap[off] ELSE Junk

\* Writes the resident page v, whose content is d, to the swap file; the
\* caller has checked that get_offset does not panic.
swap_to_file(pr, v, d) ==
  LET i == find_page_ind(pr, v)
      s == get_offset_ind(pr)
      off == pr.offsets[s]
      Own(links) == [links EXCEPT ![i] = IF pr.headp = i THEN -1 ELSE @]
  IN [writeToSwapFile(pr, off, d) EXCEPT
       !.offsets = [@ EXCEPT ![s] = TAKEN_OFFSET],
       !.offset = [@ EXCEPT ![i] = off],
       !.on_phys = @ \ {i},
       !.file_size = size_after(@, off),
       !.PTE_P = @ \ {v}, !.PTE_PG = @ \cup {v},
       !.PTE_ADDR = [@ EXCEPT ![v] = NoFrame],
       !.phys_pages = @ - 1,
       !.headp = next_head(pr, i),
       !.nextp = Own(next_unlinked(pr, i)),
       !.prevp = Own(prev_unlinked(pr, i))]

\* The bookkeeping of swap_from_file for page v, already mapped; the caller has
\* checked that free_offset does not panic and that the list has a head.
swap_from_file(pr, v) ==
  LET i == find_page_ind(pr, v)
  IN [pr EXCEPT !.offsets = free_offset(pr, pr.offset[i]),
                !.offset = [@ EXCEPT ![i] = -1],
                !.on_phys = @ \cup {i}, !.phys_pages = @ + 1,
                !.nextp = next_appended(pr, i), !.prevp = prev_appended(pr, i)]

\* Adds the mapped page v.  With no free index only the counters change and
\* the caller kills the process.
add_page(pr, v) ==
  LET i == find_free_slot(pr)
      c == [pr EXCEPT !.num_of_pages = @ + 1, !.phys_pages = @ + 1]
  IN IF i = -1 THEN c
     ELSE [c EXCEPT !.pte = [@ EXCEPT ![i] = v],
                    !.taken = @ \cup {i}, !.on_phys = @ \cup {i},
                    !.headp = IF @ = -1 THEN i ELSE @,
                    !.nextp = next_appended(pr, i), !.prevp = prev_appended(pr, i)]

\* Mutant: the entry stays taken.
remove_page_keeps_entry(pr, v) ==
  LET i == find_page_ind(pr, v)
      res == i \in pr.on_phys
  IN [pr EXCEPT !.num_of_pages = @ - 1,
                !.phys_pages = IF res THEN @ - 1 ELSE @,
                !.on_phys = @ \ {i}, !.headp = next_head(pr, i),
                !.nextp = IF res THEN next_unlinked(pr, i) ELSE @,
                !.prevp = IF res THEN prev_unlinked(pr, i) ELSE @,
                !.offset = [@ EXCEPT ![i] = -1],
                !.offsets = IF pr.offset[i] = -1 THEN @ ELSE free_offset(pr, pr.offset[i])]

\* Removes page v; the entry's links stay as they are.  The caller has checked
\* that the page has an entry (panic("remove page")).
remove_page(pr, v) ==
  LET i == find_page_ind(pr, v)
      res == i \in pr.on_phys
  IN [pr EXCEPT !.num_of_pages = @ - 1,
                !.phys_pages = IF res THEN @ - 1 ELSE @,
                !.taken = @ \ {i}, !.pte = [@ EXCEPT ![i] = -1],
                !.on_phys = @ \ {i}, !.headp = next_head(pr, i),
                !.nextp = IF res THEN next_unlinked(pr, i) ELSE @,
                !.prevp = IF res THEN prev_unlinked(pr, i) ELSE @,
                !.offset = [@ EXCEPT ![i] = -1],
                !.offsets = IF pr.offset[i] = -1 THEN @ ELSE free_offset(pr, pr.offset[i])]

-----------------------------------------------------------------------------
Resident(pr) == pr.on_phys
Swapped(pr) == pr.taken \ pr.on_phys

\* pages[] agrees with the page table: there is one entry for every mapped page
\* and for no other, resident or swapped out as PTE_P and PTE_PG say, and only
\* resident pages have a frame.
MetaOK(pr) ==
  /\ pr.on_phys \subseteq pr.taken
  /\ \A i \in pr.taken : pr.pte[i] \in Vpn
  /\ \A i, j \in pr.taken : pr.pte[i] = pr.pte[j] => i = j
  /\ pr.PTE_P = {pr.pte[i] : i \in Resident(pr)}
  /\ pr.PTE_PG = {pr.pte[i] : i \in Swapped(pr)}
  /\ \A v \in Vpn : v \in pr.PTE_P <=> pr.PTE_ADDR[v] # NoFrame

\* nextp and prevp link the resident pages, both ways, and headp is one of them.
RingOK(pr) ==
  /\ \A i \in Resident(pr) :
       /\ pr.nextp[i] \in Resident(pr) /\ pr.prevp[pr.nextp[i]] = i
       /\ pr.prevp[i] \in Resident(pr) /\ pr.nextp[pr.prevp[i]] = i
  /\ IF Resident(pr) = {} THEN pr.headp = -1 ELSE pr.headp \in Resident(pr)

\* They form a single circle: no part of it is closed under nextp.
OneCircle(pr) ==
  \A S \in SUBSET Resident(pr) :
    S # {} /\ (\A i \in S : pr.nextp[i] \in S) => S = Resident(pr)

\* The page offsets that get_offset may hand out, and those of swapped out pages.
Available(pr) == {pr.offsets[s] : s \in SwapSlot} \ {TAKEN_OFFSET}
Used(pr) == {pr.offset[i] : i \in Swapped(pr)}

\* Every offset of the swap file is available once, or holds one page.
OffsetsOK(pr) ==
  /\ Available(pr) \cap Used(pr) = {}
  /\ Available(pr) \cup Used(pr) = SwapSlot
  /\ \A s, t \in SwapSlot :
       pr.offsets[s] = pr.offsets[t] /\ pr.offsets[s] # TAKEN_OFFSET => s = t
  /\ \A i \in Swapped(pr) : pr.offset[i] # -1
  /\ \A i \in Slot \ Swapped(pr) : pr.offset[i] = -1
  /\ \A i, j \in Swapped(pr) : pr.offset[i] = pr.offset[j] => i = j
=============================================================================
