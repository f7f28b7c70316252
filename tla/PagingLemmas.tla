---------------------------- MODULE PagingLemmas ----------------------------
(***************************************************************************)
(* Lemmas about the operators of module SwapMeta, for every size of        *)
(* pages[], of the swap file and of the address space: what each function  *)
(* of swap.c changes, and that each keeps the invariant RecOK of a paging  *)
(* record.  Lists are reasoned about with two predicates over the set of   *)
(* their members: Linked (next and prev are inverse) and Circle (there is  *)
(* one cycle); offsets with a bijection between those in use and the slots *)
(* of swapped out pages.  Then, how much of the swap file is written, and  *)
(* what the invariant says of a process in the kernel.                     *)
(***************************************************************************)
EXTENDS PagingInv, FiniteSetTheorems, TLAPS

\* A non-empty set of naturals has a least element.
LEMMA NatMin ==
  ASSUME NEW T, T \subseteq Nat, T # {}
  PROVE  \E x \in T : \A y \in T : x <= y
<1>1. \E x \in T : \A y \in T : ~ (<<y, x>> \in OpToRel(<, Nat))
  BY WFMin, NatLessThanWellFounded, Zenon
<1>2. ASSUME NEW x \in T, NEW y \in T, ~ (<<y, x>> \in OpToRel(<, Nat))
      PROVE  x <= y
  BY <1>2, x \in Nat, y \in Nat DEF OpToRel
<1> QED BY <1>1, <1>2, Zenon

\* What the C loops that search a table from its start return: the least index,
\* or -1.
LEMMA FirstProperty ==
  ASSUME NEW S, S \subseteq Nat
  PROVE  /\ S = {} => First(S) = -1
         /\ S # {} => First(S) \in S /\ \A j \in S : First(S) <= j
BY NatMin, Zenon DEF First

\* The bounds of the swap file's tables, from param.h's sizes.
LEMMA Sizes ==
  /\ MAX_SWAP_FILE_SZ \in Nat /\ MAX_SWAP_FILE_SZ >= 1
  /\ Slot \subseteq Nat /\ SwapSlot \subseteq Nat /\ Vpn \subseteq Nat
  /\ -1 \notin Slot /\ -1 \notin SwapSlot /\ -1 \notin Vpn
  /\ 0 \in Slot /\ 0 \in SwapSlot
BY SizesAssumption DEF MAX_SWAP_FILE_SZ, Slot, SwapSlot, Vpn

\* The write leaves everything but the file alone.
LEMMA WriteFields ==
  ASSUME NEW pr \in PageRec, NEW off \in SwapSlot, NEW d \in Data
  PROVE  LET w == writeToSwapFile(pr, off, d)
         IN w \in PageRec /\ w = [pr EXCEPT !.swap = w.swap, !.swap_len = w.swap_len]
<1>1. CASE off > pr.swap_len
  BY <1>1, Zenon DEF writeToSwapFile, PageRec
<1>2. CASE ~(off > pr.swap_len)
  <2> DEFINE len == IF off = pr.swap_len THEN pr.swap_len + 1 ELSE pr.swap_len
             dat == [pr.swap EXCEPT ![off] = d]
  <2>1. pr.swap_len \in 0 .. MAX_SWAP_FILE_SZ /\ off \in 0 .. MAX_SWAP_FILE_SZ - 1
    BY DEF PageRec, SwapSlot
  <2>2. len \in 0 .. MAX_SWAP_FILE_SZ
    BY <2>1, Sizes
  <2>3. dat \in [SwapSlot -> Data]
    BY DEF PageRec
  <2>4. writeToSwapFile(pr, off, d) = [pr EXCEPT !.swap = dat, !.swap_len = len]
    BY <1>2 DEF writeToSwapFile, PageRec
  <2> HIDE DEF len, dat
  <2> QED BY <2>2, <2>3, <2>4, Zenon DEF PageRec
<1> QED BY <1>1, <1>2

\* The fields that mappages leaves behind.
LEMMA MapFields ==
  ASSUME NEW pr \in PageRec, NEW v \in Vpn, NEW f \in Frame
  PROVE  LET q == mappages(pr, v, f)
         IN /\ q \in PageRec
            /\ SameMeta(q, pr)
            /\ q.PTE_P = pr.PTE_P \cup {v} /\ q.PTE_PG = pr.PTE_PG \ {v}
            /\ q.PTE_ADDR = [pr.PTE_ADDR EXCEPT ![v] = f]
<1> DEFINE P == pr.PTE_P \cup {v}
           PG == pr.PTE_PG \ {v}
           A == pr.PTE_A \ {v}
           U == pr.PTE_U \cup {v}
           ADDR == [pr.PTE_ADDR EXCEPT ![v] = f]
<1>1. P \in SUBSET Vpn /\ PG \in SUBSET Vpn /\ A \in SUBSET Vpn /\ U \in SUBSET Vpn
  BY DEF PageRec
<1>2. ADDR \in [Vpn -> Frame \cup {NoFrame}]
  BY DEF PageRec
<1> DEFINE q == mappages(pr, v, f)
<1>3. q = [pr EXCEPT !.PTE_P = P, !.PTE_U = U, !.PTE_PG = PG,
                                      !.PTE_A = A, !.PTE_ADDR = ADDR]
  BY DEF mappages
<1> HIDE DEF P, PG, A, U, ADDR, q
<1>4. q \in PageRec
  BY <1>1, <1>2, <1>3, Zenon DEF PageRec
<1>5. SameMeta(q, pr) /\ q.PTE_P = P /\ q.PTE_PG = PG /\ q.PTE_ADDR = ADDR
  BY <1>3 DEF PageRec, SameMeta
<1> QED BY <1>4, <1>5 DEF P, PG, ADDR, q

\* find_page_ind finds the entry of a page that the page table mentions.
LEMMA FindPage ==
  ASSUME NEW pr \in PageRec, MetaOK(pr), NEW v \in Vpn
  PROVE  LET i == find_page_ind(pr, v)
         IN /\ v \in pr.PTE_P => i \in pr.on_phys /\ pr.pte[i] = v
            /\ v \in pr.PTE_PG => i \in pr.taken \ pr.on_phys /\ pr.pte[i] = v
            /\ i = -1 <=> v \notin pr.PTE_P \cup pr.PTE_PG
<1> DEFINE S == {i \in pr.taken : pr.pte[i] = v}
           i == find_page_ind(pr, v)
<1>1. S \subseteq Nat /\ S \subseteq Slot
  BY Sizes, Zenon DEF PageRec
<1>2. /\ S = {} => i = -1
      /\ S # {} => i \in S
  BY <1>1, FirstProperty DEF find_page_ind
<1>3. S # {} <=> v \in pr.PTE_P \cup pr.PTE_PG
  BY DEF MetaOK, Resident, Swapped, PageRec
<1>4. i \in S => /\ v \in pr.PTE_P => i \in pr.on_phys
                 /\ v \in pr.PTE_PG => i \in pr.taken \ pr.on_phys
  BY DEF MetaOK, Resident, Swapped, PageRec
<1> HIDE DEF i
<1>5. i \in S => i # -1
  BY <1>1, Sizes
<1> QED BY <1>2, <1>3, <1>4, <1>5 DEF i

\* When a page is swapped out some entry of the table of offsets is taken, so
\* free_offset finds one.
LEMMA FreeOffsetFinds ==
  ASSUME NEW pr \in PageRec, OffsetsOK(pr), NEW i \in Swapped(pr)
  PROVE  /\ pr.offset[i] \in SwapSlot
         /\ free_offset_ind(pr) \in SwapSlot
         /\ pr.offsets[free_offset_ind(pr)] = TAKEN_OFFSET
<1> DEFINE S == {s \in SwapSlot : pr.offsets[s] = TAKEN_OFFSET}
<1>1. pr.offset[i] \in SwapSlot /\ pr.offset[i] \in Used(pr)
  BY DEF OffsetsOK, PageRec, Used, Swapped
<1>2. S # {}
  <2> SUFFICES ASSUME S = {} PROVE FALSE
    OBVIOUS
  <2> DEFINE T == SwapSlot \ {pr.offset[i]}
  <2>1. pr.offsets \in [SwapSlot -> T]
    <3>1. pr.offsets \in [SwapSlot -> SwapSlot \cup {TAKEN_OFFSET}]
      BY DEF PageRec
    <3>2. ASSUME NEW s \in SwapSlot PROVE pr.offsets[s] \in T
      <4>1. pr.offsets[s] \in Available(pr)
        BY DEF Available
      <4>2. pr.offsets[s] # pr.offset[i]
        BY <1>1, <4>1 DEF OffsetsOK
      <4> QED BY <3>1, <4>2
    <3> QED BY <3>1, <3>2
  <2>2. \A s, t \in SwapSlot : pr.offsets[s] = pr.offsets[t] => s = t
    BY DEF OffsetsOK
  <2>3. IsFiniteSet(SwapSlot)
    BY FS_Interval, Sizes DEF SwapSlot
  <2>4. IsFiniteSet(T) /\ Cardinality(T) < Cardinality(SwapSlot)
    <3>1. IsFiniteSet(T) /\ Cardinality(T) = Cardinality(SwapSlot) - 1
      BY <1>1, <2>3, FS_RemoveElement, Zenon
    <3>2. Cardinality(SwapSlot) \in Nat
      BY <2>3, FS_CardinalityType
    <3> QED BY <3>1, <3>2
  <2> HIDE DEF T
  <2>5. \E s, t \in SwapSlot : s # t /\ pr.offsets[s] = pr.offsets[t]
    BY <2>1, <2>3, <2>4, FS_PigeonHole
  <2> QED BY <2>2, <2>5
<1>3. free_offset_ind(pr) \in S
  BY <1>2, FirstProperty, Sizes, Zenon DEF free_offset_ind
<1> QED BY <1>1, <1>3

\* get_offset, when it does not panic, takes an available offset.
LEMMA GetOffsetTakes ==
  ASSUME NEW pr \in PageRec, get_offset_ind(pr) # -1
  PROVE  /\ get_offset_ind(pr) \in SwapSlot
         /\ pr.offsets[get_offset_ind(pr)] \in SwapSlot
<1> DEFINE S == {s \in SwapSlot : pr.offsets[s] # TAKEN_OFFSET}
<1>1. S \subseteq Nat
  BY Sizes, Zenon
<1>2. get_offset_ind(pr) \in S
  BY <1>1, FirstProperty DEF get_offset_ind
<1> QED BY <1>2 DEF PageRec

\* RingOK and OneCircle in terms of Linked and Circle.
LEMMA RingIsLinked ==
  ASSUME NEW pr
  PROVE  /\ RingOK(pr) <=> /\ Linked(pr.on_phys, pr.nextp, pr.prevp)
                           /\ IF pr.on_phys = {} THEN pr.headp = -1
                              ELSE pr.headp \in pr.on_phys
         /\ OneCircle(pr) <=> Circle(pr.on_phys, pr.nextp)
BY DEF RingOK, OneCircle, Linked, Circle, Resident

\* Taking a page out of the list.
LEMMA UnlinkKeepsList ==
  ASSUME NEW R, NEW n, NEW p, NEW i \in R, Linked(R, n, p), Circle(R, n),
         NEW m, NEW q, WithoutPage(R, i, n, p, m, q)
  PROVE  Linked(R \ {i}, m, q) /\ Circle(R \ {i}, m)
<1> USE DEF WithoutPage
<1>1. Linked(R \ {i}, m, q)
  BY DEF Linked
<1>2. ASSUME NEW S \in SUBSET (R \ {i}), S # {}, \A j \in S : m[j] \in S
      PROVE  S = R \ {i}
  <2>1. CASE p[i] \in S
    <3> DEFINE T == S \cup {i}
    <3>1. \A j \in T : n[j] \in T
      BY <1>2, <2>1 DEF Linked
    <3>2. T \in SUBSET R /\ T # {}
      BY <1>2
    <3> HIDE DEF T
    <3>3. T = R
      BY <3>1, <3>2 DEF Circle
    <3> QED BY <1>2, <3>3 DEF T
  <2>2. CASE p[i] \notin S
    <3>1. \A j \in S : n[j] \in S
      BY <1>2, <2>2 DEF Linked
    <3>2. S = R
      BY <1>2, <3>1 DEF Circle
    <3> QED BY <1>2, <3>2
  <2> QED BY <2>1, <2>2
<1> QED BY <1>1, <1>2 DEF Circle

\* A page whose next page is itself is the only one.
LEMMA AloneInCircle ==
  ASSUME NEW R, NEW n, NEW i \in R, Circle(R, n), n[i] = i
  PROVE  R = {i}
<1>1. {i} \in SUBSET R /\ {i} # {} /\ \A j \in {i} : n[j] \in {i}
  OBVIOUS
<1> QED BY <1>1, Zenon DEF Circle

\* Putting a page into a list before its head h.
LEMMA AppendKeepsList ==
  ASSUME NEW R, NEW n, NEW p, NEW i, i \notin R, NEW h \in R,
         Linked(R, n, p), Circle(R, n), NEW m, NEW q, WithPage(R, i, h, n, p, m, q)
  PROVE  Linked(R \cup {i}, m, q) /\ Circle(R \cup {i}, m)
<1> USE DEF WithPage
<1>1. Linked(R \cup {i}, m, q)
  BY DEF Linked
<1>2. ASSUME NEW S \in SUBSET (R \cup {i}), S # {}, \A j \in S : m[j] \in S
      PROVE  S = R \cup {i}
  <2> DEFINE T == S \ {i}
  <2>1. T # {} /\ T \in SUBSET R
    <3>1. CASE i \in S
      BY <1>2, <3>1 DEF Linked
    <3>2. CASE i \notin S
      BY <1>2, <3>2
    <3> QED BY <3>1, <3>2
  <2>2. \A j \in T : n[j] \in T
    <3>1. ASSUME NEW j \in T, j # p[h] PROVE n[j] \in T
      BY <1>2, <3>1 DEF Linked
    <3>2. ASSUME p[h] \in T PROVE n[p[h]] \in T
      <4>1. i \in S
        BY <1>2, <3>2 DEF Linked
      <4>2. h \in S
        BY <1>2, <4>1 DEF Linked
      <4> QED BY <4>2 DEF Linked
    <3> QED BY <3>1, <3>2
  <2>3. T = R
    BY <2>1, <2>2, Zenon DEF Circle
  <2>4. i \in S
    BY <1>2, <2>3 DEF Linked
  <2> QED BY <2>3, <2>4
<1> QED BY <1>1, <1>2 DEF Circle

\* The list of one page.
LEMMA OnePageList ==
  ASSUME NEW i, NEW m, NEW q, m[i] = i, q[i] = i
  PROVE  Linked({i}, m, q) /\ Circle({i}, m)
BY DEF Linked, Circle

\* Counting a page in and out.
LEMMA SlotSets ==
  ASSUME NEW S \in SUBSET Slot, NEW i \in Slot
  PROVE  /\ IsFiniteSet(S) /\ Cardinality(S) \in Nat
         /\ i \notin S => Cardinality(S \cup {i}) = Cardinality(S) + 1
         /\ i \in S => Cardinality(S \ {i}) = Cardinality(S) - 1
<1>1. IsFiniteSet(Slot)
  BY FS_Interval, SizesAssumption DEF Slot
<1>2. IsFiniteSet(S)
  BY <1>1, FS_Subset
<1> QED BY <1>2, FS_CardinalityType, FS_AddElement, FS_RemoveElement

\* Init_page_meta establishes the invariant of the record.
LEMMA InitKeeps ==
  ASSUME NEW size \in 0 .. MAX_SWAP_FILE_SZ
  PROVE  LET q == init_page_meta(size)
         IN /\ q \in PageRec /\ RecOK(q) /\ Mapped(q) = {}
            /\ q.taken = {} /\ q.on_phys = {} /\ q.PTE_P = {} /\ q.phys_pages = 0
<1> DEFINE q == init_page_meta(size)
<1>1. q \in PageRec
  BY Sizes, ValuesAssumption DEF init_page_meta, PageRec, TAKEN_OFFSET
<1>2. MetaOK(q)
  BY ZenonT(60) DEF MetaOK, init_page_meta, Resident, Swapped
<1>3. RingOK(q) /\ OneCircle(q)
  BY DEF RingOK, OneCircle, init_page_meta, Resident
<1>4. OffsetsOK(q)
  BY Sizes, ZenonT(60) DEF OffsetsOK, init_page_meta, Swapped, Available, Used, TAKEN_OFFSET
<1>5. CountOK(q)
  BY FS_EmptySet DEF CountOK, init_page_meta
<1> QED BY <1>1, <1>2, <1>3, <1>4, <1>5, ZenonT(60) DEF RecOK, Mapped, init_page_meta

\* Flags and the contents of the swap file play no part.
LEMMA SameMetaKeeps ==
  ASSUME NEW pr, NEW q, RecOK(pr), SameMeta(q, pr),
         q.PTE_P = pr.PTE_P, q.PTE_PG = pr.PTE_PG,
         \A v \in Vpn : q.PTE_ADDR[v] = NoFrame <=> pr.PTE_ADDR[v] = NoFrame
  PROVE  RecOK(q)
<1>1. MetaOK(q)
  BY DEF RecOK, MetaOK, SameMeta, Resident, Swapped
<1>2. RingOK(q) /\ OneCircle(q)
  BY ZenonT(60) DEF RecOK, RingOK, OneCircle, SameMeta, Resident
<1>3. OffsetsOK(q)
  BY DEF RecOK, OffsetsOK, SameMeta, Swapped, Available, Used
<1>4. CountOK(q)
  BY DEF RecOK, CountOK, SameMeta
<1> QED BY <1>1, <1>2, <1>3, <1>4 DEF RecOK

\* swap_to_file of a resident page.
LEMMA SwapOutKeeps ==
  ASSUME NEW pr \in PageRec, RecOK(pr), NEW v \in pr.PTE_P, NEW d \in Data,
         get_offset_ind(pr) # -1
  PROVE  LET q == swap_to_file(pr, v, d)
         IN /\ q \in PageRec /\ RecOK(q) /\ Mapped(q) = Mapped(pr)
            /\ pr.PTE_PG \subseteq q.PTE_PG /\ q.phys_pages = pr.phys_pages - 1
            /\ PageOut(q, pr, v)
<1>a. ASSUME NEW r \in PageRec, NEW u \in Vpn, NEW e \in Data,
             NEW i \in Slot, i = find_page_ind(r, u),
             NEW s \in SwapSlot, s = get_offset_ind(r), r.offsets[s] \in SwapSlot,
             r.nextp[i] \in Slot, r.prevp[i] \in Slot
      PROVE LET q == swap_to_file(r, u, e)
            IN /\ q \in PageRec
               /\ q.taken = r.taken
               /\ q.on_phys = r.on_phys \ {i}
               /\ q.pte = r.pte
               /\ q.offset = [r.offset EXCEPT ![i] = r.offsets[s]]
               /\ q.offsets = [r.offsets EXCEPT ![s] = TAKEN_OFFSET]
               /\ q.PTE_P = r.PTE_P \ {u}
               /\ q.PTE_PG = r.PTE_PG \cup {u}
               /\ q.PTE_ADDR = [r.PTE_ADDR EXCEPT ![u] = NoFrame]
               /\ q.headp = next_head(r, i)
               /\ q.phys_pages = r.phys_pages - 1 /\ q.num_of_pages = r.num_of_pages
               /\ \A j \in Slot \ {i} : q.nextp[j] = next_unlinked(r, i)[j]
               /\ \A j \in Slot \ {i} : q.prevp[j] = prev_unlinked(r, i)[j]
  <2> USE <1>a
  <2> DEFINE off == r.offsets[s]
             w == writeToSwapFile(r, off, e)
             offsets == [w.offsets EXCEPT ![s] = TAKEN_OFFSET]
             offset == [w.offset EXCEPT ![i] = off]
             on_phys == w.on_phys \ {i}
             file_size == size_after(w.file_size, off)
             P == w.PTE_P \ {u}
             PG == w.PTE_PG \cup {u}
             ADDR == [w.PTE_ADDR EXCEPT ![u] = NoFrame]
             phys_pages == w.phys_pages - 1
             headp == next_head(r, i)
             nextp == [next_unlinked(r, i) EXCEPT ![i] = IF r.headp = i THEN -1 ELSE @]
             prevp == [prev_unlinked(r, i) EXCEPT ![i] = IF r.headp = i THEN -1 ELSE @]
             q == swap_to_file(r, u, e)
  <2>1. w \in PageRec /\ w = [r EXCEPT !.swap = w.swap, !.swap_len = w.swap_len]
    BY WriteFields, ZenonT(60)
  <2>2. q = [w EXCEPT !.offsets = offsets, !.offset = offset, !.on_phys = on_phys,
                      !.file_size = file_size, !.PTE_P = P, !.PTE_PG = PG,
                      !.PTE_ADDR = ADDR, !.phys_pages = phys_pages, !.headp = headp,
                      !.nextp = nextp, !.prevp = prevp]
    BY DEF swap_to_file
  <2>3. /\ nextp \in [Slot -> Slot \cup {-1}]
        /\ \A j \in Slot \ {i} : nextp[j] = next_unlinked(r, i)[j]
    BY DEF next_unlinked, PageRec
  <2>4. /\ prevp \in [Slot -> Slot \cup {-1}]
        /\ \A j \in Slot \ {i} : prevp[j] = prev_unlinked(r, i)[j]
    BY DEF prev_unlinked, PageRec
  <2>5. file_size \in 0 .. MAX_SWAP_FILE_SZ
    <3>1. w.file_size \in 0 .. MAX_SWAP_FILE_SZ /\ off \in 0 .. MAX_SWAP_FILE_SZ - 1
      BY <2>1 DEF PageRec, SwapSlot
    <3> QED BY <3>1, Sizes DEF size_after
  <2>6. headp \in Slot \cup {-1}
    BY DEF PageRec, next_head
  <2>7. offsets \in [SwapSlot -> SwapSlot \cup {TAKEN_OFFSET}]
    BY <2>1 DEF PageRec
  <2>8. offset \in [Slot -> SwapSlot \cup {-1}]
    BY <2>1 DEF PageRec
  <2>9. ADDR \in [Vpn -> Frame \cup {NoFrame}]
    BY <2>1 DEF PageRec
  <2>10. on_phys \in SUBSET Slot /\ P \in SUBSET Vpn /\ PG \in SUBSET Vpn /\ phys_pages \in Int
    BY <2>1 DEF PageRec
  <2>11. /\ w.taken = r.taken /\ w.on_phys = r.on_phys /\ w.pte = r.pte
         /\ w.offset = r.offset /\ w.offsets = r.offsets /\ w.PTE_P = r.PTE_P
         /\ w.PTE_PG = r.PTE_PG /\ w.PTE_ADDR = r.PTE_ADDR
         /\ w.phys_pages = r.phys_pages /\ w.num_of_pages = r.num_of_pages
    BY <2>1, ZenonT(60) DEF PageRec
  <2> HIDE DEF w, nextp, prevp, file_size, headp, offsets, offset, on_phys, P, PG, ADDR, phys_pages, q
  <2>12. q \in PageRec
    <3>1. nextp \in [Slot -> Slot \cup {-1}] /\ prevp \in [Slot -> Slot \cup {-1}]
      BY <2>3, <2>4
    <3> QED BY <2>1, <2>2, <3>1, <2>5, <2>6, <2>7, <2>8, <2>9, <2>10, ZenonT(60) DEF PageRec
  <2>13. /\ q.taken = w.taken /\ q.on_phys = on_phys /\ q.pte = w.pte
         /\ q.offset = offset /\ q.offsets = offsets /\ q.PTE_P = P /\ q.PTE_PG = PG
         /\ q.PTE_ADDR = ADDR /\ q.headp = headp /\ q.nextp = nextp /\ q.prevp = prevp
         /\ q.phys_pages = phys_pages /\ q.num_of_pages = w.num_of_pages
    BY <2>1, <2>2 DEF PageRec
  <2> QED BY <2>3, <2>4, <2>11, <2>12, <2>13
          DEF offsets, offset, on_phys, P, PG, ADDR, headp, phys_pages, q
<1> DEFINE i == find_page_ind(pr, v)
           s == get_offset_ind(pr)
           off == pr.offsets[s]
           q == swap_to_file(pr, v, d)
<1>0. v \in Vpn
  BY DEF PageRec
<1>1. i \in pr.on_phys /\ i \in Slot /\ pr.pte[i] = v /\ i \in pr.taken
  BY <1>0, FindPage DEF PageRec, RecOK, MetaOK
<1>2. s \in SwapSlot /\ off \in SwapSlot
  BY GetOffsetTakes
<1>3. pr.nextp[i] \in pr.on_phys /\ pr.prevp[i] \in pr.on_phys
  BY <1>1 DEF RecOK, RingOK, Resident
<1>4. pr.on_phys \subseteq Slot /\ pr.taken \subseteq Slot
  BY Zenon DEF PageRec
<1>5. /\ q \in PageRec /\ q.taken = pr.taken /\ q.on_phys = pr.on_phys \ {i}
      /\ q.pte = pr.pte /\ q.offset = [pr.offset EXCEPT ![i] = off]
      /\ q.offsets = [pr.offsets EXCEPT ![s] = TAKEN_OFFSET]
      /\ q.PTE_P = pr.PTE_P \ {v} /\ q.PTE_PG = pr.PTE_PG \cup {v}
      /\ q.PTE_ADDR = [pr.PTE_ADDR EXCEPT ![v] = NoFrame]
      /\ q.headp = next_head(pr, i)
      /\ q.phys_pages = pr.phys_pages - 1 /\ q.num_of_pages = pr.num_of_pages
      /\ \A j \in Slot \ {i} : q.nextp[j] = next_unlinked(pr, i)[j]
      /\ \A j \in Slot \ {i} : q.prevp[j] = prev_unlinked(pr, i)[j]
  <2>1. i = find_page_ind(pr, v) /\ s = get_offset_ind(pr)
    OBVIOUS
  <2> HIDE DEF i, s
  <2>2. /\ i \in Slot /\ pr.nextp[i] \in Slot /\ pr.prevp[i] \in Slot
        /\ s \in SwapSlot /\ pr.offsets[s] \in SwapSlot
    BY <1>1, <1>2, <1>3, <1>4, Zenon
  <2> QED BY <1>0, <2>1, <2>2, <1>a
<1> HIDE DEF i, s, off, q
<1>6. MetaOK(q)
  <2>1. MetaOK(pr) /\ pr.PTE_ADDR \in [Vpn -> Frame \cup {NoFrame}]
    BY DEF RecOK, PageRec
  <2> QED BY <1>0, <1>1, <1>5, <2>1 DEF MetaOK, Resident, Swapped
<1>7. RingOK(q) /\ OneCircle(q)
  <2>1. Linked(pr.on_phys, pr.nextp, pr.prevp) /\ Circle(pr.on_phys, pr.nextp)
        /\ pr.headp \in pr.on_phys
    BY <1>1, RingIsLinked DEF RecOK
  <2>2. pr.nextp \in [Slot -> Slot \cup {-1}] /\ pr.prevp \in [Slot -> Slot \cup {-1}]
    BY DEF PageRec
  <2>3. WithoutPage(pr.on_phys, i, pr.nextp, pr.prevp, q.nextp, q.prevp)
    BY <1>3, <1>4, <1>5, <2>2 DEF next_unlinked, prev_unlinked, WithoutPage
  <2>5. Linked(q.on_phys, q.nextp, q.prevp) /\ Circle(q.on_phys, q.nextp)
    <3>1. Linked(pr.on_phys \ {i}, q.nextp, q.prevp) /\ Circle(pr.on_phys \ {i}, q.nextp)
      BY <1>1, <2>1, <2>3, UnlinkKeepsList
    <3> QED BY <1>5, <3>1
  <2>6. IF q.on_phys = {} THEN q.headp = -1 ELSE q.headp \in q.on_phys
    BY <1>1, <1>3, <1>5, <2>1, AloneInCircle, ZenonT(60) DEF next_head
  <2> QED BY <2>5, <2>6, RingIsLinked
<1>8. OffsetsOK(q)
  <2>1. OffsetsOK(pr) /\ pr.offset \in [Slot -> SwapSlot \cup {-1}]
        /\ pr.offsets \in [SwapSlot -> SwapSlot \cup {TAKEN_OFFSET}]
    BY DEF RecOK, PageRec
  <2>2. Swapped(q) = Swapped(pr) \cup {i} /\ i \notin Swapped(pr) /\ Swapped(pr) \subseteq Slot
    BY <1>1, <1>4, <1>5 DEF Swapped
  <2>3. off # TAKEN_OFFSET /\ off \in Available(pr) /\ off \notin Used(pr)
    BY <1>2, <2>1, Sizes DEF OffsetsOK, Available, TAKEN_OFFSET, off
  <2>4. Used(q) = Used(pr) \cup {off}
    BY <1>1, <1>5, <2>1, <2>2 DEF Used
  <2>5. Available(q) = Available(pr) \ {off}
    BY <1>2, <1>5, <2>1, <2>3 DEF Available, OffsetsOK, off
  <2>6. Available(q) \cap Used(q) = {} /\ Available(q) \cup Used(q) = SwapSlot
    BY <2>1, <2>3, <2>4, <2>5 DEF OffsetsOK
  <2>7. \A a, b \in SwapSlot :
          q.offsets[a] = q.offsets[b] /\ q.offsets[a] # TAKEN_OFFSET => a = b
    BY <1>2, <1>5, <2>1 DEF OffsetsOK
  <2>8. /\ \A j \in Swapped(q) : q.offset[j] # -1
        /\ \A j \in Slot \ Swapped(q) : q.offset[j] = -1
    BY <1>1, <1>2, <1>5, <2>1, <2>2, Sizes DEF OffsetsOK
  <2>9. \A j, k \in Swapped(q) : q.offset[j] = q.offset[k] => j = k
    <3>1. \A j \in Swapped(pr) : q.offset[j] = pr.offset[j] /\ q.offset[j] # off
      BY <1>5, <2>1, <2>2, <2>3 DEF Used
    <3>2. q.offset[i] = off
      BY <1>1, <1>5, <2>1
    <3> QED BY <2>1, <2>2, <3>1, <3>2 DEF OffsetsOK
  <2> QED BY <2>6, <2>7, <2>8, <2>9 DEF OffsetsOK
<1>9. Mapped(q) = Mapped(pr)
  BY <1>5 DEF Mapped
<1>10. CountOK(q)
  BY <1>1, <1>4, <1>5, SlotSets DEF RecOK, CountOK
<1>11. PageOut(q, pr, v)
  BY <1>5, Zenon DEF PageOut, i, s, off
<1> QED BY <1>5, <1>6, <1>7, <1>8, <1>9, <1>10, <1>11 DEF RecOK, q

\* free_offset when page i leaves the swap file.
LEMMA OffsetReturned ==
  ASSUME NEW pr, NEW q, OffsetsOK(pr), pr.offset \in [Slot -> SwapSlot \cup {-1}],
         pr.offsets \in [SwapSlot -> SwapSlot \cup {TAKEN_OFFSET}],
         NEW i \in Swapped(pr), NEW s \in SwapSlot, pr.offsets[s] = TAKEN_OFFSET,
         Swapped(pr) \subseteq Slot, Swapped(q) = Swapped(pr) \ {i},
         q.offset = [pr.offset EXCEPT ![i] = -1],
         q.offsets = [pr.offsets EXCEPT ![s] = pr.offset[i]]
  PROVE  OffsetsOK(q)
<1> DEFINE off == pr.offset[i]
<1>1. off \in SwapSlot /\ off # TAKEN_OFFSET /\ off \in Used(pr) /\ off \notin Available(pr)
  BY Sizes DEF OffsetsOK, Used, TAKEN_OFFSET
<1>2. Used(q) = Used(pr) \ {off}
  BY DEF Used, OffsetsOK
<1>3. Available(q) = Available(pr) \cup {off}
  BY <1>1 DEF Available
<1>4. Available(q) \cap Used(q) = {} /\ Available(q) \cup Used(q) = SwapSlot
  BY <1>1, <1>2, <1>3 DEF OffsetsOK
<1>5. \A a, b \in SwapSlot :
        q.offsets[a] = q.offsets[b] /\ q.offsets[a] # TAKEN_OFFSET => a = b
  <2>1. \A a \in SwapSlot \ {s} : q.offsets[a] = pr.offsets[a] /\ q.offsets[a] # off
    BY <1>1 DEF Available
  <2>2. q.offsets[s] = off
    OBVIOUS
  <2> QED BY <2>1, <2>2 DEF OffsetsOK
<1>6. /\ \A j \in Swapped(q) : q.offset[j] # -1
      /\ \A j \in Slot \ Swapped(q) : q.offset[j] = -1
  BY DEF OffsetsOK
<1>7. \A j, k \in Swapped(q) : q.offset[j] = q.offset[k] => j = k
  BY DEF OffsetsOK
<1> QED BY <1>4, <1>5, <1>6, <1>7 DEF OffsetsOK

\* handle_pgflt's mappages and swap_from_file of a swapped out page.
LEMMA SwapInKeeps ==
  ASSUME NEW pr \in PageRec, RecOK(pr), NEW v \in pr.PTE_PG, NEW f \in Frame,
         pr.headp # -1
  PROVE  LET q == swap_from_file(mappages(pr, v, f), v)
         IN /\ q \in PageRec /\ RecOK(q) /\ Mapped(q) = Mapped(pr)
            /\ q.phys_pages = pr.phys_pages + 1 /\ PageIn(q, pr, v, f)
<1>a. ASSUME NEW r \in PageRec, NEW u \in Vpn,
             NEW i \in Slot, i = find_page_ind(r, u),
             NEW s \in SwapSlot, s = free_offset_ind(r), r.offset[i] \in SwapSlot,
             r.headp \in Slot, r.prevp[r.headp] \in Slot
      PROVE LET q == swap_from_file(r, u)
            IN /\ q \in PageRec
               /\ q.taken = r.taken
               /\ q.on_phys = r.on_phys \cup {i}
               /\ q.pte = r.pte
               /\ q.offset = [r.offset EXCEPT ![i] = -1]
               /\ q.offsets = [r.offsets EXCEPT ![s] = r.offset[i]]
               /\ q.PTE_P = r.PTE_P /\ q.PTE_PG = r.PTE_PG /\ q.PTE_ADDR = r.PTE_ADDR
               /\ q.headp = r.headp
               /\ q.phys_pages = r.phys_pages + 1 /\ q.num_of_pages = r.num_of_pages
               /\ q.nextp = next_appended(r, i) /\ q.prevp = prev_appended(r, i)
  <2> USE <1>a
  <2> DEFINE offsets == free_offset(r, r.offset[i])
             offset == [r.offset EXCEPT ![i] = -1]
             on_phys == r.on_phys \cup {i}
             phys_pages == r.phys_pages + 1
             nextp == next_appended(r, i)
             prevp == prev_appended(r, i)
             q == swap_from_file(r, u)
  <2>1. q = [r EXCEPT !.offsets = offsets, !.offset = offset, !.on_phys = on_phys,
                       !.phys_pages = phys_pages, !.nextp = nextp, !.prevp = prevp]
    BY DEF swap_from_file
  <2>2. nextp \in [Slot -> Slot \cup {-1}] /\ prevp \in [Slot -> Slot \cup {-1}]
    BY DEF next_appended, prev_appended, PageRec
  <2>3. offsets \in [SwapSlot -> SwapSlot \cup {TAKEN_OFFSET}]
    BY DEF PageRec, free_offset
  <2>4. offset \in [Slot -> SwapSlot \cup {-1}]
    BY DEF PageRec
  <2>5. on_phys \in SUBSET Slot /\ phys_pages \in Int
    BY DEF PageRec
  <2> HIDE DEF nextp, prevp, offsets, offset, on_phys, phys_pages, q
  <2>6. q \in PageRec
    BY <2>1, <2>2, <2>3, <2>4, <2>5, Zenon DEF PageRec
  <2>7. /\ q.taken = r.taken /\ q.on_phys = on_phys /\ q.pte = r.pte
        /\ q.offset = offset /\ q.offsets = offsets
        /\ q.PTE_P = r.PTE_P /\ q.PTE_PG = r.PTE_PG /\ q.PTE_ADDR = r.PTE_ADDR
        /\ q.headp = r.headp /\ q.nextp = nextp /\ q.prevp = prevp
        /\ q.phys_pages = phys_pages /\ q.num_of_pages = r.num_of_pages
    BY <2>1 DEF PageRec
  <2> QED BY <2>6, <2>7 DEF nextp, prevp, offsets, offset, on_phys, phys_pages, q, free_offset
<1> DEFINE i == find_page_ind(pr, v)
           s == free_offset_ind(pr)
           off == pr.offset[i]
           w == mappages(pr, v, f)
           q == swap_from_file(w, v)
<1>0. v \in Vpn /\ pr.on_phys \subseteq Slot /\ pr.taken \subseteq Slot
  BY DEF PageRec
<1>1. i \in pr.taken \ pr.on_phys /\ i \in Slot /\ pr.pte[i] = v
  BY <1>0, FindPage DEF RecOK
<1>2. s \in SwapSlot /\ off \in SwapSlot /\ pr.offsets[s] = TAKEN_OFFSET
  BY <1>1, FreeOffsetFinds DEF RecOK, Swapped
<1>3. pr.headp \in pr.on_phys /\ pr.prevp[pr.headp] \in pr.on_phys
  BY DEF RecOK, RingOK, Resident
<1>4. /\ w \in PageRec /\ SameMeta(w, pr)
      /\ w.PTE_P = pr.PTE_P \cup {v} /\ w.PTE_PG = pr.PTE_PG \ {v}
      /\ w.PTE_ADDR = [pr.PTE_ADDR EXCEPT ![v] = f]
  BY <1>0, MapFields
<1> HIDE DEF w
<1>5. /\ i = find_page_ind(w, v) /\ s = free_offset_ind(w) /\ off = w.offset[i]
      /\ w.headp \in Slot /\ w.prevp[w.headp] \in Slot
  BY <1>0, <1>3, <1>4 DEF SameMeta, find_page_ind, free_offset_ind
<1>6. next_appended(w, i) = next_appended(pr, i) /\ prev_appended(w, i) = prev_appended(pr, i)
  BY <1>4, Zenon DEF SameMeta, next_appended, prev_appended
<1> HIDE DEF i, s, off
<1>7. /\ q \in PageRec /\ q.taken = w.taken /\ q.on_phys = w.on_phys \cup {i} /\ q.pte = w.pte
      /\ q.offset = [w.offset EXCEPT ![i] = -1]
      /\ q.offsets = [w.offsets EXCEPT ![s] = w.offset[i]]
      /\ q.PTE_P = w.PTE_P /\ q.PTE_PG = w.PTE_PG /\ q.PTE_ADDR = w.PTE_ADDR
      /\ q.headp = w.headp
      /\ q.phys_pages = w.phys_pages + 1 /\ q.num_of_pages = w.num_of_pages
      /\ q.nextp = next_appended(w, i) /\ q.prevp = prev_appended(w, i)
  BY <1>0, <1>1, <1>2, <1>4, <1>5, <1>a
<1> HIDE DEF q
<1>8. /\ q.taken = pr.taken /\ q.on_phys = pr.on_phys \cup {i} /\ q.pte = pr.pte
      /\ q.offset = [pr.offset EXCEPT ![i] = -1]
      /\ q.offsets = [pr.offsets EXCEPT ![s] = off]
      /\ q.PTE_P = pr.PTE_P \cup {v} /\ q.PTE_PG = pr.PTE_PG \ {v}
      /\ q.PTE_ADDR = [pr.PTE_ADDR EXCEPT ![v] = f]
      /\ q.headp = pr.headp
      /\ q.phys_pages = pr.phys_pages + 1 /\ q.num_of_pages = pr.num_of_pages
      /\ q.nextp = next_appended(pr, i) /\ q.prevp = prev_appended(pr, i)
  BY <1>4, <1>5, <1>6, <1>7 DEF SameMeta
<1>9. MetaOK(q)
  <2>1. MetaOK(pr) /\ pr.PTE_ADDR \in [Vpn -> Frame \cup {NoFrame}]
    BY DEF RecOK, PageRec
  <2> QED BY <1>0, <1>1, <1>8, <2>1, ValuesAssumption DEF MetaOK, Resident, Swapped
<1>10. RingOK(q) /\ OneCircle(q)
  <2>1. Linked(pr.on_phys, pr.nextp, pr.prevp) /\ Circle(pr.on_phys, pr.nextp)
    BY <1>1, RingIsLinked DEF RecOK
  <2>2. pr.nextp \in [Slot -> Slot \cup {-1}] /\ pr.prevp \in [Slot -> Slot \cup {-1}]
    BY DEF PageRec
  <2>3. WithPage(pr.on_phys, i, pr.headp, pr.nextp, pr.prevp, q.nextp, q.prevp)
    BY <1>0, <1>1, <1>3, <1>8, <2>2, Sizes DEF next_appended, prev_appended, WithPage
  <2>4. i \notin pr.on_phys
    BY <1>1
  <2>5. /\ Linked(pr.on_phys \cup {i}, q.nextp, q.prevp)
        /\ Circle(pr.on_phys \cup {i}, q.nextp)
    BY <1>3, <2>1, <2>3, <2>4, AppendKeepsList
  <2> QED BY <1>3, <1>8, <2>5, RingIsLinked, ZenonT(60)
<1>11. OffsetsOK(q)
  <2>1. OffsetsOK(pr) /\ pr.offset \in [Slot -> SwapSlot \cup {-1}]
        /\ pr.offsets \in [SwapSlot -> SwapSlot \cup {TAKEN_OFFSET}]
    BY DEF RecOK, PageRec
  <2>2. Swapped(q) = Swapped(pr) \ {i} /\ i \in Swapped(pr) /\ Swapped(pr) \subseteq Slot
    BY <1>0, <1>1, <1>8 DEF Swapped
  <2> QED BY <1>1, <1>2, <1>8, <2>1, <2>2, OffsetReturned DEF off
<1>12. Mapped(q) = Mapped(pr)
  BY <1>8 DEF Mapped
<1>13. CountOK(q)
  BY <1>0, <1>1, <1>8, SlotSets DEF RecOK, CountOK
<1>14. PageIn(q, pr, v, f)
  BY <1>8, Zenon DEF PageIn, i, s, off
<1> QED BY <1>7, <1>8, <1>9, <1>10, <1>11, <1>12, <1>13, <1>14, ZenonT(60) DEF RecOK, q, w

\* allocuvm's mappages and add_page of a page that was not mapped.
LEMMA AddKeeps ==
  ASSUME NEW pr \in PageRec, RecOK(pr), NEW v \in Vpn, v \notin Mapped(pr), NEW f \in Frame,
         find_free_slot(pr) # -1
  PROVE  LET q == add_page(mappages(pr, v, f), v)
         IN /\ q \in PageRec /\ RecOK(q) /\ Mapped(q) = Mapped(pr) \cup {v}
            /\ q.taken = pr.taken \cup {find_free_slot(pr)}
            /\ q.on_phys = pr.on_phys \cup {find_free_slot(pr)}
            /\ q.phys_pages = pr.phys_pages + 1 /\ PageAdded(q, pr, v, f)
<1>a. ASSUME NEW r \in PageRec, NEW u \in Vpn,
             NEW i \in Slot, i = find_free_slot(r),
             r.headp = -1 \/ (r.headp \in Slot /\ r.prevp[r.headp] \in Slot)
      PROVE LET q == add_page(r, u)
            IN /\ q \in PageRec
               /\ q.taken = r.taken \cup {i}
               /\ q.on_phys = r.on_phys \cup {i}
               /\ q.pte = [r.pte EXCEPT ![i] = u]
               /\ q.offset = r.offset /\ q.offsets = r.offsets
               /\ q.PTE_P = r.PTE_P /\ q.PTE_PG = r.PTE_PG /\ q.PTE_ADDR = r.PTE_ADDR
               /\ q.headp = IF r.headp = -1 THEN i ELSE r.headp
               /\ q.nextp = next_appended(r, i) /\ q.prevp = prev_appended(r, i)
               /\ q.phys_pages = r.phys_pages + 1 /\ q.num_of_pages = r.num_of_pages + 1
  <2> USE <1>a
  <2> DEFINE num == r.num_of_pages + 1
             phys_pages == r.phys_pages + 1
             c == [r EXCEPT !.num_of_pages = num, !.phys_pages = phys_pages]
             pte == [c.pte EXCEPT ![i] = u]
             taken == c.taken \cup {i}
             on_phys == c.on_phys \cup {i}
             headp == IF c.headp = -1 THEN i ELSE c.headp
             nextp == next_appended(r, i)
             prevp == prev_appended(r, i)
             q == add_page(r, u)
  <2>1. q = [c EXCEPT !.pte = pte, !.taken = taken, !.on_phys = on_phys,
                      !.headp = headp, !.nextp = nextp, !.prevp = prevp]
    BY Sizes DEF add_page
  <2>2. num \in Int /\ phys_pages \in Int
    BY DEF PageRec
  <2>3. /\ c \in PageRec /\ c.taken = r.taken /\ c.on_phys = r.on_phys /\ c.pte = r.pte
        /\ c.headp = r.headp /\ c.offset = r.offset /\ c.offsets = r.offsets
        /\ c.phys_pages = phys_pages /\ c.num_of_pages = num
        /\ c.PTE_P = r.PTE_P /\ c.PTE_PG = r.PTE_PG /\ c.PTE_ADDR = r.PTE_ADDR
    <3> HIDE DEF num, phys_pages
    <3> QED BY <2>2, Zenon DEF PageRec
  <2>4. nextp \in [Slot -> Slot \cup {-1}] /\ prevp \in [Slot -> Slot \cup {-1}]
    BY DEF next_appended, prev_appended, PageRec
  <2> HIDE DEF c
  <2>5. pte \in [Slot -> Vpn \cup {-1}]
    BY <2>3 DEF PageRec
  <2>6. taken \in SUBSET Slot /\ on_phys \in SUBSET Slot /\ headp \in Slot \cup {-1}
    BY <2>3 DEF PageRec
  <2> HIDE DEF nextp, prevp, pte, taken, on_phys, headp, q
  <2>7. q \in PageRec
    BY <2>1, <2>3, <2>4, <2>5, <2>6, ZenonT(60) DEF PageRec
  <2>8. /\ q.taken = taken /\ q.on_phys = on_phys /\ q.pte = pte
        /\ q.offset = c.offset /\ q.offsets = c.offsets
        /\ q.PTE_P = c.PTE_P /\ q.PTE_PG = c.PTE_PG /\ q.PTE_ADDR = c.PTE_ADDR
        /\ q.headp = headp /\ q.nextp = nextp /\ q.prevp = prevp
        /\ q.phys_pages = c.phys_pages /\ q.num_of_pages = c.num_of_pages
    BY <2>1, <2>3 DEF PageRec
  <2> QED BY <2>3, <2>7, <2>8 DEF nextp, prevp, pte, taken, on_phys, headp, q
<1> DEFINE i == find_free_slot(pr)
           w == mappages(pr, v, f)
           q == add_page(w, v)
<1>0. pr.on_phys \subseteq Slot /\ pr.taken \subseteq Slot
  BY DEF PageRec
<1>1. i \in Slot \ pr.taken
  <2> DEFINE S == Slot \ pr.taken
  <2>1. S \subseteq Nat
    BY Sizes, ZenonT(60)
  <2> QED BY <2>1, FirstProperty DEF find_free_slot
<1>2. i \notin pr.on_phys
  BY <1>1 DEF RecOK, MetaOK
<1>3. pr.headp # -1 => pr.headp \in pr.on_phys /\ pr.prevp[pr.headp] \in pr.on_phys
  BY DEF RecOK, RingOK, Resident
<1>4. /\ w \in PageRec /\ SameMeta(w, pr)
      /\ w.PTE_P = pr.PTE_P \cup {v} /\ w.PTE_PG = pr.PTE_PG \ {v}
      /\ w.PTE_ADDR = [pr.PTE_ADDR EXCEPT ![v] = f]
  BY MapFields
<1> HIDE DEF w
<1>5. /\ i = find_free_slot(w)
      /\ w.headp = -1 \/ (w.headp \in Slot /\ w.prevp[w.headp] \in Slot)
  BY <1>0, <1>3, <1>4 DEF SameMeta, find_free_slot
<1>6. next_appended(w, i) = next_appended(pr, i) /\ prev_appended(w, i) = prev_appended(pr, i)
  BY <1>4, Zenon DEF SameMeta, next_appended, prev_appended
<1> HIDE DEF i
<1>7. /\ q \in PageRec /\ q.taken = w.taken \cup {i} /\ q.on_phys = w.on_phys \cup {i}
      /\ q.pte = [w.pte EXCEPT ![i] = v]
      /\ q.offset = w.offset /\ q.offsets = w.offsets
      /\ q.PTE_P = w.PTE_P /\ q.PTE_PG = w.PTE_PG /\ q.PTE_ADDR = w.PTE_ADDR
      /\ q.headp = IF w.headp = -1 THEN i ELSE w.headp
      /\ q.phys_pages = w.phys_pages + 1 /\ q.num_of_pages = w.num_of_pages + 1
      /\ q.nextp = next_appended(w, i) /\ q.prevp = prev_appended(w, i)
  BY <1>1, <1>4, <1>5, <1>a
<1> HIDE DEF q
<1>8. /\ q.taken = pr.taken \cup {i} /\ q.on_phys = pr.on_phys \cup {i}
      /\ q.pte = [pr.pte EXCEPT ![i] = v]
      /\ q.offset = pr.offset /\ q.offsets = pr.offsets
      /\ q.PTE_P = pr.PTE_P \cup {v} /\ q.PTE_PG = pr.PTE_PG
      /\ q.PTE_ADDR = [pr.PTE_ADDR EXCEPT ![v] = f]
      /\ q.headp = IF pr.headp = -1 THEN i ELSE pr.headp
      /\ q.phys_pages = pr.phys_pages + 1 /\ q.num_of_pages = pr.num_of_pages + 1
      /\ q.nextp = next_appended(pr, i) /\ q.prevp = prev_appended(pr, i)
  BY <1>4, <1>5, <1>6, <1>7 DEF SameMeta, Mapped
<1>9. MetaOK(q)
  <2>1. MetaOK(pr) /\ pr.PTE_ADDR \in [Vpn -> Frame \cup {NoFrame}]
        /\ pr.pte \in [Slot -> Vpn \cup {-1}]
    BY DEF RecOK, PageRec
  <2>2. Swapped(q) = Swapped(pr) /\ Swapped(pr) \subseteq pr.taken
    BY <1>1, <1>8 DEF Swapped
  <2>3. q.pte[i] = v /\ \A j \in pr.taken : q.pte[j] = pr.pte[j]
    BY <1>0, <1>1, <1>8, <2>1
  <2>4. \A j \in pr.taken : pr.pte[j] # v
    BY <2>1, SMTT(60) DEF MetaOK, Mapped, Resident, Swapped
  <2>5. /\ q.on_phys \subseteq q.taken
        /\ \A j \in q.taken : q.pte[j] \in Vpn
        /\ \A j, k \in q.taken : q.pte[j] = q.pte[k] => j = k
    BY <1>8, <2>1, <2>3, <2>4 DEF MetaOK
  <2>6. q.PTE_P = {q.pte[j] : j \in Resident(q)}
    BY <1>8, <2>1, <2>3 DEF MetaOK, Resident
  <2>7. q.PTE_PG = {q.pte[j] : j \in Swapped(q)}
    BY <1>8, <2>1, <2>2, <2>3 DEF MetaOK
  <2>8. \A u \in Vpn : u \in q.PTE_P <=> q.PTE_ADDR[u] # NoFrame
    BY <1>8, <2>1, ValuesAssumption DEF MetaOK
  <2> QED BY <2>5, <2>6, <2>7, <2>8 DEF MetaOK
<1>10. RingOK(q) /\ OneCircle(q)
  <2>1. Linked(pr.on_phys, pr.nextp, pr.prevp) /\ Circle(pr.on_phys, pr.nextp)
    BY <1>1, RingIsLinked DEF RecOK
  <2>2. pr.nextp \in [Slot -> Slot \cup {-1}] /\ pr.prevp \in [Slot -> Slot \cup {-1}]
    BY DEF PageRec
  <2>3. CASE pr.headp = -1
    <3>1. pr.on_phys = {}
      BY <1>0, <2>3, Sizes DEF RecOK, RingOK, Resident
    <3>2. q.nextp[i] = i /\ q.prevp[i] = i
      BY <1>1, <1>8, <2>2, <2>3 DEF next_appended, prev_appended
    <3>3. Linked({i}, q.nextp, q.prevp) /\ Circle({i}, q.nextp)
      BY <3>2, OnePageList
    <3>4. q.on_phys = {i} /\ q.headp = i
      BY <1>8, <2>3, <3>1
    <3> QED BY <3>3, <3>4, RingIsLinked
  <2>4. CASE pr.headp # -1
    <3>1. WithPage(pr.on_phys, i, pr.headp, pr.nextp, pr.prevp, q.nextp, q.prevp)
      BY <1>0, <1>1, <1>3, <1>8, <2>2, <2>4 DEF next_appended, prev_appended, WithPage
    <3>2. /\ Linked(pr.on_phys \cup {i}, q.nextp, q.prevp)
          /\ Circle(pr.on_phys \cup {i}, q.nextp)
      BY <1>2, <1>3, <2>1, <2>4, <3>1, AppendKeepsList, Zenon
    <3> QED BY <1>3, <1>8, <2>4, <3>2, RingIsLinked, ZenonT(60)
  <2> QED BY <2>3, <2>4
<1>11. OffsetsOK(q)
  <2>1. Swapped(q) = Swapped(pr)
    BY <1>1, <1>8 DEF Swapped
  <2>2. OffsetsOK(pr)
    BY DEF RecOK
  <2> QED BY <1>8, <2>1, <2>2 DEF OffsetsOK, Available, Used
<1>12. Mapped(q) = Mapped(pr) \cup {v}
  BY <1>8, Zenon DEF Mapped
<1>13. CountOK(q)
  BY <1>0, <1>1, <1>2, <1>8, SlotSets DEF RecOK, CountOK
<1>14. PageAdded(q, pr, v, f)
  BY <1>1, <1>8, Zenon DEF PageAdded, i
<1> QED BY <1>7, <1>8, <1>9, <1>10, <1>11, <1>12, <1>13, <1>14, ZenonT(60) DEF RecOK, q, w, i

\* deallocuvm's remove_page and *pte = 0 of a mapped page.
LEMMA RemoveKeeps ==
  ASSUME NEW pr \in PageRec, RecOK(pr), NEW v \in Mapped(pr)
  PROVE  LET q == clear_pte(remove_page(pr, v), v)
         IN /\ q \in PageRec /\ RecOK(q) /\ Mapped(q) = Mapped(pr) \ {v}
            /\ q.phys_pages <= pr.phys_pages /\ PageRemoved(q, pr, v)
<1>b. ASSUME NEW r \in PageRec, NEW u \in Vpn
      PROVE  LET q == clear_pte(r, u)
             IN /\ q \in PageRec
                /\ SameMeta(q, r)
                /\ q.PTE_P = r.PTE_P \ {u} /\ q.PTE_PG = r.PTE_PG \ {u}
                /\ q.PTE_ADDR = [r.PTE_ADDR EXCEPT ![u] = NoFrame]
  <2> USE <1>b
  <2> DEFINE P == r.PTE_P \ {u}
             PG == r.PTE_PG \ {u}
             A == r.PTE_A \ {u}
             U == r.PTE_U \ {u}
             ADDR == [r.PTE_ADDR EXCEPT ![u] = NoFrame]
  <2>1. P \in SUBSET Vpn /\ PG \in SUBSET Vpn /\ A \in SUBSET Vpn /\ U \in SUBSET Vpn
    BY DEF PageRec
  <2>2. ADDR \in [Vpn -> Frame \cup {NoFrame}]
    BY DEF PageRec
  <2> DEFINE q == clear_pte(r, u)
  <2>3. q = [r EXCEPT !.PTE_P = P, !.PTE_U = U, !.PTE_PG = PG,
                                      !.PTE_A = A, !.PTE_ADDR = ADDR]
    BY DEF clear_pte
  <2> HIDE DEF P, PG, A, U, ADDR, q
  <2>4. q \in PageRec
    BY <2>1, <2>2, <2>3, Zenon DEF PageRec
  <2>5. SameMeta(q, r) /\ q.PTE_P = P /\ q.PTE_PG = PG /\ q.PTE_ADDR = ADDR
    BY <2>3 DEF PageRec, SameMeta
  <2> QED BY <2>4, <2>5 DEF P, PG, ADDR, q
<1> DEFINE i == find_page_ind(pr, v)
           s == free_offset_ind(pr)
           off == pr.offset[i]
           w == remove_page(pr, v)
           q == clear_pte(w, v)
<1>0. v \in Vpn /\ pr.on_phys \subseteq Slot /\ pr.taken \subseteq Slot
  BY Zenon DEF PageRec, Mapped
<1>1. i \in pr.taken /\ i \in Slot /\ pr.pte[i] = v /\ (v \in pr.PTE_P <=> i \in pr.on_phys)
  BY <1>0, FindPage, Zenon DEF RecOK, Mapped, MetaOK
<1>2. /\ off # -1 <=> i \in Swapped(pr)
      /\ off # -1 => s \in SwapSlot /\ off \in SwapSlot /\ pr.offsets[s] = TAKEN_OFFSET
  BY <1>1, FreeOffsetFinds, Zenon DEF RecOK, OffsetsOK
<1>3. i \in pr.on_phys => pr.nextp[i] \in pr.on_phys /\ pr.prevp[i] \in pr.on_phys
  BY SMTT(60) DEF RecOK, RingOK, Resident
<1> HIDE DEF i, s, off
<1>4. /\ w \in PageRec /\ w.taken = pr.taken \ {i} /\ w.on_phys = pr.on_phys \ {i}
      /\ w.pte = [pr.pte EXCEPT ![i] = -1]
      /\ w.offset = [pr.offset EXCEPT ![i] = -1]
      /\ w.offsets = IF off = -1 THEN pr.offsets ELSE [pr.offsets EXCEPT ![s] = off]
      /\ w.PTE_P = pr.PTE_P /\ w.PTE_PG = pr.PTE_PG /\ w.PTE_ADDR = pr.PTE_ADDR
      /\ w.headp = next_head(pr, i)
      /\ w.nextp = IF i \in pr.on_phys THEN next_unlinked(pr, i) ELSE pr.nextp
      /\ w.prevp = IF i \in pr.on_phys THEN prev_unlinked(pr, i) ELSE pr.prevp
      /\ w.phys_pages = IF i \in pr.on_phys THEN pr.phys_pages - 1 ELSE pr.phys_pages
      /\ w.num_of_pages = pr.num_of_pages - 1
  <2>1. i = find_page_ind(pr, v) /\ s = free_offset_ind(pr) /\ off = pr.offset[i]
    BY DEF i, s, off
  <2>2. /\ i \in Slot /\ (i \in pr.on_phys => pr.nextp[i] \in Slot /\ pr.prevp[i] \in Slot)
        /\ pr.offset[i] # -1 => free_offset_ind(pr) \in SwapSlot
    BY <1>0, <1>1, <1>2, <1>3, <2>1
  <2> DEFINE num == pr.num_of_pages - 1
             phys_pages == IF i \in pr.on_phys THEN pr.phys_pages - 1 ELSE pr.phys_pages
             taken == pr.taken \ {i}
             pte == [pr.pte EXCEPT ![i] = -1]
             on_phys == pr.on_phys \ {i}
             headp == next_head(pr, i)
             nextp == IF i \in pr.on_phys THEN next_unlinked(pr, i) ELSE pr.nextp
             prevp == IF i \in pr.on_phys THEN prev_unlinked(pr, i) ELSE pr.prevp
             offset == [pr.offset EXCEPT ![i] = -1]
             offsets == IF off = -1 THEN pr.offsets ELSE free_offset(pr, off)
  <2>3. w = [pr EXCEPT !.num_of_pages = num, !.phys_pages = phys_pages, !.taken = taken,
                       !.pte = pte, !.on_phys = on_phys, !.headp = headp, !.nextp = nextp,
                       !.prevp = prevp, !.offset = offset, !.offsets = offsets]
    BY <2>1 DEF remove_page
  <2>4. num \in Int /\ phys_pages \in Int /\ taken \in SUBSET Slot /\ on_phys \in SUBSET Slot
    BY DEF PageRec
  <2>5. nextp \in [Slot -> Slot \cup {-1}] /\ prevp \in [Slot -> Slot \cup {-1}]
    BY <2>2 DEF next_unlinked, prev_unlinked, PageRec
  <2>6. offsets = IF off = -1 THEN pr.offsets ELSE [pr.offsets EXCEPT ![s] = off]
    BY <2>1 DEF free_offset
  <2>7. offsets \in [SwapSlot -> SwapSlot \cup {TAKEN_OFFSET}]
    BY <1>2, <2>6 DEF PageRec
  <2>8. offset \in [Slot -> SwapSlot \cup {-1}] /\ pte \in [Slot -> Vpn \cup {-1}]
    BY DEF PageRec
  <2>9. headp \in Slot \cup {-1}
    BY <2>2 DEF PageRec, next_head
  <2> HIDE DEF num, phys_pages, taken, pte, on_phys, headp, nextp, prevp, offset, offsets, w
  <2>10. w \in PageRec
    BY <2>3, <2>4, <2>5, <2>7, <2>8, <2>9, Zenon DEF PageRec
  <2>11. /\ w.taken = taken /\ w.on_phys = on_phys /\ w.pte = pte
         /\ w.offset = offset /\ w.offsets = offsets
         /\ w.PTE_P = pr.PTE_P /\ w.PTE_PG = pr.PTE_PG /\ w.PTE_ADDR = pr.PTE_ADDR
         /\ w.headp = headp /\ w.nextp = nextp /\ w.prevp = prevp
         /\ w.phys_pages = phys_pages /\ w.num_of_pages = num
    BY <2>3 DEF PageRec
  <2> QED BY <2>6, <2>10, <2>11, Zenon
          DEF num, phys_pages, taken, pte, on_phys, headp, nextp, prevp, offset
<1> HIDE DEF w
<1>5. /\ q \in PageRec /\ SameMeta(q, w)
      /\ q.PTE_P = w.PTE_P \ {v} /\ q.PTE_PG = w.PTE_PG \ {v}
      /\ q.PTE_ADDR = [w.PTE_ADDR EXCEPT ![v] = NoFrame]
  BY <1>0, <1>4, <1>b, ZenonT(60)
<1> HIDE DEF q
<1>6. /\ q.taken = pr.taken \ {i} /\ q.on_phys = pr.on_phys \ {i}
      /\ q.pte = [pr.pte EXCEPT ![i] = -1]
      /\ q.offset = [pr.offset EXCEPT ![i] = -1]
      /\ q.offsets = IF off = -1 THEN pr.offsets ELSE [pr.offsets EXCEPT ![s] = off]
      /\ q.PTE_P = pr.PTE_P \ {v} /\ q.PTE_PG = pr.PTE_PG \ {v}
      /\ q.PTE_ADDR = [pr.PTE_ADDR EXCEPT ![v] = NoFrame]
      /\ q.headp = next_head(pr, i)
      /\ q.nextp = IF i \in pr.on_phys THEN next_unlinked(pr, i) ELSE pr.nextp
      /\ q.prevp = IF i \in pr.on_phys THEN prev_unlinked(pr, i) ELSE pr.prevp
      /\ q.phys_pages = IF i \in pr.on_phys THEN pr.phys_pages - 1 ELSE pr.phys_pages
      /\ q.num_of_pages = pr.num_of_pages - 1
  BY <1>4, <1>5 DEF SameMeta
<1>7. MetaOK(q)
  <2>1. MetaOK(pr) /\ pr.PTE_ADDR \in [Vpn -> Frame \cup {NoFrame}]
        /\ pr.pte \in [Slot -> Vpn \cup {-1}]
    BY DEF RecOK, PageRec
  <2>2. Swapped(q) = Swapped(pr) \ {i} /\ Swapped(pr) \subseteq pr.taken
    BY <1>6, Zenon DEF Swapped
  <2>3. \A j \in pr.taken \ {i} : q.pte[j] = pr.pte[j] /\ q.pte[j] # v
    BY <1>0, <1>1, <1>6, <2>1, Zenon DEF MetaOK
  <2>4. /\ q.on_phys \subseteq q.taken
        /\ \A j \in q.taken : q.pte[j] \in Vpn
        /\ \A j, k \in q.taken : q.pte[j] = q.pte[k] => j = k
    BY <1>6, <2>1, <2>3, Zenon DEF MetaOK
  <2>5. q.PTE_P = {q.pte[j] : j \in Resident(q)}
    BY <1>1, <1>6, <2>1, <2>3 DEF MetaOK, Resident
  <2>6. q.PTE_PG = {q.pte[j] : j \in Swapped(q)}
    BY <1>1, <1>6, <2>1, <2>2, <2>3, SMTT(60) DEF MetaOK
  <2>7. \A u \in Vpn : u \in q.PTE_P <=> q.PTE_ADDR[u] # NoFrame
    BY <1>6, <2>1 DEF MetaOK
  <2> QED BY <2>4, <2>5, <2>6, <2>7 DEF MetaOK
<1>8. RingOK(q) /\ OneCircle(q)
  <2>1. Linked(pr.on_phys, pr.nextp, pr.prevp) /\ Circle(pr.on_phys, pr.nextp)
        /\ IF pr.on_phys = {} THEN pr.headp = -1 ELSE pr.headp \in pr.on_phys
    BY <1>1, RingIsLinked DEF RecOK
  <2>2. pr.nextp \in [Slot -> Slot \cup {-1}] /\ pr.prevp \in [Slot -> Slot \cup {-1}]
    BY DEF PageRec
  <2>3. CASE i \in pr.on_phys
    <3>1. WithoutPage(pr.on_phys, i, pr.nextp, pr.prevp, q.nextp, q.prevp)
      BY <1>0, <1>3, <1>6, <2>2, <2>3, Zenon DEF next_unlinked, prev_unlinked, WithoutPage
    <3>2. Linked(pr.on_phys \ {i}, q.nextp, q.prevp) /\ Circle(pr.on_phys \ {i}, q.nextp)
      BY <2>1, <2>3, <3>1, UnlinkKeepsList
    <3>3. IF q.on_phys = {} THEN q.headp = -1 ELSE q.headp \in q.on_phys
      BY <1>3, <1>6, <2>1, <2>3, AloneInCircle, ZenonT(60) DEF next_head
    <3> QED BY <1>6, <3>2, <3>3, RingIsLinked, ZenonT(60)
  <2>4. CASE i \notin pr.on_phys
    <3>1. q.on_phys = pr.on_phys /\ q.nextp = pr.nextp /\ q.prevp = pr.prevp
      BY <1>6, <2>4
    <3>2. q.headp = pr.headp
      BY <1>1, <1>6, <2>1, <2>4, Sizes DEF next_head
    <3>3. Linked(q.on_phys, q.nextp, q.prevp) /\ Circle(q.on_phys, q.nextp)
      BY <2>1, <3>1, Zenon
    <3>4. IF q.on_phys = {} THEN q.headp = -1 ELSE q.headp \in q.on_phys
      BY <2>1, <3>1, <3>2
    <3> QED BY <3>3, <3>4, RingIsLinked
  <2> QED BY <2>3, <2>4
<1>9. OffsetsOK(q)
  <2>1. OffsetsOK(pr) /\ pr.offset \in [Slot -> SwapSlot \cup {-1}]
        /\ pr.offsets \in [SwapSlot -> SwapSlot \cup {TAKEN_OFFSET}]
    BY Zenon DEF RecOK, PageRec
  <2>2. Swapped(q) = Swapped(pr) \ {i} /\ Swapped(pr) \subseteq Slot
    BY <1>0, <1>6, Zenon DEF Swapped
  <2>3. CASE i \in Swapped(pr)
    BY <1>2, <1>6, <2>1, <2>2, <2>3, OffsetReturned, SMTT(60) DEF off
  <2>4. CASE i \notin Swapped(pr)
    <3>1. q.offset = pr.offset /\ q.offsets = pr.offsets /\ Swapped(q) = Swapped(pr)
      BY <1>1, <1>2, <1>6, <2>1, <2>2, <2>4, SMTT(60) DEF off
    <3>2. Available(q) = Available(pr) /\ Used(q) = Used(pr)
      BY <3>1, Zenon DEF Available, Used
    <3> QED BY <2>1, <3>1, <3>2, SMTT(60) DEF OffsetsOK
  <2> QED BY <2>3, <2>4
<1>10. Mapped(q) = Mapped(pr) \ {v}
  BY <1>6 DEF Mapped
<1>11. CountOK(q)
  <2>1. q.num_of_pages = Cardinality(q.taken)
    <3>1. q.taken = pr.taken \ {i} /\ q.num_of_pages = pr.num_of_pages - 1
      BY <1>6, Zenon
    <3>2. pr.num_of_pages = Cardinality(pr.taken)
      BY Zenon DEF RecOK, CountOK
    <3>3. Cardinality(pr.taken \ {i}) = Cardinality(pr.taken) - 1
      BY <1>0, <1>1, SlotSets
    <3> QED BY <3>1, <3>2, <3>3, Zenon
  <2>2. i \notin pr.on_phys => q.on_phys = pr.on_phys
    BY <1>6, ZenonT(60)
  <2>3. q.phys_pages = Cardinality(q.on_phys)
    <3>1. CASE i \in pr.on_phys
      <4>1. q.on_phys = pr.on_phys \ {i} /\ q.phys_pages = pr.phys_pages - 1
        BY <1>6, <3>1
      <4>2. pr.phys_pages = Cardinality(pr.on_phys)
        BY DEF RecOK, CountOK
      <4>3. Cardinality(pr.on_phys \ {i}) = Cardinality(pr.on_phys) - 1
        BY <1>0, <1>1, <3>1, SlotSets
      <4> QED BY <4>1, <4>2, <4>3, Zenon
    <3>2. CASE i \notin pr.on_phys
      BY <1>6, <2>2, <3>2, ZenonT(60) DEF RecOK, CountOK
    <3> QED BY <3>1, <3>2
  <2> QED BY <2>1, <2>3, SMTT(60) DEF CountOK
<1>12. q.phys_pages <= pr.phys_pages
  <2>1. pr.phys_pages \in Int
    BY DEF PageRec
  <2> QED BY <1>6, <2>1
<1>13. PageRemoved(q, pr, v)
  BY <1>6, Zenon DEF PageRemoved, i, s, off
<1> QED BY <1>5, <1>7, <1>8, <1>9, <1>10, <1>11, <1>12, <1>13, Zenon DEF RecOK, q, w

\* A full p->pages: only the page table and the counters change.
LEMMA AddFullType ==
  ASSUME NEW pr \in PageRec, NEW v \in Vpn, NEW f \in Frame, find_free_slot(pr) = -1
  PROVE  LET q == add_page(mappages(pr, v, f), v)
         IN /\ q \in PageRec /\ q.PTE_P = pr.PTE_P \cup {v}
            /\ q.PTE_ADDR = [pr.PTE_ADDR EXCEPT ![v] = f]
            /\ q.taken = pr.taken /\ q.pte = pr.pte /\ q.offset = pr.offset
            /\ q.PTE_PG = pr.PTE_PG \ {v}
<1> DEFINE w == mappages(pr, v, f)
           q == add_page(w, v)
           num == w.num_of_pages + 1
           phys == w.phys_pages + 1
<1>1. /\ w \in PageRec /\ SameMeta(w, pr) /\ w.PTE_P = pr.PTE_P \cup {v}
      /\ w.PTE_ADDR = [pr.PTE_ADDR EXCEPT ![v] = f] /\ w.PTE_PG = pr.PTE_PG \ {v}
  BY MapFields
<1> HIDE DEF w
<1>2. find_free_slot(w) = -1
  BY <1>1 DEF SameMeta, find_free_slot
<1>3. q = [w EXCEPT !.num_of_pages = num, !.phys_pages = phys]
  BY <1>2 DEF add_page
<1>4. num \in Int /\ phys \in Int
  BY <1>1 DEF PageRec
<1> HIDE DEF q, num, phys
<1>5. /\ q \in PageRec /\ q.PTE_P = w.PTE_P /\ q.PTE_ADDR = w.PTE_ADDR
      /\ q.taken = w.taken /\ q.pte = w.pte /\ q.offset = w.offset /\ q.PTE_PG = w.PTE_PG
  BY <1>1, <1>3, <1>4, ZenonT(60) DEF PageRec
<1> QED BY <1>1, <1>5, Zenon DEF q, w, SameMeta

\* With MAX_PHYS_PAGES resident pages or more there is an offset left for one
\* of them: this is what the spare page of MAX_SWAP_FILE_SZ is for.
LEMMA OffsetLeft ==
  ASSUME NEW pr \in PageRec, RecOK(pr), pr.phys_pages >= MAX_PHYS_PAGES
  PROVE  get_offset_ind(pr) # -1
<1> DEFINE W == Swapped(pr)
           S == {s \in SwapSlot : pr.offsets[s] # TAKEN_OFFSET}
<1>1. pr.taken \in SUBSET Slot /\ pr.on_phys \in SUBSET Slot /\ pr.on_phys \subseteq pr.taken
  BY DEF PageRec, RecOK, MetaOK
<1>2. IsFiniteSet(Slot) /\ Cardinality(Slot) = MAX_TOTAL_PAGES
  BY FS_Interval, SizesAssumption, SMTT(60) DEF Slot
<1>3. IsFiniteSet(SwapSlot) /\ Cardinality(SwapSlot) = MAX_SWAP_FILE_SZ
  BY FS_Interval, Sizes DEF SwapSlot
<1>4. IsFiniteSet(W) /\ IsFiniteSet(pr.on_phys) /\ Cardinality(W) \in Nat /\ Cardinality(pr.on_phys) \in Nat
  BY <1>1, <1>2, FS_Subset, FS_CardinalityType DEF Swapped
<1>5. Cardinality(W) + Cardinality(pr.on_phys) <= MAX_TOTAL_PAGES
  <2>1. W \cup pr.on_phys = pr.taken /\ W \cap pr.on_phys = {}
    BY <1>1 DEF Swapped
  <2>2. Cardinality(W \cup pr.on_phys) = Cardinality(W) + Cardinality(pr.on_phys)
                                         - Cardinality(W \cap pr.on_phys)
    BY <1>4, FS_Union
  <2>3. Cardinality(W \cap pr.on_phys) = 0
    BY <2>1, FS_EmptySet
  <2>4. Cardinality(pr.taken) <= MAX_TOTAL_PAGES
    BY <1>1, <1>2, FS_Subset
  <2>5. Cardinality(pr.taken) = Cardinality(W) + Cardinality(pr.on_phys) - 0
    BY <2>1, <2>2, <2>3
  <2> HIDE DEF W
  <2> QED BY <1>4, <2>4, <2>5
<1>6. Cardinality(W) < MAX_SWAP_FILE_SZ
  BY <1>4, <1>5, SizesAssumption DEF RecOK, CountOK, MAX_SWAP_FILE_SZ
<1>7. S # {}
  <2> SUFFICES ASSUME S = {} PROVE FALSE
    OBVIOUS
  <2>1. Used(pr) = SwapSlot
    BY DEF RecOK, OffsetsOK, Available
  <2> DEFINE g == [o \in SwapSlot |-> CHOOSE i \in W : pr.offset[i] = o]
  <2>2. \A o \in SwapSlot : g[o] \in W /\ pr.offset[g[o]] = o
    BY <2>1 DEF Used
  <2>3. g \in [SwapSlot -> W]
    BY <2>2
  <2>4. Cardinality(W) < Cardinality(SwapSlot)
    BY <1>3, <1>6
  <2> HIDE DEF g, W
  <2>5. \E a, b \in SwapSlot : a # b /\ g[a] = g[b]
    BY <1>3, <1>4, <2>3, <2>4, FS_PigeonHole
  <2> QED BY <2>2, <2>5
<1>8. S \subseteq Nat /\ -1 \notin S
  BY Sizes, Zenon
<1> QED BY <1>7, <1>8, FirstProperty DEF get_offset_ind

\* A process with resident pages has a list to walk.
LEMMA HeadExists ==
  ASSUME NEW pr \in PageRec, RecOK(pr), pr.phys_pages >= MAX_PHYS_PAGES
  PROVE  pr.headp \in pr.on_phys
<1>1. pr.on_phys # {}
  BY FS_EmptySet, SizesAssumption DEF RecOK, CountOK
<1> QED BY <1>1 DEF RecOK, RingOK, Resident

\* Only swap_to_file writes to the swap file.
LEMMA FileKept ==
  ASSUME NEW pr \in PageRec, NEW v, NEW f
  PROVE  /\ SameFile(mappages(pr, v, f), pr) /\ SameFile(clear_pte(pr, v), pr)
         /\ SameFile(swap_from_file(pr, v), pr)
         /\ SameFile(add_page(pr, v), pr) /\ SameFile(remove_page(pr, v), pr)
<1>1. SameFile(mappages(pr, v, f), pr) /\ SameFile(clear_pte(pr, v), pr)
  BY DEF SameFile, mappages, clear_pte, PageRec
<1>2. SameFile(swap_from_file(pr, v), pr)
  BY DEF SameFile, swap_from_file, PageRec
<1>3. SameFile(add_page(pr, v), pr)
  BY DEF SameFile, add_page, PageRec
<1>4. SameFile(remove_page(pr, v), pr)
  BY DEF SameFile, remove_page, PageRec
<1> QED BY <1>1, <1>2, <1>3, <1>4

\* The mutations of the page table and of pages[] together keep the file.
LEMMA FileKeptTwice ==
  ASSUME NEW pr \in PageRec, NEW v \in Vpn, NEW f \in Frame
  PROVE  /\ SameFile(swap_from_file(mappages(pr, v, f), v), pr)
         /\ SameFile(add_page(mappages(pr, v, f), v), pr)
<1> DEFINE w == mappages(pr, v, f)
<1>1. w \in PageRec /\ SameFile(w, pr)
  BY MapFields, FileKept, Zenon
<1> HIDE DEF w
<1>2. SameFile(swap_from_file(w, v), w) /\ SameFile(add_page(w, v), w)
  BY <1>1, FileKept
<1>3. SameFile(swap_from_file(w, v), pr) /\ SameFile(add_page(w, v), pr)
  BY <1>1, <1>2 DEF SameFile
<1> QED BY <1>3 DEF w

\* Removing page v keeps the file.
LEMMA RemovedFile ==
  ASSUME NEW pr \in PageRec, NEW v
  PROVE  SameFile(clear_pte(remove_page(pr, v), v), pr)
<1> DEFINE w == remove_page(pr, v)
<1>1. SameFile(w, pr) /\ DOMAIN w = DOMAIN pr
  <2>1. DOMAIN w = DOMAIN pr
    BY Zenon DEF remove_page
  <2> QED BY <2>1, FileKept
<1>2. {"file_size", "swap_len", "swap"} \subseteq DOMAIN pr
  BY DEF PageRec
<1> HIDE DEF w
<1>3. SameFile(clear_pte(w, v), w)
  BY <1>1, <1>2 DEF SameFile, clear_pte
<1>4. SameFile(clear_pte(w, v), pr)
  BY <1>1, <1>3 DEF SameFile
<1> QED BY <1>4 DEF w

\* The first available offset is at most the length of the file.
LEMMA NextOffset ==
  ASSUME NEW pr \in PageRec, SwapOK(pr), get_offset_ind(pr) # -1
  PROVE  /\ get_offset_ind(pr) \in SwapSlot
         /\ pr.offsets[get_offset_ind(pr)] \in SwapSlot
         /\ get_offset_ind(pr) <= pr.swap_len
         /\ pr.offsets[get_offset_ind(pr)] <= pr.swap_len
         /\ pr.offsets[get_offset_ind(pr)] = pr.swap_len => get_offset_ind(pr) = pr.swap_len
<1> DEFINE S == {j \in SwapSlot : pr.offsets[j] # TAKEN_OFFSET}
           s == get_offset_ind(pr)
<1>1. s \in SwapSlot /\ pr.offsets[s] \in SwapSlot
  BY GetOffsetTakes
<1>2. S \subseteq Nat /\ s = First(S) /\ S # {}
  BY <1>1, Sizes, Zenon DEF get_offset_ind, First
<1>3. \A j \in S : s <= j
  BY <1>2, FirstProperty
<1>4. pr.swap_len \in 0 .. MAX_SWAP_FILE_SZ /\ SwapSlot = 0 .. MAX_SWAP_FILE_SZ - 1
  BY DEF PageRec, SwapSlot
<1>5. s <= pr.swap_len
  <2>1. CASE pr.swap_len \in SwapSlot
    <3>1. pr.offsets[pr.swap_len] = pr.swap_len
      BY <2>1, <1>4, Sizes DEF SwapOK
    <3> QED BY <1>3, <1>4, <2>1, <3>1 DEF TAKEN_OFFSET
  <2>2. CASE pr.swap_len \notin SwapSlot
    BY <1>1, <1>4, <2>2, Sizes
  <2> QED BY <2>1, <2>2
<1> HIDE DEF s
<1>6. IF s < pr.swap_len THEN pr.offsets[s] < pr.swap_len ELSE pr.offsets[s] = s
  BY <1>1 DEF SwapOK
<1> QED BY <1>1, <1>4, <1>5, <1>6, Sizes DEF s

\* This is what swap_to_file does to the file.
LEMMA SwapOutWrites ==
  ASSUME NEW pr \in PageRec, SwapOK(pr), NEW v \in Vpn, NEW d \in Data,
         get_offset_ind(pr) # -1
  PROVE  FileWritten(swap_to_file(pr, v, d), pr, d)
<1> DEFINE off == pr.offsets[get_offset_ind(pr)]
           w == writeToSwapFile(pr, off, d)
           q == swap_to_file(pr, v, d)
<1>1. off \in SwapSlot /\ off <= pr.swap_len
  BY NextOffset
<1>2. w \in PageRec /\ w.file_size = pr.file_size
  <2>1. w \in PageRec /\ w = [pr EXCEPT !.swap = w.swap, !.swap_len = w.swap_len]
    BY <1>1, WriteFields, ZenonT(60)
  <2> HIDE DEF w
  <2> QED BY <2>1, ZenonT(60) DEF PageRec
<1>3. pr.swap_len \in Nat /\ off \in Nat
  <2>1. pr.swap_len \in 0 .. MAX_SWAP_FILE_SZ
    BY DEF PageRec
  <2> HIDE DEF off
  <2> QED BY <1>1, <2>1, Sizes
<1>4. ~(off > pr.swap_len)
  BY <1>1, <1>3
<1>5. /\ w.swap = [pr.swap EXCEPT ![off] = d]
      /\ w.swap_len = IF off = pr.swap_len THEN pr.swap_len + 1 ELSE pr.swap_len
  BY <1>4 DEF writeToSwapFile, PageRec
<1>6. q.swap = w.swap /\ q.swap_len = w.swap_len /\ q.file_size = size_after(w.file_size, off)
  <2> HIDE DEF w
  <2> QED BY <1>2 DEF swap_to_file, PageRec, w
<1> QED BY <1>1, <1>2, <1>5, <1>6, Zenon DEF FileWritten

\* The sizes and offsets of a paging record are numbers.
LEMMA FileTypes ==
  ASSUME NEW pr \in PageRec
  PROVE  /\ pr.swap_len \in Nat /\ pr.file_size \in Nat /\ SwapSlot \subseteq Nat
         /\ pr.offset \in [Slot -> Int] /\ pr.offsets \in [SwapSlot -> Int]
<1>1. /\ pr.swap_len \in 0 .. MAX_SWAP_FILE_SZ /\ pr.file_size \in 0 .. MAX_SWAP_FILE_SZ
      /\ pr.offset \in [Slot -> SwapSlot \cup {-1}]
      /\ pr.offsets \in [SwapSlot -> SwapSlot \cup {-1}]
  BY DEF PageRec, TAKEN_OFFSET
<1>2. SwapSlot \cup {-1} \subseteq Int
  BY Sizes DEF SwapSlot
<1>3. pr.offset \in [Slot -> Int] /\ pr.offsets \in [SwapSlot -> Int]
  BY <1>1, <1>2
<1>4. pr.swap_len \in Nat /\ pr.file_size \in Nat
  BY <1>1, Sizes
<1> QED BY <1>3, <1>4, Sizes

-----------------------------------------------------------------------------
\* Writing back what is there changes nothing, and the types of what is there.
LEMMA Same ==
  ASSUME Inv, NEW p \in Proc
  PROVE  /\ proc = [proc EXCEPT ![p] = proc[p]] /\ pg = [pg EXCEPT ![p] = pg[p]]
         /\ kern = [kern EXCEPT ![p] = kern[p]]
         /\ proc[p] \in ProcRec /\ pg[p] \in PageRec /\ kern[p] \in KernRec
         /\ mem \in [Frame -> Data] /\ free \subseteq Frame
BY DEF Inv, TypeOK

\* Changing the accessed or the user bits changes nothing else.
LEMMA Bits ==
  ASSUME NEW pr \in PageRec, NEW S \in SUBSET Vpn
  PROVE  SameButBits([pr EXCEPT !.PTE_A = S], pr) /\ SameButBits([pr EXCEPT !.PTE_U = S], pr)
BY Zenon DEF PageRec, SameMeta, SameButBits

\* What holds of a process inside the kernel.
LEMMA InKernel ==
  ASSUME Inv, NEW p \in Proc, NEW pc, pc \notin {"user", "failed", "halt"}, In(p, pc)
  PROVE  /\ RecOK(pg[p]) /\ LoopOK(proc[p], pg[p], kern[p]) /\ AddrOK(pg[p])
         /\ proc[p].state = "RUNNING" /\ kern[p].pc = pc
         /\ proc[p] \in ProcRec /\ pg[p] \in PageRec /\ kern[p] \in KernRec
BY Same, ZenonT(60) DEF Inv, LocalOK, In, Lost

\* While a victim is looked for, the search is on a resident page and the process
\* has all the pages it may have.
LEMMA LoopVictim ==
  ASSUME NEW c, NEW pr, NEW k, LoopOK(c, pr, k), k.pc \in {"scan", "swapout"}
  PROVE  k.cur \in pr.on_phys /\ k.then # "user" /\ pr.phys_pages >= MAX_PHYS_PAGES
BY Zenon DEF LoopOK

\* While copyuvm runs, the parent has all its pages.
LEMMA LoopCopy ==
  ASSUME NEW c, NEW pr, NEW k, LoopOK(c, pr, k), k.pc = "copy"
  PROVE  /\ Mapped(pr) = Below(c.sz) /\ k.lim = c.sz /\ k.a <= k.lim /\ Text \in pr.PTE_P
         /\ (Small(c) => pr.phys_pages <= MAX_PHYS_PAGES)
BY DEF LoopOK, Stage

\* What holds while copyuvm runs.
LEMMA InCopy ==
  ASSUME Inv, NEW p \in Proc, NEW q \in Proc, In(p, "copy"), q \in kern[p].peer
  PROVE  /\ RecOK(pg[p]) /\ proc[p].state = "RUNNING" /\ AddrOK(pg[p])
         /\ Mapped(pg[p]) = Below(proc[p].sz) /\ kern[p].lim = proc[p].sz
         /\ kern[p].a <= kern[p].lim /\ (Small(proc[p]) => pg[p].phys_pages <= MAX_PHYS_PAGES)
         /\ Text \in pg[p].PTE_P
         /\ proc[q].state = "EMBRYO" /\ kern[q].pc = "user" /\ p # q /\ kern[p].peer = {q}
         /\ AddrOK(pg[q]) /\ CopyOK(pg[p], pg[q], kern[p].a)
         /\ \A r \in Proc \ {p} : kern[r].pc = "copy" => q \notin kern[r].peer
         /\ kern[p].pc = "copy" /\ kern[p].a \in 0 .. NVPN /\ kern[p].lim \in 0 .. NVPN
<1>1. /\ RecOK(pg[p]) /\ LoopOK(proc[p], pg[p], kern[p]) /\ AddrOK(pg[p])
      /\ proc[p].state = "RUNNING" /\ kern[p].pc = "copy"
  <2>1. "copy" \notin {"user", "failed", "halt"}
    OBVIOUS
  <2> QED BY <2>1, InKernel, ZenonT(60)
<1>2. /\ Mapped(pg[p]) = Below(proc[p].sz) /\ kern[p].lim = proc[p].sz /\ kern[p].a <= kern[p].lim
      /\ (Small(proc[p]) => pg[p].phys_pages <= MAX_PHYS_PAGES) /\ Text \in pg[p].PTE_P
  BY <1>1, LoopCopy, ZenonT(60)
<1>3. proc[q].state = "EMBRYO" /\ CopyOK(pg[p], pg[q], kern[p].a) /\ kern[p].peer = {q}
  <2>1. ForkOK
    BY Zenon DEF Inv
  <2>2. /\ \A r \in kern[p].peer : proc[r].state = "EMBRYO" /\ CopyOK(pg[p], pg[r], kern[p].a)
        /\ \A r, t \in kern[p].peer : r = t
    BY <1>1, <2>1, Zenon DEF ForkOK
  <2>3. kern[p].peer = {q}
    BY <2>2
  <2> QED BY <2>2, <2>3, Zenon
<1>4. kern[q].pc = "user" /\ AddrOK(pg[q])
  <2>1. "EMBRYO" # "RUNNING" /\ "EMBRYO" # "ZOMBIE"
    OBVIOUS
  <2> QED BY <1>3, <2>1, ZenonT(60) DEF Inv, LocalOK
<1>5. \A r \in Proc \ {p} : kern[r].pc = "copy" => q \notin kern[r].peer
  BY <1>1, Zenon DEF Inv, ForkOK
<1>6. kern[p].a \in 0 .. NVPN /\ kern[p].lim \in 0 .. NVPN
  BY Same, SMTT(60) DEF KernRec
<1>7. p # q
  BY <1>1, <1>4, ZenonT(60)
<1> QED BY <1>1, <1>2, <1>3, <1>4, <1>5, <1>6, <1>7, ZenonT(60)

\* Copy_flags has that effect.
LEMMA CopyFields ==
  ASSUME NEW dst \in PageRec, NEW src \in PageRec, NEW v \in Vpn
  PROVE  Copied(copy_flags(dst, src, v), dst, src, v)
<1> DEFINE P == dst.PTE_P \cup ({v} \cap src.PTE_P)
           PG == dst.PTE_PG \cup ({v} \cap src.PTE_PG)
           A == dst.PTE_A \cup ({v} \cap src.PTE_A)
           U == dst.PTE_U \cup ({v} \cap src.PTE_U)
           q == copy_flags(dst, src, v)
<1>1. P \in SUBSET Vpn /\ PG \in SUBSET Vpn /\ A \in SUBSET Vpn /\ U \in SUBSET Vpn
  BY DEF PageRec
<1>2. q = [dst EXCEPT !.PTE_P = P, !.PTE_PG = PG, !.PTE_A = A, !.PTE_U = U]
  BY DEF copy_flags, PageRec
<1> HIDE DEF P, PG, A, U, q
<1>3. q \in PageRec /\ q.PTE_P = P /\ q.PTE_PG = PG /\ q.PTE_ADDR = dst.PTE_ADDR
  BY <1>1, <1>2, ZenonT(60) DEF PageRec
<1> QED BY <1>3, SMTT(60) DEF P, PG, q, Copied

\* A copyuvm without memory for the page table of the copy: the first page is
\* present while fork runs, so it has been copied when mappages fails.
LEMMA NoTable ==
  ASSUME Inv, NEW p \in Proc, NEW q \in Proc, CopyNoTable(p, q)
  PROVE  /\ In(p, "copy") /\ q \in kern[p].peer /\ ForkFails(p, q)
         /\ pg[p].PTE_ADDR[0] \in Frame
         /\ \E f \in free : Alloc(f, mem[pg[p].PTE_ADDR[0]])
<1>1. In(p, "copy") /\ q \in kern[p].peer
  BY Zenon DEF CopyNoTable
<1>2. RecOK(pg[p]) /\ AddrOK(pg[p]) /\ Text \in pg[p].PTE_P
  BY <1>1, InCopy, ZenonT(60)
<1>3. 0 \in pg[p].PTE_P /\ 0 \notin pg[p].PTE_PG
  BY <1>2 DEF RecOK, MetaOK, Resident, Swapped, Text
<1>4. ForkFails(p, q) /\ \E f \in free : Alloc(f, mem[pg[p].PTE_ADDR[0]])
  BY <1>3, Zenon DEF CopyNoTable
<1> QED BY <1>1, <1>2, <1>3, <1>4, Zenon DEF AddrOK
=============================================================================
