----------------------------- MODULE LogProofs ------------------------------
(***************************************************************************)
(* The inductive invariant of the redo log, for any number of processes    *)
(* and blocks and any size of the log: begin_op, log_write, end_op, the    *)
(* steps of a commit, the buffer cache, crashes and the boot keep it.      *)
(* What it says of the log, and that the log implements AtomicDisk.        *)
(***************************************************************************)
EXTENDS Log, FiniteSetTheorems, TLAPS

\* System calls only; the log on disk has as many blocks as its header has
\* entries (mkfs), so one fewer for data; and an operation writes two blocks
\* fewer than begin_op reserves, since log_write tests the size of the
\* transaction even for a block that the header has already.
Fits == Depth = 1 /\ OpBlocks + 2 <= MAXOPBLOCKS /\ log_size >= LOGSIZE

Entries(s) == {s[i] : i \in 1 .. Len(s)}
Distinct(s) == \A i, j \in 1 .. Len(s) : s[i] = s[j] => i = j
Commits == {"write_log", "write_head", "install_trans", "clear", "done"}
Active == {p \in Proc : depth[p] = 1}

Types ==
  /\ home \in [Block -> Data] /\ cache \in [Block -> Data] /\ dirty \in SUBSET Block
  /\ dlog \in [1 .. LOGSIZE -> Data]
  /\ dhead \in Seq(Block) /\ lh \in Seq(Block)
  /\ outstanding \in Nat /\ committing \in BOOLEAN
  /\ pc \in [Proc -> PC] /\ depth \in [Proc -> 0 .. 1]
  /\ wrote \in [Proc -> SUBSET Block] /\ held \in [Proc -> SUBSET Block]
  /\ tail \in Nat /\ ops \in Nat
  /\ boot \in {"read_head", "install_trans", "up"}

\* The operations in progress: outstanding counts them, each is in one place,
\* has one buffer at most, and none is in progress during a commit.
Operations ==
  /\ IsFiniteSet(Active) /\ Cardinality(Active) = outstanding
  /\ \A p \in Proc : depth[p] = 0 => wrote[p] = {} /\ pc[p] # "log_write"
  /\ \A p \in Proc : depth[p] = 1 => pc[p] \in {"run", "log_write"}
  /\ \A p \in Proc : IsFiniteSet(wrote[p]) /\ Cardinality(wrote[p]) <= OpBlocks
  /\ \A p \in Proc : IF pc[p] = "log_write" THEN \E b \in wrote[p] : held[p] = {b} ELSE held[p] = {}
  /\ \A p, q \in Proc : p # q => held[p] \cap held[q] = {}
  /\ committing => outstanding = 0
  /\ \A p \in Proc : pc[p] \in Commits => committing
  /\ \A p, q \in Proc : pc[p] \in Commits /\ pc[q] \in Commits => p = q

\* The blocks that the operations A in progress may still add to the header s,
\* when they have written w and hold h.
ClaimsOf(A, w, h, s) == {t \in A \X (1 .. MAXOPBLOCKS) :
            \/ t[2] > Cardinality(w[t[1]])
            \/ t[2] = Cardinality(w[t[1]]) /\ ~(h[t[1]] \subseteq Entries(s))}
Claim == ClaimsOf(Active, wrote, held, lh)
Reserved == Len(lh) + Cardinality(Claim) <= LOGSIZE

\* The header has every block once, and every block that has been recorded.
Headers ==
  /\ Distinct(lh) /\ Distinct(dhead) /\ Len(dhead) <= LOGSIZE
  /\ \A p \in Proc : wrote[p] \ held[p] \subseteq Entries(lh)

InLog == \A i \in 1 .. Len(lh) : dlog[i] = cache[lh[i]]

\* What is where, while the machine is up.
Running == boot = "up" =>
  /\ (\A p \in Proc : pc[p] \notin {"install_trans", "clear"}) => dhead = <<>> /\ dirty = Entries(lh)
  /\ \A p \in Proc : pc[p] = "write_log" =>
       tail < Len(lh) /\ \A i \in 1 .. tail : dlog[i] = cache[lh[i]]
  /\ \A p \in Proc : pc[p] = "write_head" => tail = 0 /\ Len(lh) > 0 /\ InLog
  /\ \A p \in Proc : pc[p] = "install_trans" =>
       dhead = lh /\ tail < Len(lh) /\ InLog /\ dirty = {lh[i] : i \in tail + 1 .. Len(lh)}
  /\ \A p \in Proc : pc[p] = "clear" => dhead = lh /\ dirty = {} /\ InLog
  /\ \A p \in Proc : pc[p] = "done" => lh = <<>>
  /\ \A b \in Block : b \notin dirty /\ (\A p \in Proc : b \notin held[p]) => cache[b] = home[b]
  /\ outstanding = 0 /\ ~committing => lh = <<>>

\* What is where, while the machine boots.
Booting == boot # "up" =>
  /\ cache = home /\ dirty = {} /\ outstanding = 0 /\ ~committing
  /\ \A p \in Proc : pc[p] = "run"
  /\ boot = "read_head" => lh = <<>> /\ tail = 0
  /\ boot = "install_trans" =>
       lh = dhead /\ tail <= Len(lh) /\ \A i \in 1 .. tail : home[lh[i]] = dlog[i]

IInv == NoPanic /\ Types /\ Operations /\ Reserved /\ Headers /\ Running /\ Booting

-----------------------------------------------------------------------------
\* Facts about headers and claims.

\* The empty header has no entries.
LEMMA EmptyHeader == Entries(<<>>) = {} /\ Distinct(<<>>) /\ Len(<<>>) = 0 /\ <<>> \in Seq(Block)
BY DEF Entries, Distinct

\* Appending a block adds an entry.
LEMMA AppendHeader ==
  ASSUME NEW s \in Seq(Block), NEW b \in Block
  PROVE  /\ Append(s, b) \in Seq(Block) /\ Len(Append(s, b)) = Len(s) + 1
         /\ Entries(Append(s, b)) = Entries(s) \cup {b}
         /\ Distinct(s) /\ b \notin Entries(s) => Distinct(Append(s, b))
<1> DEFINE t == Append(s, b)
<1>1. /\ t \in Seq(Block) /\ Len(t) = Len(s) + 1 /\ Len(s) \in Nat
      /\ \A i \in 1 .. Len(s) : t[i] = s[i] /\ t[Len(s) + 1] = b
  OBVIOUS
<1> HIDE DEF t
<1>2. t[Len(s) + 1] = b
  <2>1. Append(s, b)[Len(s) + 1] = b
    OBVIOUS
  <2> QED BY <2>1 DEF t
<1>3. Entries(t) = Entries(s) \cup {b}
  <2>1. ASSUME NEW x \in Entries(t) PROVE x \in Entries(s) \cup {b}
    <3>1. PICK i \in 1 .. Len(t) : x = t[i]
      BY <2>1 DEF Entries
    <3>2. CASE i = Len(s) + 1
      BY <3>1, <3>2, <1>2
    <3>3. CASE i \in 1 .. Len(s)
      BY <3>1, <3>3, <1>1 DEF Entries
    <3> QED BY <1>1, <3>2, <3>3
  <2>2. ASSUME NEW x \in Entries(s) PROVE x \in Entries(t)
    <3>1. PICK i \in 1 .. Len(s) : x = s[i]
      BY <2>2 DEF Entries
    <3>2. i \in 1 .. Len(t) /\ x = t[i]
      BY <1>1, <3>1
    <3> QED BY <3>2 DEF Entries
  <2>3. b \in Entries(t)
    <3>1. Len(s) + 1 \in 1 .. Len(t)
      BY <1>1
    <3> QED BY <1>2, <3>1 DEF Entries
  <2> QED BY <2>1, <2>2, <2>3
<1>4. ASSUME Distinct(s), b \notin Entries(s) PROVE Distinct(t)
  <2> SUFFICES ASSUME NEW i \in 1 .. Len(t), NEW j \in 1 .. Len(t), t[i] = t[j]
               PROVE  i = j
    BY DEF Distinct
  <2>1. \A k \in 1 .. Len(s) : t[k] # b
    BY <1>1, <1>4 DEF Entries
  <2>2. CASE i \in 1 .. Len(s) /\ j \in 1 .. Len(s)
    BY <1>1, <1>4, <2>2 DEF Distinct
  <2>3. CASE i = Len(s) + 1 \/ j = Len(s) + 1
    BY <1>1, <1>2, <2>1, <2>3
  <2> QED BY <1>1, <2>2, <2>3
<1> QED BY <1>1, <1>3, <1>4 DEF t

\* The claims are no more than what begin_op counts for the operations.
LEMMA ClaimBound ==
  ASSUME NEW A, IsFiniteSet(A), NEW w, NEW h, NEW s, Fits
  PROVE  /\ IsFiniteSet(ClaimsOf(A, w, h, s)) /\ Cardinality(ClaimsOf(A, w, h, s)) \in Nat
         /\ Cardinality(ClaimsOf(A, w, h, s)) <= Cardinality(A) * MAXOPBLOCKS
<1>1. IsFiniteSet(1 .. MAXOPBLOCKS) /\ Cardinality(1 .. MAXOPBLOCKS) = MAXOPBLOCKS
  <2>1. MAXOPBLOCKS \in Int /\ 1 \in Int /\ MAXOPBLOCKS >= 1
    BY LogAssumption DEF Fits
  <2>2. /\ IsFiniteSet(1 .. MAXOPBLOCKS)
        /\ Cardinality(1 .. MAXOPBLOCKS) = IF 1 > MAXOPBLOCKS THEN 0 ELSE MAXOPBLOCKS - 1 + 1
    BY <2>1, FS_Interval, Zenon
  <2> QED BY <2>1, <2>2
<1>2. /\ IsFiniteSet(A \X (1 .. MAXOPBLOCKS))
      /\ Cardinality(A \X (1 .. MAXOPBLOCKS)) = Cardinality(A) * Cardinality(1 .. MAXOPBLOCKS)
  BY <1>1, FS_Product, Zenon
<1>3. ClaimsOf(A, w, h, s) \in SUBSET (A \X (1 .. MAXOPBLOCKS))
  BY DEF ClaimsOf
<1>4. /\ IsFiniteSet(ClaimsOf(A, w, h, s))
      /\ Cardinality(ClaimsOf(A, w, h, s)) <= Cardinality(A \X (1 .. MAXOPBLOCKS))
  BY <1>2, <1>3, FS_Subset, Zenon
<1>5. Cardinality(ClaimsOf(A, w, h, s)) \in Nat
  BY <1>4, FS_CardinalityType, Zenon
<1> QED BY <1>1, <1>2, <1>4, <1>5

\* Fewer claims, and a header that is not longer, keep the reservation.
LEMMA ReserveSmaller ==
  ASSUME Types, Types', Operations, Fits, Reserved,
         Claim' \subseteq Claim, Len(lh') <= Len(lh)
  PROVE  Reserved'
<1>1. IsFiniteSet(Claim) /\ Cardinality(Claim) \in Nat
  BY ClaimBound, Zenon DEF Claim, Operations
<1>2. IsFiniteSet(Claim') /\ Cardinality(Claim') <= Cardinality(Claim)
  <2>1. Claim' \in SUBSET Claim
    OBVIOUS
  <2> QED BY <1>1, <2>1, FS_Subset, Zenon
<1>3. Cardinality(Claim') \in Nat
  BY <1>2, FS_CardinalityType, Zenon
<1>4. Len(lh) \in Nat /\ Len(lh') \in Nat
  BY DEF Types
<1> QED BY <1>1, <1>2, <1>3, <1>4, LogAssumption DEF Reserved

\* Without operations nothing is claimed.
LEMMA NoClaims ==
  ASSUME Types', Active' = {}, Len(lh') <= LOGSIZE
  PROVE  Reserved'
<1>1. Claim' = {}
  BY DEF Claim, ClaimsOf
<1> QED BY <1>1, FS_EmptySet, LogAssumption DEF Reserved, Types

\* A commit runs alone.
LEMMA CommitAlone ==
  ASSUME Types, Operations, NEW p \in Proc, pc[p] \in Commits
  PROVE  /\ committing /\ outstanding = 0 /\ Active = {}
         /\ \A q \in Proc : depth[q] = 0 /\ wrote[q] = {} /\ held[q] = {}
         /\ \A q \in Proc : q # p => pc[q] \in {"run", "sleep", "woken"}
<1>1. committing /\ outstanding = 0
  BY DEF Operations
<1>2. Active = {}
  BY <1>1, FS_EmptySet DEF Operations
<1>3. \A q \in Proc : depth[q] = 0
  BY <1>2 DEF Active, Types
<1>4. \A q \in Proc : wrote[q] = {} /\ held[q] = {} /\ pc[q] # "log_write"
  BY <1>3 DEF Operations
<1>5. \A q \in Proc : q # p => pc[q] \in {"run", "sleep", "woken"}
  BY <1>4 DEF Operations, Types, PC, Commits
<1> QED BY <1>1, <1>2, <1>3, <1>4, <1>5

\* While an operation is in progress nobody commits.
LEMMA NoCommit ==
  ASSUME Types, Operations, NEW p \in Proc, depth[p] = 1
  PROVE  /\ ~committing /\ outstanding >= 1 /\ p \in Active
         /\ \A q \in Proc : pc[q] \notin Commits
<1>1. p \in Active
  BY DEF Active
<1>2. outstanding # 0
  BY <1>1, FS_EmptySet DEF Operations
<1> QED BY <1>1, <1>2 DEF Operations, Types

-----------------------------------------------------------------------------
\* Every action keeps the invariant.

\* begin_op keeps the invariant: it claims room only if there is some.
LEMMA BeginOpKeeps ==
  ASSUME Fits, IInv, NEW p \in Proc, begin_op(p)
  PROVE  IInv'
<1>0. /\ NoPanic /\ Types /\ Operations /\ Reserved /\ Headers /\ Running /\ Booting
      /\ boot = "up" /\ pc[p] \in {"run", "woken"} /\ Depth = 1
  BY Zenon DEF IInv, begin_op, Up, Fits
<1>1. depth[p] = 0
  BY <1>0 DEF begin_op, Operations, Types
<1>2. UNCHANGED <<home, dlog, dhead, cache, dirty, lh, committing, wrote, held, tail, boot, panic>>
  BY DEF begin_op, disk
<1>3. NoPanic' /\ Headers' /\ Booting'
  <2>1. NoPanic' /\ Booting'
    BY <1>0, <1>2, Zenon DEF NoPanic, Booting
  <2>2. Headers'
    BY <1>0, <1>2 DEF Headers, Entries, Distinct
  <2> QED BY <2>1, <2>2
<1>4. CASE committing \/ ~HasRoom
  <2>1. pc' = [pc EXCEPT ![p] = "sleep"] /\ UNCHANGED <<outstanding, depth>> /\ ops' \in Nat
    BY <1>0, <1>4 DEF begin_op, Types
  <2>2. Types'
    BY <1>0, <1>2, <2>1 DEF Types, PC
  <2>3. Active' = Active
    BY <2>1 DEF Active
  <2>4. Operations'
    <3>1. /\ \A q \in Proc : pc'[q] \in Commits <=> pc[q] \in Commits
          /\ \A q \in Proc : pc'[q] = "log_write" <=> pc[q] = "log_write"
      BY <1>0, <2>1 DEF Types, Commits
    <3>2. \A q \in Proc : depth'[q] = 1 => pc'[q] \in {"run", "log_write"}
      BY <1>0, <1>1, <2>1 DEF Operations, Types
    <3> QED BY <1>0, <1>2, <2>1, <2>3, <3>1, <3>2 DEF Operations
  <2>5. Reserved'
    <3>1. Claim' = Claim
      BY <1>2, <2>3 DEF Claim, ClaimsOf, Entries
    <3> QED BY <1>0, <1>2, <3>1 DEF Reserved
  <2>6. Running'
    BY <1>0, <1>2, <2>1 DEF Running, InLog, Entries, Types
  <2> QED BY <1>3, <2>2, <2>4, <2>5, <2>6 DEF IInv
<1>5. CASE ~committing /\ HasRoom
  <2>1. /\ pc' = [pc EXCEPT ![p] = "run"] /\ outstanding' = outstanding + 1
        /\ depth' = [depth EXCEPT ![p] = 1] /\ ops' \in Nat
    BY <1>0, <1>1, <1>5 DEF begin_op, Types
  <2>2. Types'
    BY <1>0, <1>2, <2>1 DEF Types, PC
  <2>3. Active' = Active \cup {p} /\ p \notin Active
    BY <1>0, <1>1, <2>1 DEF Active, Types
  <2>4. IsFiniteSet(Active') /\ Cardinality(Active') = outstanding'
    BY <1>0, <2>1, <2>3, FS_AddElement DEF Operations
  <2>5. /\ \A q \in Proc : pc'[q] \in Commits <=> pc[q] \in Commits
        /\ \A q \in Proc : pc'[q] = "log_write" <=> pc[q] = "log_write"
    BY <1>0, <2>1 DEF Types, Commits
  <2>6. Operations'
    <3>1. \A q \in Proc : depth'[q] = 0 => wrote'[q] = {} /\ pc'[q] # "log_write"
      BY <1>0, <1>2, <2>1, <2>5 DEF Operations, Types
    <3>2. \A q \in Proc : depth'[q] = 1 => pc'[q] \in {"run", "log_write"}
      BY <1>0, <1>2, <2>1 DEF Operations, Types
    <3> QED BY <1>0, <1>2, <1>5, <2>4, <2>5, <3>1, <3>2 DEF Operations
  <2>7. Reserved'
    <3>1. /\ Cardinality(Claim') \in Nat
          /\ Cardinality(Claim') <= Cardinality(Active') * MAXOPBLOCKS
      BY <2>4, ClaimBound, Zenon DEF Claim
    <3>2. Len(lh) + (outstanding + 1) * MAXOPBLOCKS <= LOGSIZE
      BY <1>5 DEF HasRoom
    <3>3. Cardinality(Active') = outstanding + 1 /\ outstanding \in Nat /\ Len(lh) \in Nat
      BY <1>0, <2>1, <2>4 DEF Types
    <3>4. Len(lh) + Cardinality(Claim') <= LOGSIZE
      <4> DEFINE k == (outstanding + 1) * MAXOPBLOCKS
      <4>1. Cardinality(Claim') <= k /\ Len(lh) + k <= LOGSIZE /\ k \in Nat
        BY <3>1, <3>2, <3>3, LogAssumption
      <4> HIDE DEF k
      <4> QED BY <3>1, <3>3, <4>1, LogAssumption
    <3> QED BY <1>2, <3>4 DEF Reserved
  <2>8. Running'
    BY <1>0, <1>2, <2>1 DEF Running, InLog, Entries, Types
  <2> QED BY <1>3, <2>2, <2>6, <2>7, <2>8 DEF IInv
<1> QED BY <1>4, <1>5

\* log_write up to its lock keeps the invariant: the test leaves room for the block.
LEMMA LogWriteKeeps ==
  ASSUME Fits, IInv, NEW p \in Proc, NEW b \in Block, NEW d \in Data, log_write(p, b, d)
  PROVE  IInv'
<1> DEFINE n == Cardinality(wrote[p])
<1>0. /\ NoPanic /\ Types /\ Operations /\ Reserved /\ Headers /\ Running /\ Booting
      /\ boot = "up" /\ pc[p] = "run" /\ depth[p] = 1 /\ Depth = 1
      /\ \A q \in Proc : b \notin held[q]
      /\ b \in wrote[p] \/ n < OpBlocks
  <2>0. Types /\ depth[p] > 0
    BY Zenon DEF IInv, log_write
  <2>1. depth[p] = 1
    BY <2>0 DEF Types
  <2>2. depth[p] * OpBlocks = OpBlocks
    BY <2>1, LogAssumption
  <2> QED BY <2>1, <2>2, Zenon DEF IInv, log_write, Up, Fits
<1>1. /\ UNCHANGED <<home, dlog, dhead, dirty, lh, outstanding, committing, depth, tail, boot, ops>>
      /\ cache' = [cache EXCEPT ![b] = d] /\ pc' = [pc EXCEPT ![p] = "log_write"]
      /\ wrote' = [wrote EXCEPT ![p] = @ \cup {b}] /\ held' = [held EXCEPT ![p] = {b}]
  BY Zenon DEF log_write, disk
<1>2. Types'
  BY <1>0, <1>1 DEF Types, PC
<1>3. /\ ~committing /\ outstanding >= 1 /\ p \in Active /\ Active' = Active
      /\ \A q \in Proc : pc[q] \notin Commits
  BY <1>0, <1>1, NoCommit DEF Active
<1>4. held[p] = {} /\ wrote[p] \subseteq Entries(lh)
  BY <1>0 DEF Operations, Headers
<1>5. /\ IsFiniteSet(wrote'[p]) /\ n \in Nat /\ n <= OpBlocks
      /\ Cardinality(wrote'[p]) = IF b \in wrote[p] THEN n ELSE n + 1
  <2>1. wrote'[p] = wrote[p] \cup {b} /\ IsFiniteSet(wrote[p]) /\ n <= OpBlocks
    BY <1>0, <1>1 DEF Operations, Types
  <2>2. n \in Nat
    BY <2>1, FS_CardinalityType, Zenon
  <2>3. /\ IsFiniteSet(wrote[p] \cup {b})
        /\ Cardinality(wrote[p] \cup {b}) =
             IF b \in wrote[p] THEN Cardinality(wrote[p]) ELSE Cardinality(wrote[p]) + 1
    BY <2>1, FS_AddElement, Zenon
  <2> QED BY <2>1, <2>2, <2>3
<1> HIDE DEF n
<1>6. NoPanic'
  <2> DEFINE s == <<p, MAXOPBLOCKS>>
             t == <<p, MAXOPBLOCKS - 1>>
  <2>1. s \in Claim /\ t \in Claim
    <3>1. MAXOPBLOCKS > n /\ MAXOPBLOCKS - 1 > n /\ MAXOPBLOCKS - 1 \in 1 .. MAXOPBLOCKS
          /\ MAXOPBLOCKS \in 1 .. MAXOPBLOCKS
      BY <1>5, LogAssumption DEF Fits
    <3> QED BY <1>3, <3>1 DEF Claim, ClaimsOf, n
  <2>2. s # t
    BY LogAssumption
  <2> HIDE DEF s, t
  <2>3. IsFiniteSet({s} \cup {t}) /\ Cardinality({s} \cup {t}) = 2
    <3>1. IsFiniteSet({s}) /\ Cardinality({s}) = 1
      BY FS_Singleton, Zenon
    <3>2. t \notin {s}
      BY <2>2
    <3>3. /\ IsFiniteSet({s} \cup {t})
          /\ Cardinality({s} \cup {t}) = IF t \in {s} THEN Cardinality({s}) ELSE Cardinality({s}) + 1
      BY <3>1, FS_AddElement, Zenon
    <3> QED BY <3>1, <3>2, <3>3
  <2>4. IsFiniteSet(Claim) /\ Cardinality(Claim) \in Nat
    BY <1>0, ClaimBound, Zenon DEF Claim, Operations
  <2>5. Cardinality({s} \cup {t}) <= Cardinality(Claim)
    <3>1. {s} \cup {t} \in SUBSET Claim
      BY <2>1
    <3> QED BY <2>4, <3>1, FS_Subset, Zenon
  <2>6. Len(lh) \in Nat /\ Len(lh) + 2 <= LOGSIZE
    <3>1. Len(lh) \in Nat /\ LOGSIZE \in Nat /\ Len(lh) + Cardinality(Claim) <= LOGSIZE
      BY <1>0, LogAssumption DEF Types, Reserved
    <3> DEFINE m == Cardinality(Claim)
    <3>2. m >= 2 /\ m \in Nat
      BY <2>3, <2>4, <2>5
    <3>3. Len(lh) + m <= LOGSIZE
      BY <3>1
    <3> HIDE DEF m
    <3> QED BY <3>1, <3>2, <3>3
  <2>7. ~(Len(lh) >= LOGSIZE \/ Len(lh) >= log_size - 1) /\ ~(outstanding < 1)
    BY <1>0, <1>3, <2>6, LogAssumption DEF Fits, Types
  <2> QED BY <2>7, Zenon DEF log_write, NoPanic
<1>7. Operations'
  <2>1. IsFiniteSet(Active') /\ Cardinality(Active') = outstanding'
    BY <1>0, <1>1, <1>3 DEF Operations
  <2>2. \A q \in Proc : IsFiniteSet(wrote'[q]) /\ Cardinality(wrote'[q]) <= OpBlocks
    <3> SUFFICES ASSUME NEW q \in Proc
                 PROVE  IsFiniteSet(wrote'[q]) /\ Cardinality(wrote'[q]) <= OpBlocks
      OBVIOUS
    <3>1. CASE q = p
      BY <1>0, <1>5, <3>1, LogAssumption
    <3>2. CASE q # p
      BY <1>0, <1>1, <3>2 DEF Operations, Types
    <3> QED BY <3>1, <3>2
  <2>3. /\ \A q \in Proc : depth'[q] = 0 => wrote'[q] = {} /\ pc'[q] # "log_write"
        /\ \A q \in Proc : depth'[q] = 1 => pc'[q] \in {"run", "log_write"}
    BY <1>0, <1>1 DEF Operations, Types
  <2>5. \A q \in Proc : pc'[q] \notin Commits
    BY <1>0, <1>1, <1>3 DEF Types, Commits
  <2>6. ASSUME NEW q \in Proc
        PROVE  IF pc'[q] = "log_write" THEN \E c \in wrote'[q] : held'[q] = {c} ELSE held'[q] = {}
    <3>1. CASE q = p
      BY <1>0, <1>1, <3>1 DEF Types
    <3>2. CASE q # p
      BY <1>0, <1>1, <3>2 DEF Operations, Types
    <3> QED BY <3>1, <3>2
  <2>4. \A q, r \in Proc : q # r => held'[q] \cap held'[r] = {}
    BY <1>0, <1>1 DEF Operations, Types
  <2> QED BY <1>1, <1>3, <2>1, <2>2, <2>3, <2>4, <2>5, <2>6, Zenon DEF Operations
<1>8. Reserved'
  <2>1. ASSUME NEW t \in Claim' PROVE t \in Claim
    <3>1. t \in Active \X (1 .. MAXOPBLOCKS)
      BY <1>3, <2>1 DEF Claim, ClaimsOf
    <3>2. t[1] \in Proc /\ t[2] \in Nat
      BY <3>1 DEF Active
    <3>3. \/ t[2] > Cardinality(wrote'[t[1]])
          \/ t[2] = Cardinality(wrote'[t[1]]) /\ ~(held'[t[1]] \subseteq Entries(lh))
      BY <1>1, <2>1 DEF Claim, ClaimsOf
    <3>4. CASE t[1] # p
      <4>1. wrote'[t[1]] = wrote[t[1]] /\ held'[t[1]] = held[t[1]]
        BY <1>0, <1>1, <3>2, <3>4 DEF Types
      <4> QED BY <3>1, <3>3, <4>1 DEF Claim, ClaimsOf
    <3>5. CASE t[1] = p
      <4>1. held'[p] = {b}
        BY <1>0, <1>1 DEF Types
      <4>2. b \in wrote[p] => b \in Entries(lh)
        BY <1>4
      <4>3. t[2] > n
        BY <1>5, <3>2, <3>3, <3>5, <4>1, <4>2
      <4> QED BY <3>1, <3>5, <4>3 DEF Claim, ClaimsOf, n
    <3> QED BY <3>4, <3>5
  <2>2. Len(lh') <= Len(lh)
    BY <1>0, <1>1 DEF Types
  <2> QED BY <1>0, <1>2, <2>1, <2>2, ReserveSmaller
<1>9. Headers'
  <2>1. \A q \in Proc : wrote'[q] \ held'[q] \subseteq Entries(lh)
    BY <1>0, <1>1, <1>4 DEF Headers, Types
  <2> QED BY <1>0, <1>1, <2>1 DEF Headers, Entries, Distinct
<1>10. Running'
  <2>1. dhead = <<>> /\ dirty = Entries(lh)
    BY <1>0, <1>3 DEF Running, Commits
  <2>2. \A q \in Proc : pc'[q] \notin Commits
    BY <1>0, <1>1, <1>3 DEF Types, Commits
  <2>3. ASSUME NEW c \in Block, c \notin dirty', \A q \in Proc : c \notin held'[q]
        PROVE  cache'[c] = home'[c]
    <3>1. c # b
      BY <1>0, <1>1, <2>3 DEF Types
    <3>2. \A q \in Proc : c \notin held[q]
      BY <1>0, <1>1, <1>4, <2>3 DEF Types
    <3>3. cache'[c] = cache[c]
      BY <1>0, <1>1, <3>1 DEF Types
    <3> QED BY <1>0, <1>1, <2>3, <3>2, <3>3 DEF Running
  <2>4. Entries(lh') = Entries(lh) /\ outstanding' # 0
    BY <1>0, <1>1, <1>3 DEF Entries, Types
  <2> QED BY <1>1, <2>1, <2>2, <2>3, <2>4 DEF Running, Commits
<1>11. Booting'
  BY <1>0, <1>1 DEF Booting
<1> QED BY <1>2, <1>6, <1>7, <1>8, <1>9, <1>10, <1>11 DEF IInv

\* Recording a block in the header keeps the invariant: a claim becomes an entry.
LEMMA RecordKeeps ==
  ASSUME Fits, IInv, NEW p \in Proc, record(p)
  PROVE  IInv'
<1> DEFINE n == Cardinality(wrote[p])
<1>0. /\ NoPanic /\ Types /\ Operations /\ Reserved /\ Headers /\ Running /\ Booting
      /\ boot = "up" /\ pc[p] = "log_write"
  BY Zenon DEF IInv, record, Up
<1>1. PICK b \in held[p] : lh' = Recorded(b) /\ dirty' = dirty \cup {b}
  BY DEF record
<1>2. /\ UNCHANGED <<home, dlog, dhead, cache, outstanding, committing, depth, wrote, tail, boot, ops, panic>>
      /\ held' = [held EXCEPT ![p] = {}] /\ pc' = [pc EXCEPT ![p] = "run"]
  BY DEF record, disk
<1>3. held[p] = {b} /\ b \in wrote[p] /\ b \in Block /\ depth[p] = 1
  BY <1>0, <1>1 DEF Operations, Types
<1>4. /\ ~committing /\ outstanding >= 1 /\ p \in Active /\ Active' = Active
      /\ \A q \in Proc : pc[q] \notin Commits
  BY <1>0, <1>2, <1>3, NoCommit DEF Active
<1>5. lh' = IF b \in Entries(lh) THEN lh ELSE Append(lh, b)
  BY <1>1 DEF Recorded, Entries
<1>6. /\ lh' \in Seq(Block) /\ Entries(lh') = Entries(lh) \cup {b} /\ Distinct(lh')
      /\ Len(lh') = IF b \in Entries(lh) THEN Len(lh) ELSE Len(lh) + 1
  <2>1. lh \in Seq(Block) /\ Distinct(lh)
    BY <1>0 DEF Types, Headers
  <2>2. CASE b \in Entries(lh)
    BY <1>5, <2>1, <2>2
  <2>3. CASE b \notin Entries(lh)
    BY <1>3, <1>5, <2>1, <2>3, AppendHeader
  <2> QED BY <2>2, <2>3
<1>7. Types'
  BY <1>0, <1>2, <1>1, <1>3, <1>6 DEF Types, PC
<1>8. NoPanic' /\ Booting'
  BY <1>0, <1>2, Zenon DEF NoPanic, Booting
<1>9. Operations'
  <2>1. IsFiniteSet(Active') /\ Cardinality(Active') = outstanding'
    BY <1>0, <1>2, <1>4 DEF Operations
  <2>2. /\ \A q \in Proc : IsFiniteSet(wrote'[q]) /\ Cardinality(wrote'[q]) <= OpBlocks
        /\ \A q \in Proc : depth'[q] = 0 => wrote'[q] = {} /\ pc'[q] # "log_write"
        /\ \A q \in Proc : depth'[q] = 1 => pc'[q] \in {"run", "log_write"}
    BY <1>0, <1>2, <1>3 DEF Operations, Types
  <2>3. ASSUME NEW q \in Proc
        PROVE  IF pc'[q] = "log_write" THEN \E c \in wrote'[q] : held'[q] = {c} ELSE held'[q] = {}
    <3>1. CASE q = p
      BY <1>0, <1>2, <3>1 DEF Types
    <3>2. CASE q # p
      BY <1>0, <1>2, <3>2 DEF Operations, Types
    <3> QED BY <3>1, <3>2
  <2>4. \A q, r \in Proc : q # r => held'[q] \cap held'[r] = {}
    BY <1>0, <1>2 DEF Operations, Types
  <2>5. \A q \in Proc : pc'[q] \notin Commits
    BY <1>0, <1>2, <1>4 DEF Types, Commits
  <2> QED BY <1>2, <1>4, <2>1, <2>2, <2>3, <2>4, <2>5 DEF Operations
<1>10. \A q \in Proc : q # p => b \notin held[q] /\ held'[q] = held[q]
  BY <1>0, <1>2, <1>3 DEF Operations, Types
<1>11. Claim' \subseteq Claim /\ (b \notin Entries(lh) => Claim' \subseteq Claim \ {<<p, n>>})
  <2> SUFFICES ASSUME NEW t \in Claim'
               PROVE  t \in Claim /\ (b \notin Entries(lh) => t # <<p, n>>)
    OBVIOUS
  <2>1. t \in Active \X (1 .. MAXOPBLOCKS)
    BY <1>4 DEF Claim, ClaimsOf
  <2>2. \/ t[2] > Cardinality(wrote[t[1]])
        \/ t[2] = Cardinality(wrote[t[1]]) /\ ~(held'[t[1]] \subseteq Entries(lh'))
    BY <1>2 DEF Claim, ClaimsOf
  <2>3. CASE t[1] = p
    <3>1. held'[p] = {}
      BY <1>0, <1>2 DEF Types
    <3>2. t[2] > n
      BY <2>2, <2>3, <3>1
    <3>3. n \in Nat
      BY <1>0, FS_CardinalityType, Zenon DEF Operations
    <3> HIDE DEF n
    <3>4. t \in Claim
      BY <2>1, <2>3, <3>2 DEF Claim, ClaimsOf, n
    <3>5. t # <<p, n>>
      BY <3>2, <3>3, <2>1
    <3> QED BY <3>4, <3>5
  <2>4. CASE t[1] # p
    <3>1. t[1] \in Proc
      BY <2>1 DEF Active
    <3>2. held'[t[1]] = held[t[1]] /\ b \notin held[t[1]]
      BY <1>10, <2>4, <3>1
    <3>3. held[t[1]] \subseteq Entries(lh') <=> held[t[1]] \subseteq Entries(lh)
      BY <1>6, <3>2
    <3>4. t \in Claim
      BY <2>1, <2>2, <3>2, <3>3 DEF Claim, ClaimsOf
    <3>5. t # <<p, n>>
      BY <2>4
    <3> QED BY <3>4, <3>5
  <2> QED BY <2>3, <2>4
<1>12. Reserved'
  <2>1. CASE b \in Entries(lh)
    <3>1. Len(lh') <= Len(lh)
      BY <1>0, <1>6, <2>1 DEF Types
    <3> QED BY <1>0, <1>7, <1>11, <3>1, ReserveSmaller
  <2>2. CASE b \notin Entries(lh)
    <3>1. n \in Nat /\ n >= 1 /\ n <= OpBlocks
      <4>1. IsFiniteSet(wrote[p]) /\ n <= OpBlocks
        BY <1>0 DEF Operations
      <4>2. n \in Nat
        BY <4>1, FS_CardinalityType, Zenon
      <4>3. n # 0
        BY <1>3, <4>1, FS_EmptySet
      <4> HIDE DEF n
      <4> QED BY <4>1, <4>2, <4>3
    <3>2. <<p, n>> \in Claim
      <4>1. n \in 1 .. MAXOPBLOCKS
        <5> HIDE DEF n
        <5> QED BY <3>1, LogAssumption
      <4>2. ~(held[p] \subseteq Entries(lh))
        BY <1>3, <2>2
      <4> QED BY <1>4, <4>1, <4>2 DEF Claim, ClaimsOf
    <3> HIDE DEF n
    <3>3. IsFiniteSet(Claim) /\ Cardinality(Claim) \in Nat
      BY <1>0, ClaimBound, Zenon DEF Claim, Operations
    <3>4. IsFiniteSet(Claim \ {<<p, n>>}) /\ Cardinality(Claim \ {<<p, n>>}) = Cardinality(Claim) - 1
      <4>1. /\ IsFiniteSet(Claim \ {<<p, n>>})
            /\ Cardinality(Claim \ {<<p, n>>}) =
                 IF <<p, n>> \in Claim THEN Cardinality(Claim) - 1 ELSE Cardinality(Claim)
        BY <3>3, FS_RemoveElement, Zenon
      <4> QED BY <3>2, <4>1
    <3>5. IsFiniteSet(Claim') /\ Cardinality(Claim') <= Cardinality(Claim \ {<<p, n>>})
      <4>1. Claim' \in SUBSET (Claim \ {<<p, n>>})
        BY <1>11, <2>2
      <4> QED BY <3>4, <4>1, FS_Subset, Zenon
    <3>6. Cardinality(Claim') \in Nat
      BY <3>5, FS_CardinalityType, Zenon
    <3>7. Len(lh') = Len(lh) + 1 /\ Len(lh) \in Nat
      BY <1>0, <1>6, <2>2 DEF Types
    <3> QED BY <1>0, <3>3, <3>4, <3>5, <3>6, <3>7, LogAssumption DEF Reserved
  <2> QED BY <2>1, <2>2
<1>13. Headers'
  <2>1. \A q \in Proc : wrote'[q] \ held'[q] \subseteq Entries(lh')
    BY <1>0, <1>2, <1>3, <1>6, <1>10 DEF Headers, Types
  <2>2. Distinct(dhead') /\ Len(dhead') <= LOGSIZE
    BY <1>0, <1>2, Zenon DEF Headers, Distinct
  <2> QED BY <1>6, <2>1, <2>2 DEF Headers
<1>14. Running'
  <2>1. dhead = <<>> /\ dirty = Entries(lh)
    BY <1>0, <1>4 DEF Running, Commits
  <2>2. \A q \in Proc : pc'[q] \notin Commits
    BY <1>0, <1>2, <1>4 DEF Types, Commits
  <2>3. ASSUME NEW c \in Block, c \notin dirty', \A q \in Proc : c \notin held'[q]
        PROVE  cache'[c] = home'[c]
    <3>1. c # b /\ c \notin dirty
      BY <1>1, <2>3
    <3>2. \A q \in Proc : c \notin held[q]
      BY <1>3, <1>10, <2>3, <3>1
    <3> QED BY <1>0, <1>2, <3>1, <3>2 DEF Running
  <2>4. dirty' = Entries(lh') /\ outstanding' # 0
    BY <1>0, <1>1, <1>2, <1>4, <1>6, <2>1 DEF Types
  <2> QED BY <1>2, <2>1, <2>2, <2>3, <2>4 DEF Running, Commits
<1> QED BY <1>7, <1>8, <1>9, <1>12, <1>13, <1>14 DEF IInv

-----------------------------------------------------------------------------
\* Nothing is in progress after a step.
LEMMA NoOperations ==
  ASSUME Active' = {}, outstanding' = 0,
         \A q \in Proc : depth'[q] = 0 /\ wrote'[q] = {} /\ held'[q] = {} /\ pc'[q] # "log_write",
         \A q \in Proc : pc'[q] \in Commits => committing',
         \A q, r \in Proc : pc'[q] \in Commits /\ pc'[r] \in Commits => q = r
  PROVE  Operations'
<1>1. IsFiniteSet({}) /\ Cardinality({}) = 0
  BY FS_EmptySet
<1>2. Cardinality({}) <= OpBlocks
  BY <1>1, LogAssumption
<1>3. IsFiniteSet(Active') /\ Cardinality(Active') = outstanding'
  BY <1>1
<1>4. \A q \in Proc : IsFiniteSet(wrote'[q]) /\ Cardinality(wrote'[q]) <= OpBlocks
  BY <1>1, <1>2, Zenon
<1>5. \A q, r \in Proc : q # r => held'[q] \cap held'[r] = {}
  BY Zenon
<1>6. \A q \in Proc : ~(depth'[q] = 1)
  OBVIOUS
<1>7. \A q \in Proc : depth'[q] = 0 => wrote'[q] = {} /\ pc'[q] # "log_write"
  OBVIOUS
<1>8. \A q \in Proc : IF pc'[q] = "log_write" THEN \E b \in wrote'[q] : held'[q] = {b} ELSE held'[q] = {}
  BY Zenon
<1> QED BY <1>3, <1>4, <1>5, <1>6, <1>7, <1>8, Zenon DEF Operations

\* wakeup leaves every process somewhere.
LEMMA WokenType ==
  ASSUME NEW f \in [Proc -> PC]
  PROVE  Woken(f) \in [Proc -> PC]
<1>1. \A q \in Proc : (IF f[q] = "sleep" THEN "woken" ELSE f[q]) \in PC
  BY DEF PC
<1> QED BY <1>1, Zenon DEF Woken

\* end_op keeps the invariant: the claims of the operation go.
LEMMA EndOpKeeps ==
  ASSUME Fits, IInv, NEW p \in Proc, end_op(p)
  PROVE  IInv'
<1>0. /\ NoPanic /\ Types /\ Operations /\ Reserved /\ Headers /\ Running /\ Booting
      /\ boot = "up" /\ pc[p] = "run"
  BY Zenon DEF IInv, end_op, Up
<1>1. depth[p] = 1
  <2>1. depth[p] \in 0 .. 1 /\ depth[p] > 0
    BY <1>0, Zenon DEF end_op, Types, Fits
  <2> QED BY <2>1
<1>2. /\ UNCHANGED <<home, dlog, dhead, cache, dirty, lh, held, boot, ops>>
      /\ outstanding' = outstanding - 1
      /\ depth' = [depth EXCEPT ![p] = 0] /\ wrote' = [wrote EXCEPT ![p] = {}]
  <2>1. UNCHANGED <<home, dlog, dhead, cache, dirty, lh, held, boot, ops>> /\ outstanding' = outstanding - 1
    BY Zenon DEF end_op, disk
  <2>2. depth' = [depth EXCEPT ![p] = depth[p] - 1] /\ wrote' = [wrote EXCEPT ![p] = {}]
    BY <1>1, Zenon DEF end_op, Ended
  <2> QED BY <1>1, <2>1, <2>2
<1>3. /\ ~committing /\ outstanding >= 1 /\ p \in Active
      /\ \A q \in Proc : pc[q] \notin Commits
  BY <1>0, <1>1, NoCommit
<1>4. NoPanic' /\ Booting'
  BY <1>0, <1>2, <1>3, Zenon DEF NoPanic, Booting, end_op
<1>5. Active' = Active \ {p}
  BY <1>0, <1>2 DEF Active, Types
<1>6. IsFiniteSet(Active') /\ Cardinality(Active') = outstanding'
  BY <1>0, <1>2, <1>3, <1>5, FS_RemoveElement, Zenon DEF Operations
<1>7. held[p] = {}
  BY <1>0, Zenon DEF Operations
<1>8. \A q \in Proc : IsFiniteSet(wrote'[q]) /\ Cardinality(wrote'[q]) <= OpBlocks
  BY <1>0, <1>2, FS_EmptySet, LogAssumption DEF Operations, Types
<1>9. Headers'
  <2>1. \A q \in Proc : wrote'[q] \ held'[q] \subseteq Entries(lh)
    BY <1>0, <1>2 DEF Headers, Types
  <2>2. Distinct(lh) /\ Distinct(dhead) /\ Len(dhead) <= LOGSIZE
    BY <1>0 DEF Headers
  <2>3. lh' = lh /\ dhead' = dhead
    BY <1>2
  <2> HIDE <1>2
  <2> QED BY <2>1, <2>2, <2>3 DEF Headers
<1>10. Claim' \subseteq Claim
  <2> SUFFICES ASSUME NEW t \in Claim' PROVE t \in Claim
    OBVIOUS
  <2>1. t \in Active \X (1 .. MAXOPBLOCKS) /\ t[1] # p /\ t[1] \in Proc
    BY <1>5 DEF Claim, ClaimsOf, Active
  <2>2. wrote'[t[1]] = wrote[t[1]] /\ held'[t[1]] = held[t[1]]
    BY <1>0, <1>2, <2>1 DEF Types
  <2> QED BY <1>2, <2>1, <2>2 DEF Claim, ClaimsOf, Entries
<1>11. dhead = <<>> /\ dirty = Entries(lh)
  BY <1>0, <1>3 DEF Running, Commits
<1>12. \A c \in Block : c \notin dirty' /\ (\A q \in Proc : c \notin held'[q]) => cache'[c] = home'[c]
  BY <1>0, <1>2 DEF Running
<1>13. ASSUME Types' PROVE Reserved'
  <2>1. Len(lh') <= Len(lh)
    BY <1>0, <1>2 DEF Types
  <2> QED BY <1>0, <1>10, <1>13, <2>1, ReserveSmaller
<1>14. CASE outstanding = 1
  <2> DEFINE c == IF lh = <<>> THEN "done" ELSE "write_log"
  <2>1. committing' = TRUE /\ tail' = 0 /\ pc' = [pc EXCEPT ![p] = c]
    BY <1>14, Zenon DEF end_op
  <2>2. c \in {"done", "write_log"} /\ (c = "done" => lh = <<>>) /\ (c = "write_log" => Len(lh) > 0)
    BY <1>0 DEF Types
  <2> HIDE DEF c
  <2>3. Types'
    BY <1>0, <1>2, <1>14, <2>1, <2>2 DEF Types, PC
  <2>4. Operations'
    <3>1. Active' = {} /\ outstanding' = 0
      BY <1>2, <1>6, <1>14, FS_EmptySet
    <3>2. \A q \in Proc : depth'[q] = 0
      BY <2>3, <3>1 DEF Active, Types
    <3>3. \A q \in Proc : wrote'[q] = {} /\ pc'[q] # "log_write" /\ held'[q] = {}
      <4> SUFFICES ASSUME NEW q \in Proc PROVE wrote'[q] = {} /\ pc'[q] # "log_write" /\ held'[q] = {}
        OBVIOUS
      <4>1. CASE q = p
        BY <1>0, <1>2, <1>7, <2>1, <2>2, <4>1 DEF Types
      <4>2. CASE q # p
        <5>1. depth[q] = 0 /\ pc'[q] = pc[q] /\ wrote'[q] = wrote[q] /\ held'[q] = held[q]
          BY <1>0, <1>2, <2>1, <3>2, <4>2 DEF Types
        <5> QED BY <1>0, <5>1 DEF Operations
      <4> QED BY <4>1, <4>2
    <3>4. \A q \in Proc : pc'[q] \in Commits => q = p
      BY <1>0, <1>3, <2>1 DEF Types
    <3> QED BY <2>1, <3>1, <3>2, <3>3, <3>4, NoOperations, Zenon
  <2>5. Running'
    <3>1. \A q \in Proc : q # p => pc'[q] \notin Commits
      BY <1>0, <1>3, <2>1 DEF Types
    <3>2. pc'[p] = c
      BY <1>0, <2>1 DEF Types
    <3>3. \A q \in Proc : pc'[q] \notin {"install_trans", "clear", "write_head"}
      BY <2>2, <3>1, <3>2 DEF Commits
    <3>4. \A q \in Proc : pc'[q] = "write_log" =>
            tail' < Len(lh') /\ \A i \in 1 .. tail' : dlog'[i] = cache'[lh'[i]]
      BY <1>2, <2>1, <2>2, <3>1, <3>2 DEF Commits
    <3>5. \A q \in Proc : pc'[q] = "done" => lh' = <<>>
      BY <1>2, <2>2, <3>1, <3>2 DEF Commits
    <3>6. dhead' = <<>> /\ dirty' = Entries(lh')
      BY <1>2, <1>11 DEF Entries
    <3> QED BY <1>12, <2>1, <3>3, <3>4, <3>5, <3>6 DEF Running
  <2> QED BY <1>4, <1>9, <1>13, <2>3, <2>4, <2>5 DEF IInv
<1>15. CASE outstanding # 1
  <2>1. pc' = Woken(pc) /\ UNCHANGED <<committing, tail>>
    BY <1>15, Zenon DEF end_op
  <2>2. \A q \in Proc : pc'[q] = IF pc[q] = "sleep" THEN "woken" ELSE pc[q]
    BY <2>1 DEF Woken
  <2>3. pc' \in [Proc -> PC]
    BY <1>0, <2>1, WokenType DEF Types
  <2>4. Types'
    <3>1. outstanding' \in Nat
      BY <1>0, <1>2, <1>3 DEF Types
    <3>2. depth' \in [Proc -> 0 .. 1] /\ wrote' \in [Proc -> SUBSET Block]
      BY <1>0, <1>2 DEF Types
    <3> QED BY <1>0, <1>2, <2>1, <2>3, <3>1, <3>2 DEF Types
  <2>5. \A q \in Proc : pc'[q] \notin Commits /\ (pc'[q] = "log_write" <=> pc[q] = "log_write")
    BY <1>3, <2>2 DEF Commits
  <2>6. Operations'
    <3>1. \A q \in Proc : depth'[q] = 0 => wrote'[q] = {} /\ pc'[q] # "log_write"
      <4> SUFFICES ASSUME NEW q \in Proc, depth'[q] = 0 PROVE wrote'[q] = {} /\ pc'[q] # "log_write"
        OBVIOUS
      <4>1. CASE q = p
        BY <1>0, <1>2, <2>5, <4>1 DEF Types
      <4>2. CASE q # p
        BY <1>0, <1>2, <2>5, <4>2 DEF Types, Operations
      <4> QED BY <4>1, <4>2
    <3>2. \A q \in Proc : depth'[q] = 1 => pc'[q] \in {"run", "log_write"}
      BY <1>0, <1>2, <2>2 DEF Types, Operations
    <3>3. ASSUME NEW q \in Proc
          PROVE  IF pc'[q] = "log_write" THEN \E c \in wrote'[q] : held'[q] = {c} ELSE held'[q] = {}
      <4>1. CASE q = p
        BY <1>0, <1>2, <1>7, <2>5, <4>1 DEF Types
      <4>2. CASE q # p
        <5>1. wrote'[q] = wrote[q] /\ held'[q] = held[q]
          BY <1>0, <1>2, <4>2 DEF Types
        <5> QED BY <1>0, <2>5, <5>1 DEF Operations
      <4> QED BY <4>1, <4>2
    <3>4. \A q, r \in Proc : q # r => held'[q] \cap held'[r] = {}
      BY <1>0, <1>2 DEF Operations
    <3> QED BY <1>3, <1>6, <1>8, <2>1, <2>5, <3>1, <3>2, <3>3, <3>4 DEF Operations
  <2>7. Running'
    <3>1. dhead' = <<>> /\ dirty' = Entries(lh') /\ outstanding' # 0
      BY <1>0, <1>2, <1>11, <1>15 DEF Entries, Types
    <3> QED BY <1>12, <2>5, <3>1 DEF Running, Commits
  <2> QED BY <1>4, <1>9, <1>13, <2>4, <2>6, <2>7 DEF IInv
<1> QED BY <1>14, <1>15

\* The header never has more entries than the log.
LEMMA HeaderFits ==
  ASSUME Fits, Types, Operations, Reserved
  PROVE  Len(lh) \in Nat /\ Len(lh) <= LOGSIZE
<1>1. Cardinality(Claim) \in Nat
  BY ClaimBound, Zenon DEF Claim, Operations
<1> QED BY <1>1, LogAssumption DEF Reserved, Types

\* A step of a commit touches no operation.
LEMMA CommitStep ==
  ASSUME Types, Operations, NEW p \in Proc, pc[p] \in Commits, NEW c \in Commits,
         pc' = [pc EXCEPT ![p] = c], UNCHANGED <<outstanding, committing, depth, wrote, held>>
  PROVE  /\ Operations' /\ Active' = {} /\ pc' \in [Proc -> PC] /\ pc'[p] = c
         /\ \A q \in Proc : q # p => pc'[q] \notin Commits
         /\ \A q \in Proc : wrote'[q] = {} /\ held'[q] = {}
<1>1. /\ committing /\ outstanding = 0 /\ Active = {}
      /\ \A q \in Proc : depth[q] = 0 /\ wrote[q] = {} /\ held[q] = {}
      /\ \A q \in Proc : q # p => pc[q] \in {"run", "sleep", "woken"}
  BY CommitAlone
<1>2. /\ pc' \in [Proc -> PC] /\ pc'[p] = c
      /\ \A q \in Proc : q # p => pc'[q] \in {"run", "sleep", "woken"}
  BY <1>1 DEF Types, PC, Commits
<1>3. Active' = {} /\ \A q \in Proc : wrote'[q] = {} /\ held'[q] = {}
  BY <1>1 DEF Active
<1>4. \A q \in Proc : q # p => pc'[q] \notin Commits
  BY <1>2 DEF Commits
<1>5. \A q \in Proc : pc'[q] # "log_write"
  BY <1>2 DEF Commits
<1>6. Operations'
  <2>1. \A q \in Proc : depth'[q] = 0
    BY <1>1
  <2>2. outstanding' = 0 /\ committing'
    BY <1>1
  <2> QED BY <1>3, <1>4, <1>5, <2>1, <2>2, NoOperations, Zenon
<1> QED BY <1>2, <1>3, <1>4, <1>6

\* write_log keeps the invariant.
LEMMA WriteLogKeeps ==
  ASSUME Fits, IInv, NEW p \in Proc, write_log(p)
  PROVE  IInv'
<1>0. /\ NoPanic /\ Types /\ Operations /\ Reserved /\ Headers /\ Running /\ Booting
      /\ boot = "up" /\ pc[p] = "write_log"
  BY Zenon DEF IInv, write_log, Up
<1>1. /\ dlog' = [dlog EXCEPT ![tail + 1] = cache[lh[tail + 1]]]
      /\ UNCHANGED <<home, dhead, cache, dirty, lh, outstanding, committing, depth, wrote, held, boot, ops, panic>>
  BY DEF write_log
<1> DEFINE last == tail + 1 = Len(lh)
           c == IF last THEN "write_head" ELSE "write_log"
<1>2. pc' = [pc EXCEPT ![p] = c] /\ tail' = IF last THEN 0 ELSE tail + 1
  BY <1>0 DEF write_log, Types
<1>3. tail \in Nat /\ Len(lh) \in Nat /\ Len(lh) <= LOGSIZE /\ tail < Len(lh) /\ LOGSIZE \in Nat
  BY <1>0, HeaderFits, LogAssumption DEF Types, Running
<1>4. c \in Commits /\ pc[p] \in Commits
  BY <1>0 DEF Commits
<1> HIDE DEF c
<1>5. /\ Operations' /\ Active' = {} /\ pc' \in [Proc -> PC] /\ pc'[p] = c
      /\ \A q \in Proc : q # p => pc'[q] \notin Commits
      /\ \A q \in Proc : wrote'[q] = {} /\ held'[q] = {}
  BY <1>0, <1>1, <1>2, <1>4, CommitStep, Zenon
<1>6. Types'
  <2>1. tail' \in Nat
    BY <1>2, <1>3
  <2>2. lh[tail + 1] \in Block
    BY <1>0, <1>3 DEF Types
  <2>3. dlog' \in [1 .. LOGSIZE -> Data]
    BY <1>0, <1>1, <1>3, <2>2 DEF Types
  <2> QED BY <1>0, <1>1, <1>5, <2>1, <2>3 DEF Types
<1>7. NoPanic' /\ Booting' /\ Headers'
  BY <1>0, <1>1, <1>5, Zenon DEF NoPanic, Booting, Headers, Distinct, Entries
<1>8. Reserved'
  BY <1>1, <1>3, <1>5, <1>6, NoClaims
<1>9. \A i \in 1 .. tail + 1 : dlog'[i] = cache[lh[i]]
  <2> SUFFICES ASSUME NEW i \in 1 .. tail + 1 PROVE dlog'[i] = cache[lh[i]]
    OBVIOUS
  <2>1. i \in 1 .. LOGSIZE /\ tail + 1 \in 1 .. LOGSIZE
    BY <1>3
  <2>2. CASE i = tail + 1
    BY <1>0, <1>1, <2>1, <2>2 DEF Types
  <2>3. CASE i # tail + 1
    <3>1. i \in 1 .. tail
      BY <1>3, <2>3
    <3>2. dlog'[i] = dlog[i]
      BY <1>0, <1>1, <2>1, <2>3 DEF Types
    <3> QED BY <1>0, <3>1, <3>2 DEF Running
  <2> QED BY <2>2, <2>3
<1>10. dhead = <<>> /\ dirty = Entries(lh)
  <2>1. \A q \in Proc : pc[q] \notin {"install_trans", "clear"}
    BY <1>0, <1>4, CommitAlone
  <2> QED BY <1>0, <2>1 DEF Running
<1>11. Running'
  <2>1. \A b \in Block : b \notin dirty' /\ (\A q \in Proc : b \notin held'[q]) => cache'[b] = home'[b]
    BY <1>0, <1>1 DEF Running
  <2>2. \A q \in Proc : pc'[q] \notin {"install_trans", "clear", "done"}
    BY <1>5 DEF c, Commits
  <2>3. dhead' = <<>> /\ dirty' = Entries(lh') /\ committing'
    BY <1>0, <1>1, <1>4, <1>10, CommitAlone, Zenon DEF Entries
  <2>4. ASSUME NEW q \in Proc, pc'[q] = "write_log"
        PROVE  tail' < Len(lh') /\ \A i \in 1 .. tail' : dlog'[i] = cache'[lh'[i]]
    <3>1. q = p
      BY <1>5, <2>4 DEF Commits
    <3>2. ~last
      BY <1>5, <2>4, <3>1 DEF c
    <3>3. tail' = tail + 1 /\ tail + 1 < Len(lh)
      BY <1>2, <1>3, <3>2
    <3> QED BY <1>1, <1>9, <3>3
  <2>5. ASSUME NEW q \in Proc, pc'[q] = "write_head"
        PROVE  tail' = 0 /\ Len(lh') > 0 /\ InLog'
    <3>1. q = p
      BY <1>5, <2>5 DEF Commits
    <3>2. last
      BY <1>5, <2>5, <3>1 DEF c
    <3>3. tail' = 0 /\ tail + 1 = Len(lh)
      BY <1>2, <3>2
    <3> QED BY <1>1, <1>3, <1>9, <3>3 DEF InLog
  <2> QED BY <2>1, <2>2, <2>3, <2>4, <2>5 DEF Running
<1> QED BY <1>5, <1>6, <1>7, <1>8, <1>11 DEF IInv

\* write_head, the commit point, keeps the invariant.
LEMMA WriteHeadKeeps ==
  ASSUME Fits, IInv, NEW p \in Proc, write_head(p)
  PROVE  IInv'
<1>0. /\ NoPanic /\ Types /\ Operations /\ Reserved /\ Headers /\ Running /\ Booting
      /\ boot = "up" /\ pc[p] = "write_head" /\ pc[p] \in Commits
  BY Zenon DEF IInv, write_head, Up, Commits
<1>1. /\ dhead' = lh /\ pc' = [pc EXCEPT ![p] = "install_trans"]
      /\ UNCHANGED <<home, dlog, cache, dirty, lh, outstanding, committing, depth, wrote, held, tail, boot, ops, panic>>
  BY DEF write_head
<1>2. "install_trans" \in Commits
  BY DEF Commits
<1>3. /\ Operations' /\ Active' = {} /\ pc' \in [Proc -> PC] /\ pc'[p] = "install_trans"
      /\ \A q \in Proc : q # p => pc'[q] \notin Commits
      /\ \A q \in Proc : wrote'[q] = {} /\ held'[q] = {}
  BY <1>0, <1>1, <1>2, CommitStep, Zenon
<1>4. Types'
  BY <1>0, <1>1, <1>3 DEF Types
<1>5. Len(lh) <= LOGSIZE
  BY <1>0, HeaderFits
<1>6. NoPanic' /\ Booting' /\ Headers'
  BY <1>0, <1>1, <1>3, <1>5, Zenon DEF NoPanic, Booting, Headers, Distinct, Entries
<1>7. Reserved'
  BY <1>1, <1>3, <1>4, <1>5, NoClaims, Zenon
<1>8. Running'
  <2>1. \A b \in Block : b \notin dirty' /\ (\A q \in Proc : b \notin held'[q]) => cache'[b] = home'[b]
    BY <1>0, <1>1, Zenon DEF Running
  <2>2. \A q \in Proc : pc'[q] \notin {"write_log", "write_head", "clear", "done"}
    BY <1>3 DEF Commits
  <2>3. committing' /\ tail' = 0 /\ Len(lh') > 0 /\ InLog'
    BY <1>0, <1>1, CommitAlone DEF Running, InLog
  <2>4. dirty' = {lh'[i] : i \in tail' + 1 .. Len(lh')}
    <3>1. \A q \in Proc : pc[q] \notin {"install_trans", "clear"}
      BY <1>0, CommitAlone
    <3>2. dirty = {lh[i] : i \in 1 .. Len(lh)}
      BY <1>0, <3>1 DEF Running, Entries
    <3>3. tail' + 1 = 1
      BY <2>3
    <3> QED BY <1>1, <3>2, <3>3
  <2> QED BY <1>1, <1>3, <2>1, <2>2, <2>3, <2>4 DEF Running
<1> QED BY <1>3, <1>4, <1>6, <1>7, <1>8 DEF IInv

\* install_trans keeps the invariant.
LEMMA InstallKeeps ==
  ASSUME Fits, IInv, NEW p \in Proc, install_trans(p)
  PROVE  IInv' /\ cache' = cache
<1> DEFINE b == lh[tail + 1]
           last == tail + 1 = Len(lh)
           c == IF last THEN "clear" ELSE "install_trans"
<1>0. /\ NoPanic /\ Types /\ Operations /\ Reserved /\ Headers /\ Running /\ Booting
      /\ boot = "up" /\ pc[p] = "install_trans" /\ pc[p] \in Commits
  BY Zenon DEF IInv, install_trans, Up, Commits
<1>1. /\ home' = [home EXCEPT ![b] = dlog[tail + 1]]
      /\ cache' = [cache EXCEPT ![b] = dlog[tail + 1]]
      /\ dirty' = dirty \ {b}
      /\ UNCHANGED <<dlog, dhead, lh, outstanding, committing, depth, wrote, held, boot, ops, panic>>
  BY DEF install_trans, InstallOne
<1>2. pc' = [pc EXCEPT ![p] = c] /\ tail' = IF last THEN 0 ELSE tail + 1
  BY <1>0 DEF install_trans, Types
<1>3. /\ tail \in Nat /\ Len(lh) \in Nat /\ Len(lh) <= LOGSIZE /\ tail < Len(lh) /\ LOGSIZE \in Nat
      /\ dhead = lh /\ InLog /\ dirty = {lh[i] : i \in tail + 1 .. Len(lh)}
  BY <1>0, HeaderFits, LogAssumption DEF Types, Running
<1>4. /\ tail + 1 \in 1 .. Len(lh) /\ b \in Block /\ dlog[tail + 1] \in Data /\ dlog[tail + 1] = cache[b]
  <2>1. tail + 1 \in 1 .. Len(lh) /\ tail + 1 \in 1 .. LOGSIZE
    BY <1>3
  <2> QED BY <1>0, <1>3, <2>1 DEF Types, InLog
<1>5. c \in Commits
  BY DEF Commits
<1> HIDE DEF c, b
<1>6. /\ Operations' /\ Active' = {} /\ pc' \in [Proc -> PC] /\ pc'[p] = c
      /\ \A q \in Proc : q # p => pc'[q] \notin Commits
      /\ \A q \in Proc : wrote'[q] = {} /\ held'[q] = {}
  BY <1>0, <1>1, <1>2, <1>5, CommitStep, Zenon
<1>7. Types'
  <2>1. tail' \in Nat
    BY <1>2, <1>3
  <2>2. home' \in [Block -> Data] /\ cache' \in [Block -> Data] /\ dirty' \in SUBSET Block
    BY <1>0, <1>1, <1>4 DEF Types
  <2> QED BY <1>0, <1>1, <1>6, <2>1, <2>2 DEF Types
<1>8. NoPanic' /\ Booting' /\ Headers'
  BY <1>0, <1>1, <1>6, Zenon DEF NoPanic, Booting, Headers, Distinct, Entries
<1>9. Reserved'
  BY <1>1, <1>3, <1>6, <1>7, NoClaims
<1>10. cache' = cache
  BY <1>0, <1>1, <1>4 DEF Types
<1>11. dirty' = {lh[i] : i \in tail + 2 .. Len(lh)}
  <2>1. \A i \in 1 .. Len(lh) : lh[i] = b => i = tail + 1
    BY <1>0, <1>4, Zenon DEF Headers, Distinct, b
  <2>2. \A x \in dirty' : \E i \in tail + 2 .. Len(lh) : x = lh[i]
    <3> SUFFICES ASSUME NEW x \in dirty' PROVE \E i \in tail + 2 .. Len(lh) : x = lh[i]
      OBVIOUS
    <3>1. PICK i \in tail + 1 .. Len(lh) : x = lh[i]
      BY <1>1, <1>3
    <3>2. i # tail + 1
      BY <1>1, <3>1 DEF b
    <3>3. i \in tail + 2 .. Len(lh)
      BY <1>3, <3>2
    <3> QED BY <3>1, <3>3
  <2>3. \A i \in tail + 2 .. Len(lh) : lh[i] \in dirty'
    <3> SUFFICES ASSUME NEW i \in tail + 2 .. Len(lh) PROVE lh[i] \in dirty'
      OBVIOUS
    <3>1. i \in tail + 1 .. Len(lh) /\ i \in 1 .. Len(lh) /\ i # tail + 1
      BY <1>3
    <3> QED BY <1>1, <1>3, <2>1, <3>1
  <2> QED BY <2>2, <2>3
<1>12. Running'
  <2>1. ASSUME NEW x \in Block, x \notin dirty', \A q \in Proc : x \notin held'[q]
        PROVE  cache'[x] = home'[x]
    <3>1. CASE x = b
      BY <1>0, <1>1, <1>4, <1>10, <3>1 DEF Types
    <3>2. CASE x # b
      BY <1>0, <1>1, <1>10, <2>1, <3>2 DEF Running, Types
    <3> QED BY <3>1, <3>2
  <2>2. \A q \in Proc : pc'[q] \notin {"write_log", "write_head", "done"}
    BY <1>6 DEF c, Commits
  <2>3. dhead' = lh' /\ committing' /\ InLog'
    BY <1>0, <1>1, <1>3, <1>10, CommitAlone, Zenon DEF InLog
  <2>4. ASSUME NEW q \in Proc, pc'[q] = "install_trans"
        PROVE  tail' < Len(lh') /\ dirty' = {lh'[i] : i \in tail' + 1 .. Len(lh')}
    <3>1. q = p
      BY <1>6, <2>4 DEF Commits
    <3>2. ~last
      BY <1>6, <2>4, <3>1 DEF c
    <3>3. tail' = tail + 1 /\ tail + 1 < Len(lh) /\ tail' + 1 = tail + 2
      BY <1>2, <1>3, <3>2
    <3> QED BY <1>1, <1>11, <3>3
  <2>5. ASSUME NEW q \in Proc, pc'[q] = "clear"
        PROVE  dirty' = {}
    <3>1. q = p
      BY <1>6, <2>5 DEF Commits
    <3>2. last
      BY <1>6, <2>5, <3>1 DEF c
    <3>3. (tail + 2 .. Len(lh)) = {}
      BY <1>3, <3>2
    <3> QED BY <1>11, <3>3
  <2>6. \E q \in Proc : pc'[q] \in {"install_trans", "clear"}
    BY <1>6 DEF c
  <2> QED BY <2>1, <2>2, <2>3, <2>4, <2>5, <2>6 DEF Running
<1> QED BY <1>6, <1>7, <1>8, <1>9, <1>10, <1>12 DEF IInv

\* Clearing the header on disk keeps the invariant.
LEMMA ClearKeeps ==
  ASSUME Fits, IInv, NEW p \in Proc, clear(p)
  PROVE  IInv'
<1>0. /\ NoPanic /\ Types /\ Operations /\ Reserved /\ Headers /\ Running /\ Booting
      /\ boot = "up" /\ pc[p] = "clear" /\ pc[p] \in Commits
  BY Zenon DEF IInv, clear, Up, Commits
<1>1. /\ lh' = <<>> /\ dhead' = <<>> /\ pc' = [pc EXCEPT ![p] = "done"]
      /\ UNCHANGED <<home, dlog, cache, dirty, outstanding, committing, depth, wrote, held, tail, boot, ops, panic>>
  BY DEF clear
<1>2. "done" \in Commits
  BY DEF Commits
<1>3. /\ Operations' /\ Active' = {} /\ pc' \in [Proc -> PC] /\ pc'[p] = "done"
      /\ \A q \in Proc : q # p => pc'[q] \notin Commits
      /\ \A q \in Proc : wrote'[q] = {} /\ held'[q] = {}
  BY <1>0, <1>1, <1>2, CommitStep, Zenon
<1>4. Types'
  BY <1>0, <1>1, <1>3 DEF Types
<1>5. /\ Len(<<>>) <= LOGSIZE /\ Distinct(<<>>) /\ Entries(<<>>) = {}
  BY EmptyHeader, LogAssumption
<1>6. NoPanic' /\ Booting' /\ Headers'
  <2>1. Distinct(lh') /\ Distinct(dhead') /\ Len(dhead') <= LOGSIZE
    BY <1>1, <1>5
  <2> QED BY <1>0, <1>1, <1>3, <2>1, Zenon DEF NoPanic, Booting, Headers
<1>7. Reserved'
  BY <1>1, <1>3, <1>4, <1>5, NoClaims, Zenon
<1>8. Running'
  <2>1. \A b \in Block : b \notin dirty' /\ (\A q \in Proc : b \notin held'[q]) => cache'[b] = home'[b]
    BY <1>0, <1>1 DEF Running
  <2>2. \A q \in Proc : pc'[q] \notin {"write_log", "write_head", "install_trans", "clear"}
    BY <1>3 DEF Commits
  <2>3. dirty = {}
    BY <1>0 DEF Running
  <2>4. dhead' = <<>> /\ lh' = <<>> /\ dirty' = Entries(lh')
    BY <1>1, <1>5, <2>3
  <2> QED BY <2>1, <2>2, <2>4 DEF Running
<1> QED BY <1>3, <1>4, <1>6, <1>7, <1>8 DEF IInv

\* The end of a commit keeps the invariant.
LEMMA DoneKeeps ==
  ASSUME Fits, IInv, NEW p \in Proc, done(p)
  PROVE  IInv'
<1>0. /\ NoPanic /\ Types /\ Operations /\ Reserved /\ Headers /\ Running /\ Booting
      /\ boot = "up" /\ pc[p] = "done" /\ pc[p] \in Commits
  BY Zenon DEF IInv, done, Up, Commits
<1>1. /\ committing' = FALSE /\ pc' = [Woken(pc) EXCEPT ![p] = "run"]
      /\ UNCHANGED <<home, dlog, dhead, cache, dirty, lh, outstanding, depth, wrote, held, tail, boot, ops, panic>>
  BY DEF done, disk
<1>2. /\ outstanding = 0 /\ Active = {}
      /\ \A q \in Proc : depth[q] = 0 /\ wrote[q] = {} /\ held[q] = {}
      /\ \A q \in Proc : q # p => pc[q] \in {"run", "sleep", "woken"}
  BY <1>0, CommitAlone
<1>3. pc' \in [Proc -> PC]
  <2>1. Woken(pc) \in [Proc -> PC] /\ "run" \in PC
    BY <1>0, WokenType DEF Types, PC
  <2> QED BY <1>1, <2>1
<1>4. \A q \in Proc : pc'[q] \in {"run", "woken"}
  BY <1>1, <1>2 DEF Woken
<1>5. Types'
  BY <1>0, <1>1, <1>3, Zenon DEF Types
<1>6. Operations'
  <2>1. \A q \in Proc : pc'[q] \notin Commits /\ pc'[q] # "log_write"
    BY <1>4 DEF Commits
  <2>2. \A q \in Proc : depth'[q] = 0 /\ wrote'[q] = {} /\ held'[q] = {}
    BY <1>1, <1>2
  <2>3. Active' = {} /\ outstanding' = 0
    BY <1>1, <1>2 DEF Active
  <2> QED BY <2>1, <2>2, <2>3, NoOperations, Zenon
<1>7. lh = <<>> /\ dhead = <<>> /\ dirty = Entries(lh)
  <2>1. \A q \in Proc : pc[q] \notin {"install_trans", "clear"}
    BY <1>0, <1>2
  <2> QED BY <1>0, <2>1 DEF Running
<1>8. NoPanic' /\ Booting' /\ Headers'
  <2>1. NoPanic' /\ Booting'
    BY <1>0, <1>1, Zenon DEF NoPanic, Booting
  <2>2. Headers'
    BY <1>0, <1>1 DEF Headers, Distinct, Entries
  <2> QED BY <2>1, <2>2
<1>9. Reserved'
  <2>1. Active' = {} /\ Len(lh') <= LOGSIZE
    BY <1>0, <1>1, <1>2, HeaderFits, Zenon DEF Active
  <2> QED BY <1>5, <2>1, NoClaims
<1>10. Running'
  <2>1. \A b \in Block : b \notin dirty' /\ (\A q \in Proc : b \notin held'[q]) => cache'[b] = home'[b]
    BY <1>0, <1>1 DEF Running
  <2>2. \A q \in Proc : pc'[q] \notin Commits
    BY <1>4 DEF Commits
  <2>3. lh' = <<>> /\ dhead' = <<>> /\ dirty' = Entries(lh')
    BY <1>1, <1>7 DEF Entries
  <2> QED BY <2>1, <2>2, <2>3 DEF Running, Commits
<1> QED BY <1>5, <1>6, <1>8, <1>9, <1>10 DEF IInv

-----------------------------------------------------------------------------

\* The invariant does not depend on anything but the variables.
LEMMA StutterKeeps ==
  ASSUME IInv, UNCHANGED vars
  PROVE  IInv'
<1>1. UNCHANGED <<home, dlog, dhead, cache, dirty, lh, outstanding, committing, pc, depth, wrote, held, tail, boot, ops, panic>>
  BY DEF vars, disk, memory
<1>2. NoPanic' /\ Types'
  BY <1>1, Zenon DEF IInv, NoPanic, Types
<1>3. Operations'
  BY <1>1, Zenon DEF IInv, Operations, Active
<1>4. Reserved' /\ Headers'
  BY <1>1 DEF IInv, Reserved, Claim, ClaimsOf, Active, Entries, Headers, Distinct
<1>5. Running'
  BY <1>1 DEF IInv, Running, InLog, Entries
<1>6. Booting'
  BY <1>1, Zenon DEF IInv, Booting, InLog, Entries
<1> QED BY <1>2, <1>3, <1>4, <1>5, <1>6 DEF IInv

\* A clean buffer that nobody holds equals its block, so recycling it changes nothing.
LEMMA RecycleKeeps ==
  ASSUME Fits, IInv, NEW b \in Block, Recycle(b)
  PROVE  IInv' /\ cache' = cache
<1>0. /\ NoPanic /\ Types /\ Operations /\ Reserved /\ Headers /\ Running /\ Booting
      /\ boot = "up" /\ b \notin dirty /\ \A q \in Proc : b \notin held[q]
  BY Zenon DEF IInv, Recycle, Up
<1>1. UNCHANGED <<home, dlog, dhead, dirty, lh, outstanding, committing, pc, depth, wrote, held, tail, boot, ops, panic>>
  BY DEF Recycle, disk
<1>2. cache' = cache
  <2>1. cache[b] = home[b]
    BY <1>0 DEF Running
  <2> QED BY <1>0, <2>1 DEF Recycle, Types
<1>3. UNCHANGED vars
  BY <1>1, <1>2 DEF vars, disk, memory
<1> QED BY <1>2, <1>3, StutterKeeps

\* A crash keeps the invariant: memory is lost, the disk is not.
LEMMA CrashKeeps ==
  ASSUME Fits, IInv, Crash
  PROVE  IInv'
<1>0. NoPanic /\ Types /\ Headers
  BY DEF IInv
<1>1. /\ boot' = "read_head" /\ cache' = home /\ dirty' = {} /\ lh' = <<>> /\ outstanding' = 0
      /\ committing' = FALSE /\ pc' = [q \in Proc |-> "run"] /\ depth' = [q \in Proc |-> 0]
      /\ wrote' = [q \in Proc |-> {}] /\ held' = [q \in Proc |-> {}] /\ tail' = 0 /\ ops' = 0
      /\ UNCHANGED <<home, dlog, dhead, panic>>
  BY Zenon DEF Crash, disk
<1>2. Types'
  <2>1. /\ pc' \in [Proc -> PC] /\ depth' \in [Proc -> 0 .. 1]
        /\ wrote' \in [Proc -> SUBSET Block] /\ held' \in [Proc -> SUBSET Block]
    BY <1>1 DEF PC
  <2> QED BY <1>0, <1>1, <2>1, EmptyHeader, Zenon DEF Types
<1>3. Active' = {}
  BY <1>1 DEF Active
<1>4. Operations'
  <2>1. \A q \in Proc : depth'[q] = 0 /\ wrote'[q] = {} /\ held'[q] = {} /\ pc'[q] = "run"
    BY <1>1
  <2>2. \A q \in Proc : pc'[q] \notin Commits /\ pc'[q] # "log_write"
    BY <2>1 DEF Commits
  <2> QED BY <1>1, <1>3, <2>1, <2>2, NoOperations, Zenon
<1>5. Reserved'
  <2>1. Len(lh') <= LOGSIZE
    BY <1>1, EmptyHeader, LogAssumption
  <2> QED BY <1>2, <1>3, <2>1, NoClaims
<1>6. Headers'
  <2>1. Distinct(lh') /\ \A q \in Proc : wrote'[q] = {}
    BY <1>1, EmptyHeader
  <2> QED BY <1>0, <1>1, <2>1 DEF Headers, Distinct
<1>7. NoPanic' /\ Running' /\ Booting'
  BY <1>0, <1>1, Zenon DEF NoPanic, Running, Booting
<1> QED BY <1>2, <1>4, <1>5, <1>6, <1>7 DEF IInv

\* No operation is in progress while the machine boots.
LEMMA BootAlone ==
  ASSUME Types, Operations, Booting, boot # "up"
  PROVE  Active = {} /\ \A q \in Proc : depth[q] = 0 /\ wrote[q] = {} /\ held[q] = {} /\ pc[q] = "run"
<1>1. outstanding = 0 /\ \A q \in Proc : pc[q] = "run"
  BY DEF Booting
<1>2. Active = {}
  BY <1>1, FS_EmptySet DEF Operations
<1>3. \A q \in Proc : depth[q] = 0
  BY <1>2 DEF Active, Types
<1> QED BY <1>1, <1>2, <1>3, Zenon DEF Operations

\* Reading the header at boot keeps the invariant.
LEMMA ReadHeadKeeps ==
  ASSUME Fits, IInv, read_head
  PROVE  IInv'
<1>0. /\ NoPanic /\ Types /\ Operations /\ Reserved /\ Headers /\ Running /\ Booting
      /\ boot = "read_head"
  BY Zenon DEF IInv, read_head
<1>1. /\ lh' = dhead /\ boot' = "install_trans"
      /\ UNCHANGED <<home, dlog, dhead, cache, dirty, outstanding, committing, pc, depth, wrote, held, tail, ops, panic>>
  BY Zenon DEF read_head, disk
<1>2. Active = {} /\ \A q \in Proc : wrote[q] = {}
  BY <1>0, BootAlone, Zenon
<1>3. Types'
  BY <1>0, <1>1 DEF Types
<1>4. Operations'
  BY <1>0, <1>1, Zenon DEF Operations, Active
<1>5. Headers'
  BY <1>0, <1>1, <1>2 DEF Headers, Distinct
<1>6. Reserved'
  <2>1. Active' = {} /\ Len(lh') <= LOGSIZE
    BY <1>0, <1>1, <1>2 DEF Active, Headers
  <2> QED BY <1>3, <2>1, NoClaims
<1>7. NoPanic' /\ Running'
  BY <1>0, <1>1, Zenon DEF NoPanic, Running
<1>8. Booting'
  <2>1. tail = 0
    BY <1>0 DEF Booting
  <2>2. tail' <= Len(lh') /\ \A i \in 1 .. tail' : home'[lh'[i]] = dlog'[i]
    BY <1>1, <1>3, <2>1 DEF Types
  <2> QED BY <1>0, <1>1, <2>2, Zenon DEF Booting
<1> QED BY <1>3, <1>4, <1>5, <1>6, <1>7, <1>8 DEF IInv

\* recover_from_log keeps the invariant.
LEMMA RecoverKeeps ==
  ASSUME Fits, IInv, recover_from_log
  PROVE  IInv'
<1> DEFINE b == lh[tail + 1]
<1>0. /\ NoPanic /\ Types /\ Operations /\ Reserved /\ Headers /\ Running /\ Booting
      /\ boot = "install_trans"
  BY Zenon DEF IInv, recover_from_log
<1>1. UNCHANGED <<dlog, outstanding, committing, pc, depth, wrote, held, ops, panic>>
  BY Zenon DEF recover_from_log
<1>2. /\ Active = {} /\ Active' = {}
      /\ \A q \in Proc : wrote[q] = {} /\ held[q] = {} /\ pc[q] = "run"
  <2>1. Active' = Active
    BY <1>1 DEF Active
  <2> QED BY <1>0, <2>1, BootAlone
<1>3. Operations' /\ NoPanic'
  BY <1>0, <1>1, Zenon DEF Operations, Active, NoPanic
<1>4. /\ cache = home /\ dirty = {} /\ lh = dhead /\ tail \in Nat /\ tail <= Len(lh)
      /\ \A i \in 1 .. tail : home[lh[i]] = dlog[i]
      /\ Len(lh) \in Nat /\ Len(lh) <= LOGSIZE
  BY <1>0, HeaderFits DEF Booting, Types
<1>5. CASE tail < Len(lh)
  <2>1. /\ home' = [home EXCEPT ![b] = dlog[tail + 1]]
        /\ cache' = [cache EXCEPT ![b] = dlog[tail + 1]]
        /\ dirty' = dirty \ {b} /\ tail' = tail + 1
        /\ UNCHANGED <<dhead, lh, boot>>
    BY <1>5, Zenon DEF recover_from_log, InstallOne
  <2>2. tail + 1 \in 1 .. Len(lh) /\ tail + 1 \in 1 .. LOGSIZE /\ tail' \in Nat /\ tail' <= Len(lh)
    BY <1>4, <1>5, <2>1, LogAssumption
  <2>3. b \in Block /\ dlog[tail + 1] \in Data
    BY <1>0, <2>2 DEF Types
  <2>4. dirty' = {} /\ cache' = home'
    BY <1>4, <2>1
  <2>5. Types'
    <3>1. home' \in [Block -> Data] /\ cache' \in [Block -> Data]
      BY <1>0, <2>1, <2>3 DEF Types
    <3> QED BY <1>0, <1>1, <2>1, <2>2, <2>4, <3>1 DEF Types
  <2>6. Headers'
    BY <1>0, <1>1, <2>1 DEF Headers, Distinct, Entries
  <2>7. Reserved'
    BY <1>2, <1>4, <2>1, <2>5, NoClaims
  <2>8. Running'
    BY <1>0, <2>1 DEF Running
  <2>9. \A i \in 1 .. tail' : home'[lh'[i]] = dlog'[i]
    <3> SUFFICES ASSUME NEW i \in 1 .. tail + 1 PROVE home'[lh[i]] = dlog[i]
      BY <1>1, <2>1
    <3>1. i \in 1 .. Len(lh)
      BY <1>4, <2>2
    <3>2. lh[i] \in Block
      BY <1>0, <3>1 DEF Types
    <3>3. CASE i = tail + 1
      BY <1>0, <2>1, <2>3, <3>3 DEF Types
    <3>4. CASE i # tail + 1
      <4>1. i \in 1 .. tail
        BY <1>4, <3>4
      <4>2. lh[i] # b
        BY <1>0, <2>2, <3>1, <3>4 DEF Headers, Distinct
      <4>3. home'[lh[i]] = home[lh[i]]
        BY <1>0, <2>1, <3>2, <4>2 DEF Types
      <4> QED BY <1>4, <4>1, <4>3
    <3> QED BY <3>3, <3>4
  <2>10. Booting'
    <3>1. lh' = dhead' /\ tail' <= Len(lh')
      BY <1>4, <2>1, <2>2
    <3> QED BY <1>0, <1>1, <2>1, <2>4, <2>9, <3>1 DEF Booting
  <2> QED BY <1>3, <2>5, <2>6, <2>7, <2>8, <2>10 DEF IInv
<1>6. CASE ~(tail < Len(lh))
  <2>1. /\ lh' = <<>> /\ dhead' = <<>> /\ tail' = 0 /\ boot' = "up"
        /\ UNCHANGED <<home, cache, dirty>>
    BY <1>6, Zenon DEF recover_from_log
  <2>2. Len(<<>>) <= LOGSIZE
    BY EmptyHeader, LogAssumption
  <2>3. Types'
    BY <1>0, <1>1, <2>1, EmptyHeader DEF Types
  <2>4. Headers'
    <3>1. Distinct(lh') /\ Distinct(dhead') /\ Len(dhead') <= LOGSIZE
      BY <2>1, <2>2, EmptyHeader
    <3> QED BY <1>1, <1>2, <3>1 DEF Headers
  <2>5. Reserved'
    BY <1>2, <2>1, <2>2, <2>3, NoClaims
  <2>6. Running'
    <3>1. dirty' = Entries(lh') /\ cache' = home'
      BY <1>4, <2>1, EmptyHeader
    <3>2. \A q \in Proc : pc'[q] = "run"
      BY <1>1, <1>2
    <3> QED BY <2>1, <3>1, <3>2 DEF Running
  <2>7. Booting'
    BY <2>1 DEF Booting
  <2> QED BY <1>3, <2>3, <2>4, <2>5, <2>6, <2>7 DEF IInv
<1> QED BY <1>5, <1>6

\* The initial states satisfy the invariant.
LEMMA InitKeeps ==
  ASSUME Fits, Init
  PROVE  IInv
<1>1. Types
  <2>1. /\ pc \in [Proc -> PC] /\ depth \in [Proc -> 0 .. 1]
        /\ wrote \in [Proc -> SUBSET Block] /\ held \in [Proc -> SUBSET Block]
    <3>1. /\ pc = [p \in Proc |-> "run"] /\ depth = [p \in Proc |-> 0]
          /\ wrote = [p \in Proc |-> {}] /\ held = [p \in Proc |-> {}]
      BY Zenon DEF Init
    <3> QED BY <3>1 DEF PC
  <2>2. /\ home \in [Block -> Data] /\ cache \in [Block -> Data] /\ dirty \in SUBSET Block
        /\ dlog \in [1 .. LOGSIZE -> Data] /\ dhead \in Seq(Block) /\ lh \in Seq(Block)
    BY EmptyHeader, LogAssumption, Zenon DEF Init
  <2>3. /\ outstanding \in Nat /\ committing \in BOOLEAN /\ tail \in Nat /\ ops \in Nat
        /\ boot \in {"read_head", "install_trans", "up"}
    BY Zenon DEF Init
  <2> QED BY <2>1, <2>2, <2>3 DEF Types
<1>2. Active = {}
  <2>1. \A p \in Proc : depth[p] = 0
    BY Zenon DEF Init
  <2> QED BY <2>1 DEF Active
<1>3. Operations
  <2>1. IsFiniteSet({}) /\ Cardinality({}) = 0 /\ Cardinality({}) <= OpBlocks
    BY FS_EmptySet, LogAssumption
  <2>2. /\ outstanding = 0 /\ ~committing
        /\ \A q \in Proc : pc[q] = "run" /\ depth[q] = 0 /\ wrote[q] = {} /\ held[q] = {}
    BY Zenon DEF Init
  <2> QED BY <1>2, <2>1, <2>2, Zenon DEF Operations, Commits
<1>4. Reserved
  <2>1. Claim = {} /\ lh = <<>>
    BY <1>2, Zenon DEF Claim, ClaimsOf, Init
  <2>2. Cardinality({}) = 0
    BY FS_EmptySet
  <2> QED BY <2>1, <2>2, EmptyHeader, LogAssumption DEF Reserved
<1>5. Headers
  <2>1. lh = <<>> /\ dhead = <<>> /\ \A q \in Proc : wrote[q] = {}
    BY Zenon DEF Init
  <2> QED BY <2>1, EmptyHeader, LogAssumption DEF Headers
<1>6. NoPanic /\ Running /\ Booting
  BY Zenon DEF Init, NoPanic, Running, Booting
<1> QED BY <1>1, <1>3, <1>4, <1>5, <1>6 DEF IInv

\* A step of any process, of the buffer cache, of a crash or of the boot keeps
\* the invariant.
LEMMA NextKeeps ==
  ASSUME Fits, IInv, [Next]_vars
  PROVE  IInv'
<1>1. CASE UNCHANGED vars
  BY <1>1, StutterKeeps
<1>2. ASSUME NEW p \in Proc, Step(p)
      PROVE  IInv'
  BY <1>2, BeginOpKeeps, RecordKeeps, EndOpKeeps, WriteLogKeeps, WriteHeadKeeps, InstallKeeps,
     ClearKeeps, DoneKeeps DEF Step
<1>3. ASSUME NEW p \in Proc, begin_op(p)
      PROVE  IInv'
  BY <1>3, BeginOpKeeps
<1>4. ASSUME NEW p \in Proc, NEW b \in Block, NEW d \in Data, log_write(p, b, d)
      PROVE  IInv'
  BY <1>4, LogWriteKeeps
<1>5. ASSUME NEW b \in Block, Recycle(b)
      PROVE  IInv'
  BY <1>5, RecycleKeeps
<1>6. CASE Crash \/ read_head \/ recover_from_log
  BY <1>6, CrashKeeps, ReadHeadKeeps, RecoverKeeps
<1> QED BY <1>1, <1>2, <1>3, <1>4, <1>5, <1>6 DEF Next

\* The invariant holds in every state, whatever the number of processes and of
\* blocks and the size of the log.
THEOREM Invariance == Fits => (Spec => []IInv)
<1> SUFFICES ASSUME Fits PROVE Spec => []IInv
  OBVIOUS
<1>1. Init => IInv
  BY InitKeeps
<1>2. IInv /\ [Next]_vars => IInv'
  BY NextKeeps
<1> QED BY <1>1, <1>2, PTL DEF Spec

-----------------------------------------------------------------------------
\* begin_op reserves enough room in the log for every operation in progress,
\* so neither log_write nor end_op panics.
THEOREM NeverPanics == Fits => (Spec => []NoPanic)
<1> SUFFICES ASSUME Fits PROVE Spec => []NoPanic
  OBVIOUS
<1>1. IInv => NoPanic
  BY DEF IInv
<1> QED BY <1>1, Invariance, PTL

\* A block that is neither pinned by log_write nor locked by a writer may leave
\* the buffer cache.
LEMMA Coherent ==
  ASSUME IInv
  PROVE  CacheCoherent
BY Zenon DEF IInv, Running, CacheCoherent, Locked

\* A buffer that nobody holds and no transaction pins equals its block on disk.
THEOREM CacheIsCoherent == Fits => (Spec => []CacheCoherent)
<1> SUFFICES ASSUME Fits PROVE Spec => []CacheCoherent
  OBVIOUS
<1>1. IInv => CacheCoherent
  BY Coherent
<1> QED BY <1>1, Invariance, PTL

\* Between operations the log is empty and every block is in its place.
THEOREM QuietDurability == Fits => (Spec => []QuietIsDurable)
<1> SUFFICES ASSUME Fits PROVE Spec => []QuietIsDurable
  OBVIOUS
<1>1. IInv => QuietIsDurable
  <2> SUFFICES ASSUME IInv, boot = "up", outstanding = 0, ~committing
               PROVE  dhead = <<>> /\ lh = <<>> /\ dirty = {} /\ home = cache
    BY Zenon DEF QuietIsDurable
  <2>1. Types /\ Operations /\ Running
    BY DEF IInv
  <2>2. \A p \in Proc : pc[p] \notin Commits
    BY <2>1 DEF Operations
  <2>3. lh = <<>> /\ dhead = <<>> /\ dirty = Entries(lh)
    BY <2>1, <2>2 DEF Running, Commits
  <2>4. dirty = {}
    BY <2>3, EmptyHeader
  <2>5. Active = {}
    BY <2>1, FS_EmptySet DEF Operations
  <2>6. \A p \in Proc : depth[p] = 0
    BY <2>1, <2>5 DEF Active, Types
  <2>7. \A p \in Proc : held[p] = {}
    BY <2>1, <2>6 DEF Operations
  <2>8. \A b \in Block : cache[b] = home[b]
    BY <2>1, <2>4, <2>7 DEF Running
  <2>9. home = cache
    BY <2>1, <2>8 DEF Types
  <2> QED BY <2>3, <2>4, <2>9
<1> QED BY <1>1, Invariance, PTL

-----------------------------------------------------------------------------
\* The log implements a disk that changes in one step.  What recovery would
\* leave, of a header h, log blocks l and homes m:
After(h, l, m) ==
  [b \in Block |->
     IF \E i \in 1 .. Len(h) : h[i] = b
     THEN l[CHOOSE i \in 1 .. Len(h) : h[i] = b] ELSE m[b]]

\* The durable disk is the home blocks overlaid with the logged ones.
LEMMA DurableAfter == Durable = After(dhead, dlog, home)
BY DEF Durable, After

\* A block in the header is read from the log.
LEMMA AfterEntry ==
  ASSUME NEW h \in Seq(Block), Distinct(h), NEW l, NEW m, NEW i \in 1 .. Len(h)
  PROVE  After(h, l, m)[h[i]] = l[i]
<1> DEFINE j == CHOOSE k \in 1 .. Len(h) : h[k] = h[i]
<1>1. h[i] \in Block
  OBVIOUS
<1>2. j \in 1 .. Len(h) /\ h[j] = h[i]
  OBVIOUS
<1>3. j = i
  BY <1>2 DEF Distinct
<1>4. After(h, l, m)[h[i]] = l[j]
  BY <1>1, Zenon DEF After
<1> QED BY <1>3, <1>4, Zenon

\* A block that is not in the header is read at home.
LEMMA AfterOther ==
  ASSUME NEW h \in Seq(Block), NEW l, NEW m, NEW b \in Block, b \notin Entries(h)
  PROVE  After(h, l, m)[b] = m[b]
BY DEF After, Entries

\* Two homes that agree outside the log are recovered alike.
LEMMA AfterSame ==
  ASSUME NEW h \in Seq(Block), NEW l, NEW m, NEW n, \A b \in Block \ Entries(h) : m[b] = n[b]
  PROVE  After(h, l, m) = After(h, l, n)
BY DEF After, Entries

\* Recovery leaves f if f is in the log and, elsewhere, at home.
LEMMA AfterIs ==
  ASSUME NEW h \in Seq(Block), Distinct(h), NEW l, NEW m, NEW f \in [Block -> Data],
         \A i \in 1 .. Len(h) : l[i] = f[h[i]], \A b \in Block \ Entries(h) : m[b] = f[b]
  PROVE  After(h, l, m) = f
<1>1. ASSUME NEW b \in Block
      PROVE  After(h, l, m)[b] = f[b]
  <2>1. CASE b \in Entries(h)
    <3>1. PICK i \in 1 .. Len(h) : b = h[i]
      BY <2>1 DEF Entries
    <3> QED BY <3>1, AfterEntry
  <2>2. CASE b \notin Entries(h)
    BY <2>2, AfterOther
  <2> QED BY <2>1, <2>2
<1>2. After(h, l, m) = [b \in Block |-> After(h, l, m)[b]]
  BY DEF After
<1> QED BY <1>1, <1>2

\* An empty header overlays nothing.
LEMMA AfterEmpty ==
  ASSUME NEW l, NEW m \in [Block -> Data]
  PROVE  After(<<>>, l, m) = m
<1>1. /\ <<>> \in Seq(Block) /\ Distinct(<<>>) /\ (1 .. Len(<<>>)) = {}
  BY EmptyHeader
<1> QED BY <1>1, AfterIs, Zenon

\* bread finds what the cache has, once the machine is up.
LEMMA ReadableIsCache == IInv /\ boot = "up" => Readable = cache
<1> SUFFICES ASSUME IInv, boot = "up" PROVE Readable = cache
  OBVIOUS
<1>1. \A b \in Block \ (dirty \cup Locked) : cache[b] = home[b]
  BY Coherent, Zenon DEF CacheCoherent, IInv, NoPanic
<1>2. cache \in [Block -> Data]
  BY DEF IInv, Types
<1> QED BY <1>1, <1>2 DEF Readable

\* The same after a step.
LEMMA ReadableIsCacheNext == (IInv /\ boot = "up" => Readable = cache)'
BY ReadableIsCache, PTL

\* What a step of the log does to the disk that the file system sees.
View == <<Durable, Readable, outstanding>>

\* The steps that write neither the disk nor a buffer.
LEMMA OperationsImplement ==
  ASSUME Fits, IInv, IInv', NEW p \in Proc, begin_op(p) \/ record(p) \/ end_op(p) \/ done(p)
  PROVE  [AD!Next]_View
<1>1. boot = "up" /\ boot' = "up" /\ UNCHANGED <<home, dlog, dhead, cache>>
  BY Zenon DEF begin_op, record, end_op, done, Up, disk
<1>2. Durable' = Durable
  BY <1>1 DEF Durable
<1>3. Readable' = Readable
  BY <1>1, ReadableIsCache, ReadableIsCacheNext
<1>4. CASE outstanding' = outstanding
  BY <1>2, <1>3, <1>4 DEF View
<1>5. CASE outstanding' = outstanding + 1
  BY <1>2, <1>3, <1>5 DEF AD!Next, AD!Begin
<1>6. CASE end_op(p)
  <2>1. outstanding' = outstanding - 1 /\ depth[p] > 0
    BY <1>6, Zenon DEF end_op
  <2>2. Types /\ Operations
    BY DEF IInv
  <2>3. depth[p] \in 0 .. 1 /\ outstanding \in Nat
    BY <2>2 DEF Types
  <2>4. outstanding > 0
    BY <2>1, <2>2, <2>3, NoCommit
  <2> QED BY <1>2, <1>3, <2>1, <2>4 DEF AD!Next, AD!End
<1> QED BY <1>4, <1>5, <1>6 DEF begin_op, record, done

\* A write of an operation is a write of AtomicDisk.
LEMMA WriteImplements ==
  ASSUME Fits, IInv, IInv', NEW p \in Proc, NEW b \in Block, NEW d \in Data, log_write(p, b, d)
  PROVE  [AD!Next]_View
<1>1. /\ boot = "up" /\ boot' = "up" /\ UNCHANGED <<home, dlog, dhead, outstanding>>
      /\ cache' = [cache EXCEPT ![b] = d] /\ depth[p] > 0
  BY Zenon DEF log_write, Up, disk
<1>2. Durable' = Durable
  BY <1>1 DEF Durable
<1>3. Readable' = [Readable EXCEPT ![b] = d]
  BY <1>1, ReadableIsCache, ReadableIsCacheNext
<1>4. outstanding > 0
  <2>1. Types /\ Operations
    BY DEF IInv
  <2>2. depth[p] \in 0 .. 1 /\ outstanding \in Nat
    BY <2>1 DEF Types
  <2> QED BY <1>1, <2>1, <2>2, NoCommit
<1> QED BY <1>1, <1>2, <1>3, <1>4, Zenon DEF AD!Next, AD!Write

\* The commit point is the one step that changes the disk.
LEMMA CommitImplements ==
  ASSUME Fits, IInv, IInv', NEW p \in Proc, write_head(p)
  PROVE  [AD!Next]_View
<1>1. /\ boot = "up" /\ boot' = "up" /\ UNCHANGED <<home, dlog, cache, outstanding>> /\ dhead' = lh
      /\ pc[p] = "write_head" /\ pc[p] \in Commits
  BY Zenon DEF write_head, Up, Commits
<1>2. Types /\ Operations /\ Headers /\ Running
  BY DEF IInv
<1>3. /\ outstanding = 0 /\ \A q \in Proc : held[q] = {} /\ pc[q] \notin {"install_trans", "clear"}
  BY <1>1, <1>2, CommitAlone
<1>4. dirty = Entries(lh) /\ InLog
  BY <1>1, <1>2, <1>3 DEF Running
<1>5. \A b \in Block \ Entries(lh) : home[b] = cache[b]
  BY <1>1, <1>2, <1>3, <1>4 DEF Running
<1>6. After(lh, dlog, home) = cache
  <2>1. lh \in Seq(Block) /\ Distinct(lh) /\ cache \in [Block -> Data]
    BY <1>2 DEF Types, Headers
  <2>2. \A i \in 1 .. Len(lh) : dlog[i] = cache[lh[i]]
    BY <1>4 DEF InLog
  <2> QED BY <1>5, <2>1, <2>2, AfterIs
<1>7. Durable' = cache
  BY <1>1, <1>6 DEF Durable, After
<1>8. Readable = cache /\ Readable' = cache
  BY <1>1, ReadableIsCache, ReadableIsCacheNext
<1> QED BY <1>1, <1>3, <1>7, <1>8 DEF AD!Next, AD!Commit

\* The other writes of a commit and those of the recovery leave what would be
\* recovered as it is.
LEMMA CommitHidden ==
  ASSUME Fits, IInv, IInv', NEW p \in Proc, write_log(p) \/ install_trans(p) \/ clear(p)
  PROVE  UNCHANGED View
<1>1. boot = "up" /\ boot' = "up" /\ outstanding' = outstanding
  BY Zenon DEF write_log, install_trans, clear, Up
<1>2. Types /\ Operations /\ Headers /\ Running
  BY DEF IInv
<1>3. Readable' = Readable
  <2>1. cache' = cache
    BY InstallKeeps DEF write_log, clear
  <2> QED BY <1>1, <2>1, ReadableIsCache, ReadableIsCacheNext
<1>4. CASE write_log(p)
  <2>1. UNCHANGED <<home, dhead>> /\ pc[p] = "write_log" /\ pc[p] \in Commits
    BY <1>4 DEF write_log, Commits
  <2>2. \A q \in Proc : pc[q] \notin {"install_trans", "clear"}
    BY <1>2, <2>1, CommitAlone
  <2>3. dhead = <<>>
    BY <1>1, <1>2, <2>2 DEF Running
  <2>4. Durable = home
    BY <1>2, <2>3, DurableAfter, AfterEmpty DEF Types
  <2>5. After(<<>>, dlog', home) = home
    BY <1>2, AfterEmpty DEF Types
  <2>6. Durable' = home
    BY <2>1, <2>3, <2>5 DEF Durable, After
  <2> QED BY <1>1, <1>3, <2>4, <2>6 DEF View
<1>5. CASE install_trans(p)
  <2>1. /\ UNCHANGED <<dlog, dhead>> /\ pc[p] = "install_trans"
        /\ home' = [home EXCEPT ![lh[tail + 1]] = dlog[tail + 1]]
    BY <1>5 DEF install_trans, InstallOne
  <2>2. dhead = lh /\ tail + 1 \in 1 .. Len(lh)
    BY <1>1, <1>2, <2>1 DEF Running, Types
  <2>3. lh[tail + 1] \in Entries(dhead)
    BY <2>2 DEF Entries
  <2>4. \A b \in Block \ Entries(dhead) : home'[b] = home[b]
    BY <1>2, <2>1, <2>3 DEF Types
  <2>5. After(dhead, dlog, home') = After(dhead, dlog, home)
    BY <1>2, <2>4, AfterSame DEF Types
  <2>6. Durable' = Durable
    BY <2>1, <2>5 DEF Durable, After
  <2> QED BY <1>1, <1>3, <2>6 DEF View
<1>6. CASE clear(p)
  <2>1. UNCHANGED <<home, dlog>> /\ dhead' = <<>> /\ pc[p] = "clear" /\ pc[p] \in Commits
    BY <1>6 DEF clear, Commits
  <2>2. dhead = lh /\ dirty = {} /\ InLog
    BY <1>1, <1>2, <2>1 DEF Running
  <2>3. \A b \in Block : cache[b] = home[b]
    <3>1. \A q \in Proc : held[q] = {}
      BY <1>2, <2>1, CommitAlone
    <3> QED BY <1>1, <1>2, <2>2, <3>1 DEF Running
  <2>4. \A i \in 1 .. Len(dhead) : dlog[i] = home[dhead[i]]
    BY <1>2, <2>2, <2>3 DEF InLog, Types
  <2>5. Durable = home
    <3>1. dhead \in Seq(Block) /\ Distinct(dhead) /\ home \in [Block -> Data]
      BY <1>2 DEF Types, Headers
    <3>2. \A b \in Block \ Entries(dhead) : home[b] = home[b]
      OBVIOUS
    <3>3. After(dhead, dlog, home) = home
      BY <2>4, <3>1, <3>2, AfterIs
    <3> QED BY <3>3, DurableAfter
  <2>6. After(<<>>, dlog, home) = home
    BY <1>2, AfterEmpty DEF Types
  <2>7. Durable' = home
    BY <2>1, <2>6 DEF Durable, After
  <2> QED BY <1>1, <1>3, <2>5, <2>7 DEF View
<1> QED BY <1>4, <1>5, <1>6

\* The steps of recovery are hidden.
LEMMA BootHidden ==
  ASSUME Fits, IInv, IInv', read_head \/ recover_from_log
  PROVE  UNCHANGED View
<1>1. boot # "up" /\ outstanding' = outstanding /\ dlog' = dlog
  BY Zenon DEF read_head, recover_from_log, disk
<1>2. Types /\ Headers /\ Booting
  BY DEF IInv
<1>3. Readable = Durable
  BY <1>1 DEF Readable
<1>4. CASE read_head
  <2>1. boot' # "up" /\ UNCHANGED <<home, dlog, dhead>>
    BY <1>4, Zenon DEF read_head, disk
  <2>2. Durable' = Durable
    BY <2>1 DEF Durable
  <2>3. Readable' = Durable'
    BY <2>1 DEF Readable
  <2> QED BY <1>1, <1>3, <2>2, <2>3 DEF View
<1>5. CASE recover_from_log /\ tail < Len(lh)
  <2>1. boot' # "up" /\ dhead' = dhead /\ home' = [home EXCEPT ![lh[tail + 1]] = dlog[tail + 1]]
    BY <1>5, Zenon DEF recover_from_log, InstallOne
  <2>2. dhead = lh /\ tail + 1 \in 1 .. Len(lh)
    <3>1. boot = "install_trans"
      BY <1>5, Zenon DEF recover_from_log
    <3>2. dhead = lh /\ tail \in Nat /\ Len(lh) \in Nat
      BY <1>2, <3>1 DEF Booting, Types
    <3> QED BY <1>5, <3>2
  <2>3. lh[tail + 1] \in Entries(dhead)
    BY <2>2, Zenon DEF Entries
  <2>4. \A b \in Block \ Entries(dhead) : home'[b] = home[b]
    BY <1>2, <2>1, <2>3 DEF Types
  <2>5. After(dhead, dlog, home') = After(dhead, dlog, home)
    BY <1>2, <2>4, AfterSame DEF Types
  <2>6. Durable' = Durable
    BY <1>1, <2>1, <2>5 DEF Durable, After
  <2>7. Readable' = Durable'
    BY <2>1 DEF Readable
  <2> QED BY <1>1, <1>3, <2>6, <2>7 DEF View
<1>6. CASE recover_from_log /\ ~(tail < Len(lh))
  <2>1. boot' = "up" /\ dhead' = <<>> /\ UNCHANGED <<home, cache>>
    BY <1>6, Zenon DEF recover_from_log
  <2>2. /\ dhead = lh /\ tail = Len(lh) /\ cache = home
        /\ \A i \in 1 .. tail : home[lh[i]] = dlog[i]
    <3>1. boot = "install_trans"
      BY <1>6, Zenon DEF recover_from_log
    <3>2. /\ dhead = lh /\ cache = home /\ tail <= Len(lh)
          /\ \A i \in 1 .. tail : home[lh[i]] = dlog[i]
      BY <1>2, <3>1 DEF Booting
    <3>3. tail \in Nat /\ Len(lh) \in Nat
      BY <1>2 DEF Types
    <3> QED BY <1>6, <3>2, <3>3
  <2>3. \A i \in 1 .. Len(dhead) : dlog[i] = home[dhead[i]]
    BY <2>2
  <2>4. Durable = home
    <3>1. dhead \in Seq(Block) /\ Distinct(dhead) /\ home \in [Block -> Data]
      BY <1>2 DEF Types, Headers
    <3>2. \A b \in Block \ Entries(dhead) : home[b] = home[b]
      OBVIOUS
    <3>3. After(dhead, dlog, home) = home
      BY <2>3, <3>1, <3>2, AfterIs
    <3> QED BY <3>3, DurableAfter
  <2>5. After(<<>>, dlog, home) = home
    BY <1>2, AfterEmpty DEF Types
  <2>6. Durable' = home
    BY <1>1, <2>1, <2>5 DEF Durable, After
  <2>7. Readable' = home
    BY <2>1, <2>2, ReadableIsCacheNext
  <2> QED BY <1>1, <1>3, <2>4, <2>6, <2>7 DEF View
<1> QED BY <1>4, <1>5, <1>6

\* A crash is a crash of AtomicDisk.
LEMMA CrashImplements ==
  ASSUME Crash
  PROVE  AD!Next
<1>1. boot' # "up" /\ UNCHANGED <<home, dlog, dhead>> /\ outstanding' = 0
  BY Zenon DEF Crash, disk
<1>2. Durable' = Durable
  BY <1>1 DEF Durable
<1>3. Readable' = Durable'
  BY <1>1 DEF Readable
<1> QED BY <1>1, <1>2, <1>3 DEF AD!Next, AD!Crash

\* log.c: whatever the interleaving of the operations, and wherever the machine
\* stops, the updates of the operations that have ended reach the disk in one
\* step, when none is in progress, and a crash loses none of them.
THEOREM LogIsAtomic == Fits => (Spec => DiskIsAtomic)
<1> SUFFICES ASSUME Fits PROVE Spec => DiskIsAtomic
  OBVIOUS
<1>1. Init => AD!Init
  <2> SUFFICES ASSUME Init PROVE AD!Init
    OBVIOUS
  <2>1. home \in [Block -> Data] /\ dhead = <<>> /\ boot = "read_head" /\ outstanding = 0
    BY Zenon DEF Init
  <2>2. Durable = home
    BY <2>1, DurableAfter, AfterEmpty
  <2>3. Readable = Durable
    BY <2>1 DEF Readable
  <2> QED BY <2>1, <2>2, <2>3 DEF AD!Init
<1>2. IInv /\ IInv' /\ [Next]_vars => [AD!Next]_View
  <2> SUFFICES ASSUME IInv, IInv', [Next]_vars PROVE [AD!Next]_View
    OBVIOUS
  <2>1. CASE UNCHANGED vars
    <3>1. UNCHANGED <<home, dlog, dhead, cache, dirty, held, boot, outstanding>>
      BY <2>1 DEF vars, disk, memory
    <3> QED BY <3>1 DEF View, Durable, Readable, Locked
  <2>2. ASSUME NEW p \in Proc, Step(p)
        PROVE  [AD!Next]_View
    BY <2>2, OperationsImplement, CommitImplements, CommitHidden DEF Step
  <2>3. ASSUME NEW p \in Proc, begin_op(p)
        PROVE  [AD!Next]_View
    BY <2>3, OperationsImplement
  <2>4. ASSUME NEW p \in Proc, NEW b \in Block, NEW d \in Data, log_write(p, b, d)
        PROVE  [AD!Next]_View
    BY <2>4, WriteImplements
  <2>5. ASSUME NEW b \in Block, Recycle(b)
        PROVE  [AD!Next]_View
    <3>1. boot = "up" /\ boot' = "up" /\ UNCHANGED <<home, dlog, dhead, outstanding>>
      BY <2>5, Zenon DEF Recycle, Up, disk
    <3>2. cache' = cache
      BY <2>5, RecycleKeeps
    <3>3. Durable' = Durable
      BY <3>1 DEF Durable
    <3>4. Readable' = Readable
      BY <3>1, <3>2, ReadableIsCache, ReadableIsCacheNext
    <3> QED BY <3>1, <3>3, <3>4 DEF View
  <2>6. CASE Crash \/ read_head \/ recover_from_log
    BY <2>6, CrashImplements, BootHidden
  <2> QED BY <2>1, <2>2, <2>3, <2>4, <2>5, <2>6 DEF Next
<1>3. Spec => []IInv
  BY Invariance
<1> QED BY <1>1, <1>2, <1>3, PTL DEF Spec, DiskIsAtomic, AD!Spec, View
=============================================================================
