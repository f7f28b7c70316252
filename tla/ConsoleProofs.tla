--------------------------- MODULE ConsoleProofs ---------------------------
(***************************************************************************)
(* Proofs about the console, for every size of the buffer, every width of  *)
(* its indices and any number of processes: no reader sleeps on input, and *)
(* the circular buffer implements the line discipline.                     *)
(***************************************************************************)
EXTENDS Console, TLAPS

Index == 0..Wrap-1

-----------------------------------------------------------------------------
(* Indices modulo Wrap.                                                     *)

\* The distance between two indices, without the modulus.
LEMMA DiffIs ==
    ASSUME NEW i \in Index, NEW j \in Index
    PROVE  /\ Diff(i, j) \in Index
           /\ Diff(i, j) = IF i >= j THEN i - j ELSE i - j + Wrap
BY ConsoleConstants DEF Index, Diff

\* An index advanced by less than a turn, without the modulus.
LEMMA PlusIs ==
    ASSUME NEW i \in Index, NEW k \in Index
    PROVE  /\ Plus(i, k) \in Index
           /\ Plus(i, k) = IF i + k < Wrap THEN i + k ELSE i + k - Wrap
BY ConsoleConstants DEF Index, Plus

\* An index taken back by less than a turn, without the modulus.
LEMMA MinusIs ==
    ASSUME NEW i \in Index, NEW k \in Index
    PROVE  /\ Plus(i, -k) \in Index
           /\ Plus(i, -k) = IF i >= k THEN i - k ELSE i - k + Wrap
BY ConsoleConstants DEF Index, Plus

\* Two numbers less than N apart have different remainders.
LEMMA RemaindersDiffer ==
    ASSUME NEW N \in Nat \ {0}, NEW x \in Int, NEW y \in Int, x < y, y < x + N
    PROVE  x % N # y % N
<1> SUFFICES ASSUME x % N = y % N PROVE FALSE
  OBVIOUS
<1> DEFINE a == x \div N
           b == y \div N
<1>1. /\ a \in Int /\ b \in Int /\ x = N * a + (x % N) /\ y = N * b + (y % N) /\ x % N \in Int
  OBVIOUS
<1> HIDE DEF a, b
<1>2. N * b - N * a = y - x /\ N * (b - a) = N * b - N * a
  BY <1>1
<1>3. 0 < N * (b - a) /\ N * (b - a) < N
  BY <1>1, <1>2
<1>4. CASE b - a <= 0
  BY <1>1, <1>3, <1>4
<1>5. CASE b - a >= 1
  BY <1>1, <1>3, <1>5
<1> QED BY <1>1, <1>4, <1>5

\* Adding a multiple of N does not change the remainder.
LEMMA RemainderSame ==
    ASSUME NEW N \in Nat \ {0}, NEW x \in Int, NEW W \in Int, W % N = 0
    PROVE  (x + W) % N = x % N
<1> DEFINE a == x \div N
           b == (x + W) \div N
           c == W \div N
           u == x % N
           v == (x + W) % N
<1>1. /\ a \in Int /\ b \in Int /\ c \in Int /\ u \in 0..N-1 /\ v \in 0..N-1
      /\ x = N * a + u /\ x + W = N * b + v /\ W = N * c
  OBVIOUS
<1> HIDE DEF a, b, c, u, v
<1>2. N * (b - a - c) = u - v
  <2>1. N * (b - a - c) = N * b - N * a - N * c
    BY <1>1
  <2> QED BY <1>1, <2>1
<1>3. N * (b - a - c) < N /\ -N < N * (b - a - c)
  BY <1>1, <1>2
<1>4. b - a - c = 0
  <2>1. CASE b - a - c >= 1
    BY <1>1, <1>3, <2>1
  <2>2. CASE b - a - c <= -1
    BY <1>1, <1>3, <2>2
  <2> QED BY <1>1, <2>1, <2>2
<1>5. u = v
  BY <1>1, <1>2, <1>4
<1> QED BY <1>5 DEF u, v

\* Indices less than INPUT_BUF apart have different places in the buffer, also
\* across the wrap.
LEMMA PlacesDiffer ==
    ASSUME NEW i \in Index, NEW d \in 1..INPUT_BUF-1
    PROVE  Plus(i, d) % INPUT_BUF # i % INPUT_BUF
<1>1. (i + d) % INPUT_BUF # i % INPUT_BUF
  <2>1. /\ INPUT_BUF \in Nat \ {0} /\ i \in Int /\ i + d \in Int
        /\ i < i + d /\ i + d < i + INPUT_BUF
    BY ConsoleConstants DEF Index
  <2>2. i % INPUT_BUF # (i + d) % INPUT_BUF
    BY <2>1, RemaindersDiffer, Zenon
  <2> QED BY <2>2
<1>2. d \in Index
  BY ConsoleConstants DEF Index
<1>3. CASE i + d < Wrap
  BY <1>1, <1>2, <1>3, PlusIs
<1>4. CASE i + d >= Wrap
  <2>1. Plus(i, d) = i + d - Wrap
    BY <1>2, <1>4, PlusIs, ConsoleConstants DEF Index
  <2>2. (i + d - Wrap + Wrap) % INPUT_BUF = (i + d - Wrap) % INPUT_BUF
    <3>1. INPUT_BUF \in Nat \ {0} /\ i + d - Wrap \in Int /\ Wrap \in Int /\ Wrap % INPUT_BUF = 0
      BY ConsoleConstants DEF Index
    <3> QED BY <3>1, RemainderSame, Zenon
  <2>3. i + d - Wrap + Wrap = i + d
    BY ConsoleConstants DEF Index
  <2> QED BY <1>1, <2>1, <2>2, <2>3
<1> QED BY <1>3, <1>4, ConsoleConstants DEF Index

\* Going forward from an index on the way to another one.
LEMMA OnTheWay ==
    ASSUME NEW i \in Index, NEW j \in Index, NEW k \in 0..Diff(j, i)
    PROVE  /\ k \in Index /\ Plus(i, k) \in Index
           /\ Diff(Plus(i, k), i) = k
           /\ Diff(j, Plus(i, k)) = Diff(j, i) - k
           /\ Plus(i, Diff(j, i)) = j
<1>1. /\ Diff(j, i) \in Index /\ Wrap \in Nat
      /\ Diff(j, i) = IF j >= i THEN j - i ELSE j - i + Wrap
  BY DiffIs, ConsoleConstants
<1>2. k \in Index
  BY <1>1 DEF Index
<1>3. /\ Plus(i, k) \in Index
      /\ Plus(i, k) = IF i + k < Wrap THEN i + k ELSE i + k - Wrap
  BY <1>2, PlusIs
<1>4. Diff(Plus(i, k), i) = IF Plus(i, k) >= i THEN Plus(i, k) - i ELSE Plus(i, k) - i + Wrap
  BY <1>3, DiffIs
<1>5. Diff(j, Plus(i, k)) = IF j >= Plus(i, k) THEN j - Plus(i, k) ELSE j - Plus(i, k) + Wrap
  BY <1>3, DiffIs
<1>6. Plus(i, Diff(j, i)) = IF i + Diff(j, i) < Wrap THEN i + Diff(j, i) ELSE i + Diff(j, i) - Wrap
  BY <1>1, PlusIs
<1> QED BY <1>1, <1>2, <1>3, <1>4, <1>5, <1>6 DEF Index

\* Two advances of less than a turn together are one.
LEMMA PlusPlus ==
    ASSUME NEW i \in Index, NEW k \in Nat, NEW m \in Nat, k + m < Wrap
    PROVE  Plus(Plus(i, k), m) = Plus(i, k + m)
<1>1. k \in Index /\ m \in Index /\ k + m \in Index /\ Wrap \in Nat
  BY ConsoleConstants DEF Index
<1>2. /\ Plus(i, k) \in Index
      /\ Plus(i, k) = IF i + k < Wrap THEN i + k ELSE i + k - Wrap
  BY <1>1, PlusIs
<1>3. Plus(i, k + m) = IF i + (k + m) < Wrap THEN i + (k + m) ELSE i + (k + m) - Wrap
  BY <1>1, PlusIs
<1>4. Plus(Plus(i, k), m) = IF Plus(i, k) + m < Wrap THEN Plus(i, k) + m ELSE Plus(i, k) + m - Wrap
  BY <1>1, <1>2, PlusIs
<1> QED BY <1>1, <1>2, <1>3, <1>4 DEF Index

\* Distances that do not make a turn add up.
LEMMA DiffDiff ==
    ASSUME NEW i \in Index, NEW j \in Index, NEW l \in Index, Diff(j, i) + Diff(l, j) < Wrap
    PROVE  Diff(l, i) = Diff(j, i) + Diff(l, j)
<1>1. Diff(j, i) = IF j >= i THEN j - i ELSE j - i + Wrap
  BY DiffIs
<1>2. Diff(l, j) = IF l >= j THEN l - j ELSE l - j + Wrap
  BY DiffIs
<1>3. Diff(l, i) = IF l >= i THEN l - i ELSE l - i + Wrap
  BY DiffIs
<1> QED BY <1>1, <1>2, <1>3, ConsoleConstants DEF Index

-----------------------------------------------------------------------------
(* The bytes in the buffer.                                                 *)
Byte == Keys \cup {"none"}
InputRec == [buf : [0..INPUT_BUF-1 -> Byte], r : Index, w : Index, e : Index]

\* Sequences of the same length with the same elements are equal.
LEMMA SameSeq ==
    ASSUME NEW S, NEW s \in Seq(S), NEW t \in Seq(S), Len(s) = Len(t),
           \A k \in 1..Len(s) : s[k] = t[k]
    PROVE  s = t
OBVIOUS

\* The length of two sequences put together.
LEMMA Joined ==
    ASSUME NEW S, NEW s \in Seq(S), NEW t \in Seq(S)
    PROVE  s \o t \in Seq(S) /\ Len(s \o t) = Len(s) + Len(t)
OBVIOUS

\* A byte of the buffer is a byte.
LEMMA AtType ==
    ASSUME NEW in \in InputRec, NEW i \in Index
    PROVE  At(in, i) \in Byte
<1>1. i % INPUT_BUF \in 0..INPUT_BUF-1
  BY ConsoleConstants DEF Index
<1> QED BY <1>1 DEF InputRec, At

\* The bytes between two indices are a sequence as long as their distance.
LEMMA BytesIs ==
    ASSUME NEW in \in InputRec, NEW i \in Index, NEW j \in Index
    PROVE  /\ Bytes(in, i, j) \in Seq(Byte)
           /\ Len(Bytes(in, i, j)) = Diff(j, i)
           /\ \A k \in 1..Diff(j, i) : Bytes(in, i, j)[k] = At(in, Plus(i, k - 1))
<1>1. Diff(j, i) \in Nat
  BY DiffIs, ConsoleConstants DEF Index
<1>2. \A k \in 1..Diff(j, i) : At(in, Plus(i, k - 1)) \in Byte
  <2> TAKE k \in 1..Diff(j, i)
  <2>1. k - 1 \in 0..Diff(j, i)
    BY <1>1
  <2>2. Plus(i, k - 1) \in Index
    BY <2>1, OnTheWay
  <2> QED BY <2>2, AtType
<1>3. Bytes(in, i, j) = [k \in 1..Diff(j, i) |-> At(in, Plus(i, k - 1))]
  BY DEF Bytes
<1> QED BY <1>1, <1>2, <1>3

\* There are no bytes between an index and itself, and only then.
LEMMA BytesEmpty ==
    ASSUME NEW in \in InputRec, NEW i \in Index, NEW j \in Index
    PROVE  (Bytes(in, i, j) = <<>>) <=> (i = j)
<1>1. Bytes(in, i, j) \in Seq(Byte) /\ Len(Bytes(in, i, j)) = Diff(j, i)
  BY BytesIs
<1>2. Diff(j, i) = IF j >= i THEN j - i ELSE j - i + Wrap
  BY DiffIs
<1>3. (Diff(j, i) = 0) <=> (i = j)
  BY <1>2, ConsoleConstants DEF Index
<1> QED BY <1>1, <1>3

\* The bytes on the way to an index, and those from there, are a prefix and a
\* suffix.
LEMMA BytesPart ==
    ASSUME NEW in \in InputRec, NEW i \in Index, NEW j \in Index, NEW k \in 0..Diff(j, i)
    PROVE  /\ Bytes(in, i, Plus(i, k)) = SubSeq(Bytes(in, i, j), 1, k)
           /\ Bytes(in, Plus(i, k), j) = SubSeq(Bytes(in, i, j), k + 1, Diff(j, i))
<1> DEFINE s == Bytes(in, i, j)
           t == Bytes(in, i, Plus(i, k))
           u == Bytes(in, Plus(i, k), j)
           d == Diff(j, i)
<1>0. Diff(j, i) \in Index
  BY DiffIs
<1>1. /\ d \in Nat /\ d < Wrap /\ k \in Nat /\ k <= d /\ Plus(i, k) \in Index
      /\ Diff(Plus(i, k), i) = k /\ Diff(j, Plus(i, k)) = d - k
  <2>1. d \in Nat /\ d < Wrap /\ k \in Nat /\ k <= d
    BY <1>0, ConsoleConstants DEF Index
  <2> QED BY <2>1, OnTheWay
<1>2. s \in Seq(Byte) /\ Len(s) = d /\ \A n \in 1..d : s[n] = At(in, Plus(i, n - 1))
  BY BytesIs
<1>3. t \in Seq(Byte) /\ Len(t) = k /\ \A n \in 1..k : t[n] = At(in, Plus(i, n - 1))
  BY <1>1, BytesIs
<1>4. /\ u \in Seq(Byte) /\ Len(u) = d - k
      /\ \A n \in 1..d-k : u[n] = At(in, Plus(Plus(i, k), n - 1))
  BY <1>1, BytesIs
<1> HIDE DEF s, t, u, d
<1>5. \A n \in 1..d-k : Plus(Plus(i, k), n - 1) = Plus(i, k + n - 1)
  <2> TAKE n \in 1..d-k
  <2>1. n - 1 \in Nat /\ k + (n - 1) < Wrap /\ k + (n - 1) = k + n - 1
    BY <1>1, ConsoleConstants
  <2> QED BY <1>1, <2>1, PlusPlus
<1>6. t = SubSeq(s, 1, k)
  BY <1>1, <1>2, <1>3
<1>7. \A n \in 1..d-k : u[n] = s[k + n]
  BY <1>1, <1>2, <1>4, <1>5
<1>8. u = SubSeq(s, k + 1, d)
  BY <1>1, <1>2, <1>4, <1>7
<1> QED BY <1>6, <1>8 DEF s, t, u, d

\* The bytes up to an index and those after it, together.
LEMMA BytesJoin ==
    ASSUME NEW in \in InputRec, NEW i \in Index, NEW j \in Index, NEW l \in Index,
           Diff(j, i) + Diff(l, j) < Wrap
    PROVE  Bytes(in, i, j) \o Bytes(in, j, l) = Bytes(in, i, l)
<1> DEFINE s == Bytes(in, i, l)
           k == Diff(j, i)
           d == Diff(l, i)
<1>1. d = k + Diff(l, j) /\ k \in Index /\ Diff(l, j) \in Index /\ d \in Index
  BY DiffDiff, DiffIs
<1>2. k \in 0..Diff(l, i) /\ k \in 0..Diff(j, i)
  BY <1>1, ConsoleConstants DEF Index
<1>3. Plus(i, k) = j
  BY <1>2, OnTheWay
<1>4. Bytes(in, i, j) = SubSeq(s, 1, k) /\ Bytes(in, j, l) = SubSeq(s, k + 1, d)
  BY <1>2, <1>3, BytesPart
<1>5. s \in Seq(Byte) /\ Len(s) = d
  BY BytesIs
<1> HIDE DEF s, k, d
<1>6. SubSeq(s, 1, k) \o SubSeq(s, k + 1, d) = s
  <2>1. k \in Nat /\ d \in Nat /\ k <= d
    BY <1>1, ConsoleConstants DEF Index
  <2> QED BY <1>5, <2>1
<1> QED BY <1>4, <1>6 DEF s

\* consoleintr stores a character.
Put(in, c) == [in EXCEPT !.buf[in.e % INPUT_BUF] = c, !.e = Plus(@, 1)]

\* Storing a character changes its own place in the buffer and no other that
\* is in use.
LEMMA PutAt ==
    ASSUME NEW in \in InputRec, NEW c \in Byte
    PROVE  /\ Put(in, c) \in InputRec
           /\ Put(in, c).e = Plus(in.e, 1) /\ Put(in, c).r = in.r /\ Put(in, c).w = in.w
           /\ At(Put(in, c), in.e) = c
           /\ \A i \in Index : Diff(in.e, i) \in 1..INPUT_BUF-1 => At(Put(in, c), i) = At(in, i)
<1> DEFINE x == in.e % INPUT_BUF
<1>0. in.e \in Index /\ 1 \in Index /\ in.buf \in [0..INPUT_BUF-1 -> Byte]
  BY ConsoleConstants DEF InputRec, Index
<1>1. x \in 0..INPUT_BUF-1
  BY <1>0, ConsoleConstants DEF Index
<1>2. Plus(in.e, 1) \in Index
  BY <1>0, PlusIs
<1>3. Put(in, c) = [in EXCEPT !.buf = [@ EXCEPT ![x] = c], !.e = Plus(@, 1)]
  BY DEF Put
<1> HIDE DEF x
<1>4. Put(in, c) \in InputRec /\ Put(in, c).buf = [in.buf EXCEPT ![x] = c]
  BY <1>0, <1>1, <1>2, <1>3 DEF InputRec
<1>5. Put(in, c).e = Plus(in.e, 1) /\ Put(in, c).r = in.r /\ Put(in, c).w = in.w
  BY <1>3 DEF InputRec
<1>6. At(Put(in, c), in.e) = c
  BY <1>0, <1>1, <1>4 DEF At, x
<1>7. ASSUME NEW i \in Index, Diff(in.e, i) \in 1..INPUT_BUF-1
      PROVE  At(Put(in, c), i) = At(in, i)
  <2>1. Diff(in.e, i) \in 0..Diff(in.e, i)
    BY <1>7
  <2>2. Plus(i, Diff(in.e, i)) = in.e
    BY <1>0, <2>1, OnTheWay
  <2>3. x # i % INPUT_BUF
    BY <1>7, <2>2, PlacesDiffer DEF x
  <2>4. i % INPUT_BUF \in 0..INPUT_BUF-1
    BY ConsoleConstants DEF Index
  <2> QED BY <1>0, <1>4, <2>3, <2>4 DEF At
<1> QED BY <1>4, <1>5, <1>6, <1>7

\* Storing a character leaves what is between two earlier indices alone.
LEMMA PutBytes ==
    ASSUME NEW in \in InputRec, NEW c \in Byte, NEW i \in Index, NEW j \in Index,
           Diff(j, i) + Diff(in.e, j) < INPUT_BUF
    PROVE  Bytes(Put(in, c), i, j) = Bytes(in, i, j)
<1> DEFINE s == Bytes(in, i, j)
           t == Bytes(Put(in, c), i, j)
           d == Diff(j, i)
<1>1. in.e \in Index /\ d \in Index /\ Diff(in.e, j) \in Index /\ Put(in, c) \in InputRec
  BY DiffIs, PutAt DEF InputRec
<1>2. Diff(in.e, i) = d + Diff(in.e, j)
  BY <1>1, DiffDiff, ConsoleConstants DEF Index
<1>3. s \in Seq(Byte) /\ Len(s) = d /\ \A n \in 1..d : s[n] = At(in, Plus(i, n - 1))
  BY BytesIs
<1>4. t \in Seq(Byte) /\ Len(t) = d /\ \A n \in 1..d : t[n] = At(Put(in, c), Plus(i, n - 1))
  BY <1>1, BytesIs
<1>5. ASSUME NEW n \in 1..d
      PROVE  At(Put(in, c), Plus(i, n - 1)) = At(in, Plus(i, n - 1))
  <2>1. n - 1 \in 0..Diff(in.e, i)
    BY <1>1, <1>2, ConsoleConstants DEF Index
  <2>2. Plus(i, n - 1) \in Index /\ Diff(in.e, Plus(i, n - 1)) = Diff(in.e, i) - (n - 1)
    BY <1>1, <2>1, OnTheWay
  <2>3. Diff(in.e, Plus(i, n - 1)) \in 1..INPUT_BUF-1
    BY <1>1, <1>2, <2>2, ConsoleConstants DEF Index
  <2> QED BY <2>2, <2>3, PutAt
<1> HIDE DEF s, t, d
<1>6. \A n \in 1..Len(s) : s[n] = t[n]
  BY <1>3, <1>4, <1>5
<1>7. s = t
  BY <1>3, <1>4, <1>6, SameSeq
<1> QED BY <1>7 DEF s, t

\* Storing a character appends it to what has been typed since an index.
LEMMA PutLine ==
    ASSUME NEW in \in InputRec, NEW c \in Byte, NEW j \in Index, Diff(in.e, j) < INPUT_BUF
    PROVE  /\ Diff(Plus(in.e, 1), j) = Diff(in.e, j) + 1
           /\ Bytes(Put(in, c), j, Plus(in.e, 1)) = Append(Bytes(in, j, in.e), c)
<1> DEFINE d == Diff(in.e, j)
           f == Plus(in.e, 1)
           s == Bytes(in, j, in.e)
           u == Bytes(Put(in, c), j, f)
<1>1. in.e \in Index /\ d \in Index /\ 1 \in Index /\ Put(in, c) \in InputRec
  <2>1. in.e \in Index
    BY DEF InputRec
  <2>2. 1 \in Index
    BY ConsoleConstants DEF Index
  <2> QED BY <2>1, <2>2, DiffIs, PutAt
<1>2. f \in Index /\ f = IF in.e + 1 < Wrap THEN in.e + 1 ELSE in.e + 1 - Wrap
  BY <1>1, PlusIs
<1>3. d = IF in.e >= j THEN in.e - j ELSE in.e - j + Wrap
  BY <1>1, DiffIs
<1>4. Diff(f, j) = IF f >= j THEN f - j ELSE f - j + Wrap
  BY <1>2, DiffIs
<1>5. Diff(f, j) = d + 1
  BY <1>1, <1>2, <1>3, <1>4, ConsoleConstants DEF Index
<1>6. s \in Seq(Byte) /\ Len(s) = d
  BY <1>1, BytesIs
<1>7. u \in Seq(Byte) /\ Len(u) = d + 1 /\ \A n \in 1..d+1 : u[n] = At(Put(in, c), Plus(j, n - 1))
  <2>1. /\ u \in Seq(Byte) /\ Len(u) = Diff(f, j)
        /\ \A n \in 1..Diff(f, j) : u[n] = At(Put(in, c), Plus(j, n - 1))
    BY <1>1, <1>2, BytesIs
  <2> HIDE DEF u, f, d
  <2> QED BY <1>5, <2>1
<1>8. Bytes(Put(in, c), j, in.e) = s
  <2>1. Diff(in.e, in.e) = 0
    <3>1. Diff(in.e, in.e) = IF in.e >= in.e THEN in.e - in.e ELSE in.e - in.e + Wrap
      BY <1>1, DiffIs
    <3> QED BY <1>1, <3>1, ConsoleConstants DEF Index
  <2>2. Diff(in.e, j) + Diff(in.e, in.e) < INPUT_BUF
    BY <1>1, <2>1, ConsoleConstants DEF Index
  <2> QED BY <1>1, <2>2, PutBytes
<1>9. \A n \in 1..d : s[n] = At(Put(in, c), Plus(j, n - 1))
  <2>1. \A n \in 1..d : Bytes(Put(in, c), j, in.e)[n] = At(Put(in, c), Plus(j, n - 1))
    BY <1>1, BytesIs
  <2> HIDE DEF s, d
  <2> QED BY <1>8, <2>1
<1>10. u[d + 1] = c
  <2>1. Plus(j, d) = in.e
    <3>1. d \in 0..Diff(in.e, j)
      BY <1>1, ConsoleConstants DEF Index
    <3> QED BY <1>1, <3>1, OnTheWay
  <2>2. d \in Nat /\ d + 1 \in 1..d+1 /\ d + 1 - 1 = d
    BY <1>1, ConsoleConstants DEF Index
  <2>3. u[d + 1] = At(Put(in, c), in.e)
    <3> HIDE DEF u, d
    <3>1. u[d + 1] = At(Put(in, c), Plus(j, d + 1 - 1))
      BY <1>7, <2>2
    <3> QED BY <2>1, <2>2, <3>1, Zenon
  <2> QED BY <2>3, PutAt
<1>11. d \in Nat
  BY <1>1, ConsoleConstants DEF Index
<1> HIDE DEF d, f, s, u
<1>12. \A n \in 1..d+1 : u[n] = Append(s, c)[n]
  BY <1>6, <1>7, <1>9, <1>10, <1>11
<1>13. u = Append(s, c)
  BY <1>6, <1>7, <1>11, <1>12
<1> QED BY <1>5, <1>13 DEF d, f, s, u

-----------------------------------------------------------------------------
(* The invariant.                                                           *)
PCs == {"user", "iunlock", "acquire", "sleep", "sleeping", "ilock", "return"}
Waits == {"iunlock", "acquire", "sleep", "sleeping"}
ProcRec == [pc : PCs, op : {"none", "read", "write"}, n : Nat, target : Nat,
            dst : Seq(Byte), killed : BOOLEAN]

\* What has been entered and the line being typed fit into the buffer, and the
\* line has no newline in it: one enters the line at once.
InputOK(in) ==
    /\ Diff(in.w, in.r) + Diff(in.e, in.w) <= INPUT_BUF
    /\ \A i \in 0..Diff(in.e, in.w)-1 : At(in, Plus(in.w, i)) # "nl"

\* A read that is not over wants more bytes, and has the others.
ProcOK(q) ==
    /\ q.pc = "user" => q.dst = <<>>
    /\ q.op = "read" /\ q.pc \in Waits => q.n > 0 /\ q.n + Len(q.dst) = q.target

\* Nobody sleeps, or is about to with cons.lock held, while there is input.
SleepOK ==
    \A p \in Proc : /\ proc[p].pc = "sleeping" => input.r = input.w
                    /\ proc[p].pc = "sleep" => lock = p /\ input.r = input.w

Inv == /\ input \in InputRec /\ InputOK(input)
       /\ proc \in [Proc -> ProcRec] /\ \A p \in Proc : ProcOK(proc[p])
       /\ SleepOK

-----------------------------------------------------------------------------
(* What the interrupt handler does to the buffer.                           *)

\* An index some way before another one.
LEMMA WayBack ==
    ASSUME NEW i \in Index, NEW j \in Index, NEW k \in 0..Diff(j, i)
    PROVE  Plus(j, -k) = Plus(i, Diff(j, i) - k)
<1>1. /\ Diff(j, i) \in Index /\ Wrap \in Nat
      /\ Diff(j, i) = IF j >= i THEN j - i ELSE j - i + Wrap
  BY DiffIs, ConsoleConstants
<1>2. k \in Index /\ Diff(j, i) - k \in Index
  BY <1>1 DEF Index
<1>3. Plus(j, -k) = IF j >= k THEN j - k ELSE j - k + Wrap
  BY <1>2, MinusIs
<1>4. Plus(i, Diff(j, i) - k) = IF i + (Diff(j, i) - k) < Wrap THEN i + (Diff(j, i) - k)
                                ELSE i + (Diff(j, i) - k) - Wrap
  BY <1>2, PlusIs
<1> QED BY <1>1, <1>2, <1>3, <1>4 DEF Index

\* Erasing the end of the line leaves its beginning, and what has been entered.
LEMMA Erased ==
    ASSUME NEW in \in InputRec, InputOK(in), NEW m \in 0..Diff(in.e, in.w), NEW new,
           new = [in EXCEPT !.e = Plus(in.w, m)]
    PROVE  /\ new \in InputRec /\ InputOK(new) /\ new.r = in.r /\ new.w = in.w
           /\ Bytes(new, new.r, new.w) = Bytes(in, in.r, in.w)
           /\ Bytes(new, new.w, new.e) = SubSeq(Bytes(in, in.w, in.e), 1, m)
<1>1. in.r \in Index /\ in.w \in Index /\ in.e \in Index
  BY DEF InputRec
<1>2. Plus(in.w, m) \in Index /\ Diff(Plus(in.w, m), in.w) = m
  BY <1>1, OnTheWay
<1>3. /\ new \in InputRec /\ new.r = in.r /\ new.w = in.w /\ new.e = Plus(in.w, m)
      /\ new.buf = in.buf
  BY <1>1, <1>2 DEF InputRec
<1>4. Diff(in.w, in.r) \in Nat /\ Diff(in.e, in.w) \in Nat
  BY <1>1, DiffIs, ConsoleConstants DEF Index
<1>5. \A i \in 0..m-1 : At(new, Plus(in.w, i)) # "nl"
  <2>1. \A i \in 0..m-1 : i \in 0..Diff(in.e, in.w)-1
    BY <1>4
  <2>2. \A i \in 0..m-1 : At(in, Plus(in.w, i)) # "nl"
    BY <2>1 DEF InputOK
  <2> QED BY <1>3, <2>2 DEF At
<1>6. Diff(in.w, in.r) + m <= INPUT_BUF
  BY <1>4, ConsoleConstants DEF InputOK
<1>7. InputOK(new)
  BY <1>2, <1>3, <1>5, <1>6 DEF InputOK
<1>8. Bytes(new, new.r, new.w) = Bytes(in, in.r, in.w)
  BY <1>3 DEF Bytes, At
<1>9. Bytes(new, new.w, new.e) = SubSeq(Bytes(in, in.w, in.e), 1, m)
  <2>1. Bytes(new, new.w, new.e) = Bytes(in, in.w, Plus(in.w, m))
    BY <1>3 DEF Bytes, At
  <2> QED BY <1>1, <2>1, BytesPart, Zenon
<1> QED BY <1>3, <1>7, <1>8, <1>9

\* Control-U erases the whole line.
LEMMA KillLine ==
    ASSUME NEW in \in InputRec, InputOK(in)
    PROVE  kill_line(in) = [in EXCEPT !.e = Plus(in.w, 0)]
<1> DEFINE keep(i) == i = in.w \/ At(in, Plus(i, -1)) = "nl"
           d == Diff(in.e, in.w)
           OK(k) == keep(Plus(in.e, -k)) /\ \A j \in 0..k-1 : ~keep(Plus(in.e, -j))
           back == CHOOSE k \in 0..d : OK(k)
<1>1. in.w \in Index /\ in.e \in Index
  BY DEF InputRec
<1>2. d \in Nat /\ d < Wrap
  <2>1. d \in Index
    BY <1>1, DiffIs
  <2> QED BY <2>1, ConsoleConstants DEF Index
<1>3. ASSUME NEW k \in 0..d-1 PROVE ~keep(Plus(in.e, -k))
  <2>1. k \in 0..d /\ d - k \in 0..d /\ d - k \in Nat /\ d - k > 0
    BY <1>2
  <2>2. Plus(in.e, -k) = Plus(in.w, d - k)
    BY <1>1, <2>1, WayBack
  <2>3. Plus(in.w, d - k) \in Index /\ Diff(Plus(in.w, d - k), in.w) = d - k
    BY <1>1, <2>1, OnTheWay
  <2>4. Plus(in.w, d - k) # in.w
    <3>1. Diff(in.w, in.w) = IF in.w >= in.w THEN in.w - in.w ELSE in.w - in.w + Wrap
      BY <1>1, DiffIs
    <3>2. Diff(in.w, in.w) = 0
      BY <1>1, <3>1, ConsoleConstants DEF Index
    <3> QED BY <2>1, <2>3, <3>2
  <2>5. Plus(Plus(in.w, d - k), -1) = Plus(in.w, d - k - 1)
    <3>1. 1 \in 0..Diff(Plus(in.w, d - k), in.w)
      BY <2>1, <2>3
    <3> QED BY <1>1, <2>3, <3>1, WayBack
  <2>6. d - k - 1 \in 0..d-1
    BY <1>2
  <2>7. At(in, Plus(in.w, d - k - 1)) # "nl"
    BY <2>6 DEF InputOK
  <2> QED BY <2>2, <2>4, <2>5, <2>7
<1>4. Plus(in.e, -d) = Plus(in.w, 0) /\ Plus(in.w, 0) = in.w
  <2>1. d \in 0..d /\ d - d = 0 /\ 0 \in Index
    BY <1>2, ConsoleConstants DEF Index
  <2>2. Plus(in.e, -d) = Plus(in.w, d - d)
    BY <1>1, <2>1, WayBack
  <2>3. Plus(in.w, 0) = IF in.w + 0 < Wrap THEN in.w + 0 ELSE in.w + 0 - Wrap
    BY <1>1, <2>1, PlusIs
  <2>4. Plus(in.w, 0) = in.w
    BY <1>1, <2>3, ConsoleConstants DEF Index
  <2> QED BY <2>1, <2>2, <2>4
<1>5. d \in 0..d /\ OK(d)
  BY <1>2, <1>3, <1>4
<1>6. \A k \in 0..d : OK(k) => k = d
  <2> TAKE k \in 0..d
  <2>1. CASE k = d
    BY <2>1
  <2>2. CASE k # d
    <3>1. k \in 0..d-1
      BY <1>2, <2>2
    <3> QED BY <1>3, <3>1
  <2> QED BY <2>1, <2>2
<1>7. back = d
  <2> HIDE DEF OK, d
  <2> QED BY <1>5, <1>6
<1>8. kill_line(in) = [in EXCEPT !.e = Plus(in.e, -back)]
  BY DEF kill_line
<1> QED BY <1>4, <1>7, <1>8

\* A character that is stored extends the line; the buffer is full when what
\* has been entered and the line fill it.
LEMMA Stored ==
    ASSUME NEW in \in InputRec, InputOK(in), Room(in), NEW c \in Byte
    PROVE  /\ Put(in, c) \in InputRec
           /\ Put(in, c).r = in.r /\ Put(in, c).w = in.w /\ Put(in, c).e = Plus(in.e, 1)
           /\ Bytes(Put(in, c), in.r, in.w) = Bytes(in, in.r, in.w)
           /\ Bytes(Put(in, c), in.w, Plus(in.e, 1)) = Append(Bytes(in, in.w, in.e), c)
           /\ Diff(Plus(in.e, 1), in.w) = Diff(in.e, in.w) + 1
           /\ Diff(in.w, in.r) + Diff(in.e, in.w) + 1 <= INPUT_BUF
           /\ (Plus(in.e, 1) = Plus(in.r, INPUT_BUF))
                <=> (Diff(in.w, in.r) + Diff(in.e, in.w) + 1 = INPUT_BUF)
<1> DEFINE x == Diff(in.w, in.r)
           y == Diff(in.e, in.w)
           f == Plus(in.e, 1)
<1>1. in.r \in Index /\ in.w \in Index /\ in.e \in Index
  BY DEF InputRec
<1>2. x \in Index /\ y \in Index
  BY <1>1, DiffIs
<1>3. x \in Nat /\ y \in Nat /\ INPUT_BUF \in Nat /\ Wrap \in Nat /\ INPUT_BUF < Wrap
  BY <1>2, ConsoleConstants DEF Index
<1>4. Diff(in.e, in.r) = x + y
  <2>1. x + y < Wrap
    BY <1>3 DEF InputOK
  <2> QED BY <1>1, <2>1, DiffDiff
<1>5. x + y < INPUT_BUF
  BY <1>4 DEF Room
<1>6. Bytes(Put(in, c), in.r, in.w) = Bytes(in, in.r, in.w)
  BY <1>1, <1>5, PutBytes
<1>7. /\ Diff(f, in.w) = y + 1
      /\ Bytes(Put(in, c), in.w, f) = Append(Bytes(in, in.w, in.e), c)
  <2>1. y < INPUT_BUF
    BY <1>3, <1>5
  <2> QED BY <1>1, <2>1, PutLine
<1>8. Diff(f, in.r) = x + y + 1
  <2>1. Diff(in.e, in.r) < INPUT_BUF
    BY <1>4, <1>5
  <2>2. Diff(f, in.r) = Diff(in.e, in.r) + 1
    BY <1>1, <2>1, PutLine
  <2> QED BY <1>4, <2>2
<1>9. (f = Plus(in.r, INPUT_BUF)) <=> (x + y + 1 = INPUT_BUF)
  <2>1. INPUT_BUF \in Index /\ 1 \in Index
    BY <1>3, ConsoleConstants DEF Index
  <2>2. f \in Index
    BY <1>1, <2>1, PlusIs
  <2>3. Diff(f, in.r) = IF f >= in.r THEN f - in.r ELSE f - in.r + Wrap
    BY <1>1, <2>2, DiffIs
  <2>4. Plus(in.r, INPUT_BUF) = IF in.r + INPUT_BUF < Wrap THEN in.r + INPUT_BUF
                                ELSE in.r + INPUT_BUF - Wrap
    BY <1>1, <2>1, PlusIs
  <2> HIDE DEF f, x, y
  <2> QED BY <1>1, <1>3, <1>8, <2>1, <2>2, <2>3, <2>4 DEF Index
<1>10. x + y + 1 <= INPUT_BUF
  BY <1>3, <1>5
<1> QED BY <1>6, <1>7, <1>9, <1>10, PutAt

\* A character that does not enter the line leaves the buffer in order.
LEMMA Typed ==
    ASSUME NEW in \in InputRec, InputOK(in), Room(in), NEW c \in Byte, c # "nl"
    PROVE  InputOK(Put(in, c))
<1> DEFINE y == Diff(in.e, in.w)
           put == Put(in, c)
<1>1. /\ put.r = in.r /\ put.w = in.w /\ put.e = Plus(in.e, 1)
      /\ Diff(Plus(in.e, 1), in.w) = y + 1
      /\ Diff(in.w, in.r) + y + 1 <= INPUT_BUF
  BY Stored
<1>2. in.r \in Index /\ in.w \in Index /\ in.e \in Index
  BY DEF InputRec
<1>3. y \in Index /\ Diff(in.w, in.r) \in Index
  BY <1>2, DiffIs
<1>4. Wrap \in Nat /\ y \in Nat /\ Diff(in.w, in.r) \in Nat /\ INPUT_BUF \in Nat
  BY <1>3, ConsoleConstants DEF Index
<1>5. ASSUME NEW i \in 0..y PROVE At(put, Plus(in.w, i)) # "nl"
  <2>1. /\ Plus(in.w, i) \in Index /\ Diff(in.e, Plus(in.w, i)) = y - i
        /\ Plus(in.w, y) = in.e
    BY <1>2, OnTheWay
  <2>2. CASE i = y
    BY <2>1, <2>2, PutAt
  <2>3. CASE i # y
    <3>1. i \in 0..y-1 /\ y - i \in 1..INPUT_BUF-1
      BY <1>1, <1>4, <2>3
    <3>2. At(put, Plus(in.w, i)) = At(in, Plus(in.w, i))
      BY <2>1, <3>1, PutAt
    <3> QED BY <3>1, <3>2 DEF InputOK
  <2> QED BY <2>2, <2>3
<1> HIDE DEF y, put
<1>6. \A i \in 0..y+1-1 : At(put, Plus(in.w, i)) # "nl"
  BY <1>4, <1>5
<1>7. Diff(in.w, in.r) + (y + 1) <= INPUT_BUF
  BY <1>1, <1>4
<1>8. InputOK(put)
  <2>1. Diff(put.e, put.w) = y + 1 /\ Diff(put.w, put.r) = Diff(in.w, in.r) /\ put.w = in.w
    BY <1>1, Zenon
  <2>2. Diff(put.w, put.r) + Diff(put.e, put.w) <= INPUT_BUF
    BY <1>7, <2>1
  <2>3. \A i \in 0..Diff(put.e, put.w)-1 : At(put, Plus(put.w, i)) # "nl"
    <3> TAKE i \in 0..Diff(put.e, put.w)-1
    <3>1. At(put, Plus(in.w, i)) # "nl"
      BY <1>4, <1>6, <2>1
    <3> QED BY <2>1, <3>1
  <2> QED BY <2>2, <2>3 DEF InputOK
<1> QED BY <1>8 DEF put

\* A character that enters the line puts the line behind what has been entered.
LEMMA Entered ==
    ASSUME NEW in \in InputRec, InputOK(in), Room(in), NEW c \in Byte, NEW new,
           new = [Put(in, c) EXCEPT !.w = Put(in, c).e]
    PROVE  /\ new \in InputRec /\ InputOK(new)
           /\ Bytes(new, new.r, new.w)
                = Bytes(in, in.r, in.w) \o Append(Bytes(in, in.w, in.e), c)
           /\ Bytes(new, new.w, new.e) = <<>>
<1> DEFINE put == Put(in, c)
           f == Plus(in.e, 1)
           x == Diff(in.w, in.r)
           y == Diff(in.e, in.w)
<1>1. /\ put \in InputRec /\ put.r = in.r /\ put.w = in.w /\ put.e = f
      /\ Bytes(put, in.r, in.w) = Bytes(in, in.r, in.w)
      /\ Bytes(put, in.w, f) = Append(Bytes(in, in.w, in.e), c)
      /\ Diff(f, in.w) = y + 1 /\ x + y + 1 <= INPUT_BUF
  BY Stored
<1>2. in.r \in Index /\ in.w \in Index /\ f \in Index
  BY <1>1 DEF InputRec
<1>3. x \in Index /\ Diff(f, in.w) \in Index
  BY <1>2, DiffIs
<1>4. in.e \in Index
  BY DEF InputRec
<1>5. y \in Index
  BY <1>2, <1>4, DiffIs
<1>6. x \in Nat /\ y \in Nat /\ INPUT_BUF \in Nat /\ Wrap \in Nat /\ INPUT_BUF < Wrap
  BY <1>3, <1>5, ConsoleConstants DEF Index
<1> HIDE DEF put, f, x, y
<1>7. /\ new \in InputRec /\ new.r = in.r /\ new.w = f /\ new.e = f /\ new.buf = put.buf
  BY <1>1, <1>2 DEF InputRec, put
<1>8. Diff(in.w, in.r) + Diff(f, in.w) < Wrap /\ Diff(in.w, in.r) + Diff(f, in.w) <= INPUT_BUF
  BY <1>1, <1>6 DEF x
<1>9. Bytes(put, in.r, in.w) \o Bytes(put, in.w, f) = Bytes(put, in.r, f)
  BY <1>1, <1>2, <1>8, BytesJoin
<1>10. Bytes(new, new.r, new.w) = Bytes(put, in.r, f)
  BY <1>7 DEF Bytes, At
<1>11. Bytes(new, new.w, new.e) = <<>>
  BY <1>2, <1>7, BytesEmpty
<1>12. InputOK(new)
  <2>1. Diff(f, f) = IF f >= f THEN f - f ELSE f - f + Wrap
    BY <1>2, DiffIs
  <2>2. Diff(f, f) = 0
    BY <1>2, <2>1, ConsoleConstants DEF Index
  <2>3. Diff(f, in.r) = Diff(in.w, in.r) + Diff(f, in.w)
    BY <1>2, <1>8, DiffDiff
  <2>4. Diff(f, in.r) + 0 <= INPUT_BUF
    BY <1>1, <1>6, <2>3 DEF x
  <2> QED BY <1>7, <2>2, <2>4 DEF InputOK
<1> QED BY <1>1, <1>7, <1>9, <1>10, <1>11, <1>12

-----------------------------------------------------------------------------
(* What consoleread takes from the buffer.                                  *)

\* How many bytes the loop copies when it stops after i, and how many are gone.
Took(in, n, i) == IF i < Most(in, n) /\ At(in, Plus(in.r, i)) # "D" THEN i + 1 ELSE i
Gone(in, n, target, i) ==
    IF i < Most(in, n) /\ At(in, Plus(in.r, i)) = "D" /\ n - i = target THEN i + 1
    ELSE Took(in, n, i)

\* The loop in terms of the bytes that are ready.
LEMMA LoopReads ==
    ASSUME NEW in \in InputRec, NEW n \in Nat, NEW i \in 0..Most(in, n), Stops(in, n, i),
           NEW ready, ready = Bytes(in, in.r, in.w)
    PROVE  /\ ready \in Seq(Byte) /\ Len(ready) = Diff(in.w, in.r)
           /\ Most(in, n) \in Nat /\ Most(in, n) <= n /\ Most(in, n) <= Len(ready)
           /\ Most(in, n) = n \/ Most(in, n) = Len(ready)
           /\ i \in Nat /\ i <= Most(in, n)
           /\ \A j \in 1..i : ready[j] \notin {"nl", "D"}
           /\ i < Most(in, n) => /\ ready[i + 1] = At(in, Plus(in.r, i))
                                 /\ ready[i + 1] \in {"nl", "D"}
<1> DEFINE d == Diff(in.w, in.r)
           m == Most(in, n)
<1>1. in.r \in Index /\ in.w \in Index
  BY DEF InputRec
<1>2. d \in Index
  BY <1>1, DiffIs
<1>3. d \in Nat
  BY <1>2, ConsoleConstants DEF Index
<1>4. /\ ready \in Seq(Byte) /\ Len(ready) = d
      /\ \A k \in 1..d : ready[k] = At(in, Plus(in.r, k - 1))
  BY <1>1, BytesIs
<1>5. m \in Nat /\ m <= n /\ m <= d /\ (m = n \/ m = d)
  BY <1>3 DEF Most
<1> HIDE DEF m, d
<1>6. i \in Nat /\ i <= m
  BY <1>5 DEF m
<1>7. ASSUME NEW j \in 1..i PROVE ready[j] \notin {"nl", "D"}
  <2>1. j - 1 \in 0..i-1 /\ j \in 1..d
    BY <1>3, <1>5, <1>6
  <2>2. ~Ends(in, j - 1)
    BY <2>1 DEF Stops
  <2> QED BY <1>4, <2>1, <2>2 DEF Ends
<1>8. ASSUME i < m PROVE ready[i + 1] = At(in, Plus(in.r, i)) /\ ready[i + 1] \in {"nl", "D"}
  <2>1. i + 1 \in 1..d /\ i + 1 - 1 = i /\ i # m
    BY <1>3, <1>5, <1>6, <1>8
  <2>2. Ends(in, i)
    BY <2>1 DEF Stops, m
  <2>3. ready[i + 1] = At(in, Plus(in.r, i))
    BY <1>4, <1>6, <2>1
  <2> QED BY <2>2, <2>3 DEF Ends
<1> QED BY <1>4, <1>5, <1>6, <1>7, <1>8 DEF m, d

\* s is what is left of in after a read takes k of the bytes that are ready, of
\* which g are gone: the rest is ready then, and the line is as it was.
Taken(in, ready, line, dst, s, k, g) ==
    /\ k \in Nat /\ k <= Len(ready) /\ g \in 0..Len(ready)
    /\ s.in \in InputRec /\ InputOK(s.in)
    /\ s.in.w = in.w /\ s.in.r = Plus(in.r, g)
    /\ s.dst = dst \o SubSeq(ready, 1, k)
    /\ Bytes(s.in, s.in.r, s.in.w) = SubSeq(ready, g + 1, Len(ready))
    /\ Bytes(s.in, s.in.w, s.in.e) = line
    /\ ~s.over => s.in.r = in.w

\* consoleread takes a prefix of what is ready, leaves the rest, and if its call
\* is not over has taken all of it.
LEMMA Reads ==
    ASSUME NEW in \in InputRec, InputOK(in), NEW n \in Nat, NEW target \in Nat,
           NEW dst \in Seq(Byte), NEW i \in 0..Most(in, n), Stops(in, n, i)
    PROVE  /\ Took(in, n, i) <= n
           /\ Copied(in, n, target, dst, i).n = n - Took(in, n, i)
           /\ Copied(in, n, target, dst, i).over <=> (i < Most(in, n) \/ Took(in, n, i) = n)
           /\ Taken(in, Bytes(in, in.r, in.w), Bytes(in, in.w, in.e), dst,
                    Copied(in, n, target, dst, i), Took(in, n, i), Gone(in, n, target, i))
<1> DEFINE ready == Bytes(in, in.r, in.w)
           k == Took(in, n, i)
           g == Gone(in, n, target, i)
           s == Copied(in, n, target, dst, i)
<1> DEFINE d == Diff(in.w, in.r)
           m == Most(in, n)
<1>1. in.r \in Index /\ in.w \in Index /\ in.e \in Index
  BY DEF InputRec
<1>2. /\ ready \in Seq(Byte) /\ Len(ready) = d
      /\ m \in Nat /\ m <= n /\ m <= d /\ (m = n \/ m = d)
      /\ i \in Nat /\ i <= m
  BY LoopReads
<1>3. d \in Nat
  BY <1>2
<1>4. k \in Nat /\ k <= m /\ g \in Nat /\ g <= m /\ (~(i < m) => k = m /\ g = m)
  <2> HIDE DEF m, ready
  <2>1. k = IF i < m /\ At(in, Plus(in.r, i)) # "D" THEN i + 1 ELSE i
    BY DEF Took, m
  <2>2. g = IF i < m /\ At(in, Plus(in.r, i)) = "D" /\ n - i = target THEN i + 1 ELSE k
    BY DEF Gone, m
  <2> QED BY <1>2, <2>1, <2>2
<1>5. k \in 0..d /\ g \in 0..d
  <2> HIDE DEF k, g, d, m, ready
  <2> QED BY <1>2, <1>3, <1>4
<1>6. /\ s.in = [in EXCEPT !.r = Plus(in.r, g)] /\ s.n = n - k
      /\ s.dst = dst \o Bytes(in, in.r, Plus(in.r, k))
      /\ s.over = (i < m \/ k = n)
  BY <1>2 DEF Copied, Took, Gone
<1> HIDE DEF k, g, s
<1>7. Bytes(in, in.r, Plus(in.r, k)) = SubSeq(ready, 1, k)
  BY <1>1, <1>5, BytesPart
<1>8. Bytes(in, Plus(in.r, g), in.w) = SubSeq(ready, g + 1, d)
  BY <1>1, <1>5, BytesPart
<1>9. /\ Plus(in.r, g) \in Index /\ Diff(in.w, Plus(in.r, g)) = d - g
      /\ Plus(in.r, d) = in.w
  BY <1>1, <1>5, OnTheWay
<1> HIDE DEF d, m, ready
<1>10. /\ s.in \in InputRec /\ s.in.r = Plus(in.r, g) /\ s.in.w = in.w /\ s.in.e = in.e
       /\ s.in.buf = in.buf
  BY <1>6, <1>9 DEF InputRec
<1>11. Bytes(s.in, s.in.r, s.in.w) = Bytes(in, Plus(in.r, g), in.w)
  BY <1>10 DEF Bytes, At
<1>12. Bytes(s.in, s.in.w, s.in.e) = Bytes(in, in.w, in.e)
  BY <1>10 DEF Bytes, At
<1>13. InputOK(s.in)
  <2>1. Diff(in.e, in.w) \in Index
    BY <1>1, DiffIs
  <2>2. Diff(in.e, in.w) \in Nat /\ INPUT_BUF \in Nat
    BY <2>1, ConsoleConstants DEF Index
  <2>3. d - g + Diff(in.e, in.w) <= INPUT_BUF
    BY <1>3, <1>4, <2>2 DEF InputOK, d
  <2>4. \A j \in 0..Diff(in.e, in.w)-1 : At(s.in, Plus(in.w, j)) # "nl"
    BY <1>10 DEF InputOK, At
  <2> QED BY <1>9, <1>10, <2>3, <2>4 DEF InputOK
<1>14. ASSUME ~s.over PROVE s.in.r = in.w
  <2>1. ~(i < m) /\ k # n
    BY <1>6, <1>14
  <2>2. g = d
    BY <1>2, <1>4, <2>1
  <2> QED BY <1>9, <1>10, <2>2
<1>15. k \in Nat /\ k <= n /\ k <= Len(ready) /\ g \in 0..Len(ready)
  BY <1>2, <1>3, <1>4, <1>5
<1>16. Bytes(s.in, s.in.r, s.in.w) = SubSeq(ready, g + 1, Len(ready))
  BY <1>2, <1>8, <1>11, Zenon
<1>17. s.dst = dst \o SubSeq(ready, 1, k)
  BY <1>6, <1>7, Zenon
<1>18. Taken(in, ready, Bytes(in, in.w, in.e), dst, s, k, g)
  BY <1>10, <1>12, <1>13, <1>14, <1>15, <1>16, <1>17, Zenon DEF Taken
<1> QED BY <1>6, <1>15, <1>18, Zenon DEF ready, k, g, s, m

-----------------------------------------------------------------------------
(* Every step keeps the invariant and is a step of the line discipline.     *)
Ready == Bytes(input, input.r, input.w)
Line == Bytes(input, input.w, input.e)
Want == [p \in Proc |-> Asks(p)]
Got == [p \in Proc |-> proc[p].dst]
Killed == [p \in Proc |-> proc[p].killed]

\* What the readers want, have and are told is the same.
SameReaders == Want' = Want /\ Got' = Got /\ Killed' = Killed

\* wakeup changes where sleepers are, and nothing that they want or have.
LEMMA WakeupKeeps ==
    ASSUME Inv, proc' = Woken
    PROVE  /\ proc' \in [Proc -> ProcRec] /\ \A p \in Proc : ProcOK(proc'[p])
           /\ \A p \in Proc : /\ proc'[p].pc # "sleeping"
                              /\ proc'[p].pc = "sleep" => proc[p].pc = "sleep"
           /\ SameReaders
<1>1. ASSUME NEW p \in Proc
      PROVE  /\ proc'[p] \in ProcRec /\ ProcOK(proc'[p]) /\ proc'[p].pc # "sleeping"
             /\ proc'[p].pc = "sleep" => proc[p].pc = "sleep"
             /\ Asks(p)' = Asks(p) /\ proc'[p].dst = proc[p].dst
             /\ proc'[p].killed = proc[p].killed
  <2>1. proc[p] \in ProcRec /\ ProcOK(proc[p])
    BY DEF Inv
  <2>2. CASE proc[p].pc = "sleeping"
    <3>1. proc'[p] = [proc[p] EXCEPT !.pc = "acquire"]
      BY <2>2 DEF Woken
    <3> QED BY <2>1, <2>2, <3>1 DEF ProcRec, PCs, ProcOK, Waits, Asks
  <2>3. CASE proc[p].pc # "sleeping"
    <3>1. proc'[p] = proc[p]
      BY <2>3 DEF Woken
    <3> QED BY <2>1, <2>3, <3>1 DEF Asks
  <2> QED BY <2>2, <2>3
<1>2. proc' \in [Proc -> ProcRec]
  <2>1. DOMAIN proc' = Proc /\ proc' = [p \in Proc |-> proc'[p]]
    BY DEF Woken
  <2> QED BY <1>1, <2>1
<1> QED BY <1>1, <1>2 DEF SameReaders, Want, Got, Killed

\* A step that leaves the readers alone.
LEMMA ReadersSame ==
    ASSUME UNCHANGED proc
    PROVE  SameReaders
BY DEF SameReaders, Want, Got, Killed, Asks

\* A character of an interrupt.
LEMMA IntrStep ==
    ASSUME Inv, NEW c \in Keys, consoleintr(c)
    PROVE  Inv' /\ [L!Next]_L!vars
<1>0. /\ input \in InputRec /\ InputOK(input) /\ SleepOK
      /\ proc \in [Proc -> ProcRec] /\ \A p \in Proc : ProcOK(proc[p])
  BY DEF Inv
<1>1. \A p \in Proc : proc[p].pc # "sleep"
  <2>1. lock = 0
    BY DEF consoleintr
  <2> QED BY <1>0, <2>1, ConsoleConstants DEF SleepOK
<1>2. ASSUME NEW m \in 0..Diff(input.e, input.w), UNCHANGED proc,
             input' = [input EXCEPT !.e = Plus(input.w, m)],
             m \in {0, Diff(input.e, input.w) - 1}
      PROVE  Inv' /\ [L!Next]_L!vars
  <2>1. /\ input' \in InputRec /\ InputOK(input') /\ input'.r = input.r /\ input'.w = input.w
        /\ Ready' = Ready /\ Line' = SubSeq(Line, 1, m)
    <3> DEFINE new == [input EXCEPT !.e = Plus(input.w, m)]
    <3>1. /\ new \in InputRec /\ InputOK(new) /\ new.r = input.r /\ new.w = input.w
          /\ Bytes(new, new.r, new.w) = Bytes(input, input.r, input.w)
          /\ Bytes(new, new.w, new.e) = SubSeq(Bytes(input, input.w, input.e), 1, m)
      BY <1>0, Erased
    <3>2. input' = new
      BY <1>2
    <3> HIDE DEF new
    <3> QED BY <3>1, <3>2, Zenon DEF Ready, Line
  <2>2. Inv'
    BY <1>0, <1>1, <1>2, <2>1 DEF Inv, SleepOK
  <2>3. Line \in Seq(Byte) /\ Len(Line) = Diff(input.e, input.w)
    BY <1>0, BytesIs DEF Line, InputRec
  <2>4. SameReaders
    BY <1>2, ReadersSame
  <2>5. CASE Line = <<>>
    <3>1. Line' = Line
      BY <1>2, <2>1, <2>3, <2>5
    <3> QED BY <2>1, <2>2, <2>4, <3>1 DEF L!vars, SameReaders, Ready, Line, Want, Got, Killed
  <2>6. CASE Line # <<>>
    <3>1. Line' \in {<<>>, SubSeq(Line, 1, Len(Line) - 1)}
      BY <1>2, <2>1, <2>3
    <3>2. L!Erase
      BY <2>1, <2>4, <2>6, <3>1 DEF L!Erase, SameReaders, Ready, Line, Want, Got, Killed
    <3> QED BY <2>2, <3>2 DEF L!Next
  <2> QED BY <2>5, <2>6
<1>3. CASE c = "U"
  <2>1. input' = [input EXCEPT !.e = Plus(input.w, 0)] /\ UNCHANGED proc
    BY <1>0, <1>3, KillLine DEF consoleintr
  <2>2. 0 \in 0..Diff(input.e, input.w)
    BY <1>0, DiffIs, ConsoleConstants DEF InputRec, Index
  <2> QED BY <1>2, <2>1, <2>2
<1>4. CASE c = "H" /\ input.e # input.w
  <2>1. input' = [input EXCEPT !.e = Plus(input.e, -1)] /\ UNCHANGED proc
    BY <1>4 DEF consoleintr, backspace
  <2>2. input.e \in Index /\ input.w \in Index
    BY <1>0 DEF InputRec
  <2>3. Diff(input.e, input.w) = IF input.e >= input.w THEN input.e - input.w
                                 ELSE input.e - input.w + Wrap
    BY <2>2, DiffIs
  <2>4. /\ 1 \in 0..Diff(input.e, input.w)
        /\ Diff(input.e, input.w) - 1 \in 0..Diff(input.e, input.w)
    BY <1>4, <2>2, <2>3, ConsoleConstants DEF Index
  <2>5. Plus(input.e, -1) = Plus(input.w, Diff(input.e, input.w) - 1)
    BY <2>2, <2>4, WayBack
  <2> QED BY <1>2, <2>1, <2>4, <2>5
<1>5. ASSUME UNCHANGED <<input, proc>> PROVE Inv' /\ [L!Next]_L!vars
  <2>1. Inv'
    BY <1>0, <1>1, <1>5 DEF Inv, SleepOK
  <2>2. UNCHANGED L!vars
    BY <1>5 DEF L!vars, Asks
  <2> QED BY <2>1, <2>2
<1>6. CASE c \notin {"U", "H"} /\ Room(input)
  <2> DEFINE put == Put(input, c)
             full == Plus(input.e, 1) = Plus(input.r, INPUT_BUF)
             enters == c \in {"nl", "D"} \/ full
  <2>1. /\ c \in {"a", "b"} \cup L!Ends /\ c \in Byte
    BY <1>6 DEF Keys, Byte, L!Ends
  <2>2. /\ put \in InputRec /\ put.r = input.r /\ put.w = input.w /\ put.e = Plus(input.e, 1)
        /\ Bytes(put, input.r, input.w) = Ready
        /\ Bytes(put, input.w, Plus(input.e, 1)) = Append(Line, c)
        /\ Diff(input.w, input.r) + Diff(input.e, input.w) + 1 <= INPUT_BUF
        /\ full <=> (Diff(input.w, input.r) + Diff(input.e, input.w) + 1 = INPUT_BUF)
    BY <1>0, <1>6, <2>1, Stored DEF Ready, Line
  <2>3. /\ Ready \in Seq(Byte) /\ Len(Ready) = Diff(input.w, input.r)
        /\ Line \in Seq(Byte) /\ Len(Line) = Diff(input.e, input.w)
    BY <1>0, BytesIs DEF Ready, Line, InputRec
  <2>4. /\ Len(Ready \o Append(Line, c)) <= INPUT_BUF
        /\ full <=> Len(Ready \o Append(Line, c)) = INPUT_BUF
    <3> HIDE DEF full, put
    <3>1. Len(Append(Line, c)) = Len(Line) + 1 /\ Append(Line, c) \in Seq(Byte)
      BY <2>1, <2>3
    <3>2. Len(Ready \o Append(Line, c)) = Len(Ready) + Len(Line) + 1
      BY <2>3, <3>1
    <3> QED BY <2>2, <2>3, <3>2
  <2>5. IF enters THEN input' = [put EXCEPT !.w = put.e] /\ proc' = Woken
        ELSE input' = put /\ UNCHANGED proc
    BY <1>6, <2>2 DEF consoleintr, Enters, Put
  <2> HIDE DEF full
  <2>6. CASE enters
    <3>1. /\ input' \in InputRec /\ InputOK(input')
          /\ Ready' = Ready \o Append(Line, c) /\ Line' = <<>>
      BY <1>0, <1>6, <2>1, <2>5, <2>6, Entered DEF Ready, Line
    <3>2. /\ proc' \in [Proc -> ProcRec] /\ \A p \in Proc : ProcOK(proc'[p])
          /\ \A p \in Proc : /\ proc'[p].pc # "sleeping"
                             /\ proc'[p].pc = "sleep" => proc[p].pc = "sleep"
          /\ SameReaders
      BY <2>5, <2>6, WakeupKeeps
    <3>3. Inv'
      BY <1>1, <3>1, <3>2 DEF Inv, SleepOK
    <3>4. L!Enter(c)
      BY <2>4, <2>6, <3>1, <3>2 DEF L!Enter, L!Ends, SameReaders, Ready, Line, Want, Got, Killed
    <3> QED BY <2>1, <3>3, <3>4 DEF L!Next
  <2>7. CASE ~enters
    <3>1. InputOK(input') /\ input' = put /\ UNCHANGED proc
      BY <1>0, <1>6, <2>1, <2>5, <2>7, Typed
    <3>2. Ready' = Ready /\ Line' = Append(Line, c)
      BY <2>2, <3>1 DEF Ready, Line
    <3>3. Inv'
      BY <1>0, <1>1, <2>2, <3>1 DEF Inv, SleepOK
    <3>4. SameReaders
      BY <3>1, ReadersSame
    <3>5. L!Enter(c)
      BY <2>4, <2>7, <3>2, <3>4 DEF L!Enter, L!Ends, SameReaders, Ready, Line, Want, Got, Killed
    <3> QED BY <2>1, <3>3, <3>5 DEF L!Next
  <2> QED BY <2>6, <2>7
<1>7. CASE c \notin {"U", "H"} /\ ~Room(input)
  BY <1>5, <1>7 DEF consoleintr
<1>8. CASE c = "H" /\ input.e = input.w
  BY <1>5, <1>8 DEF consoleintr, backspace
<1> QED BY <1>3, <1>4, <1>6, <1>7, <1>8

\* The least element of a set of naturals that has one.
LEMMA MinIs ==
    ASSUME NEW S, S \subseteq Nat, NEW x \in S, \A y \in S : x <= y
    PROVE  L!Min(S) = x
<1>1. L!Min(S) \in S /\ \A y \in S : L!Min(S) <= y
  BY DEF L!Min
<1>2. L!Min(S) <= x /\ x <= L!Min(S) /\ L!Min(S) \in Nat /\ x \in Nat
  BY <1>1
<1> QED BY <1>2

\* The smaller of two naturals.
LEMMA MinPair ==
    ASSUME NEW a \in Nat, NEW b \in Nat
    PROVE  L!Min({a, b}) = IF a <= b THEN a ELSE b
<1> DEFINE S == {a, b}
           x == IF a <= b THEN a ELSE b
<1>1. S \subseteq Nat /\ x \in S /\ \A y \in S : x <= y
  OBVIOUS
<1> HIDE DEF S, x
<1>2. L!Min(S) = x
  BY <1>1, MinIs
<1> QED BY <1>2 DEF S, x

\* The ends among the first n bytes that are ready, as LineDiscipline has them.
EndsOf(ready, n) == {i \in 1..Len(ready) : i <= n /\ ready[i] \in L!Ends}

\* The loop stops at the first end that the read reaches.
LEMMA LoopEnds ==
    ASSUME NEW ready \in Seq(Byte), NEW n \in Nat, NEW m \in Nat, NEW i \in Nat,
           m <= n, m <= Len(ready), m = n \/ m = Len(ready), i <= m,
           \A j \in 1..i : ready[j] \notin {"nl", "D"},
           i < m => ready[i + 1] \in {"nl", "D"}
    PROVE  /\ EndsOf(ready, n) # {} <=> i < m
           /\ i < m => L!Min(EndsOf(ready, n)) = i + 1
<1> DEFINE S == EndsOf(ready, n)
<1>1. S = {j \in 1..Len(ready) : j <= n /\ ready[j] \in {"nl", "D"}}
  BY DEF EndsOf, L!Ends
<1> HIDE DEF S
<1>2. S \subseteq Nat /\ \A j \in S : i + 1 <= j /\ j <= m
  BY <1>1
<1>3. CASE i < m
  <2>1. i + 1 \in S
    BY <1>1, <1>3
  <2>2. L!Min(S) = i + 1
    BY <1>2, <2>1, MinIs
  <2> QED BY <1>3, <2>1, <2>2 DEF S
<1>4. CASE ~(i < m)
  BY <1>2, <1>4 DEF S
<1> QED BY <1>3, <1>4

\* What LineDiscipline's Take does: k bytes for the reader, and g are gone.
Takes(ready, n, dst, ended, k, g) ==
    LET stops == EndsOf(ready, n)
        eof   == ended /\ ready[L!Min(stops)] = "D"
    IN  /\ ended = (stops # {})
        /\ k = IF eof THEN L!Min(stops) - 1
               ELSE IF ended THEN L!Min(stops) ELSE L!Min({n, Len(ready)})
        /\ g = IF eof /\ dst \o SubSeq(ready, 1, k) = <<>> THEN 1 ELSE k

\* What LineDiscipline gives to a read is what the loop copies, and what is
\* gone then is gone from the buffer.
LEMMA LoopTakes ==
    ASSUME NEW in \in InputRec, NEW n \in Nat, NEW target \in Nat, NEW dst \in Seq(Byte),
           n > 0, n + Len(dst) = target, NEW i \in 0..Most(in, n), Stops(in, n, i)
    PROVE  Takes(Bytes(in, in.r, in.w), n, dst, i < Most(in, n),
                 Took(in, n, i), Gone(in, n, target, i))
<1> DEFINE ready == Bytes(in, in.r, in.w)
           stop  == L!Min(EndsOf(ready, n))
           ended == EndsOf(ready, n) # {}
           eof   == ended /\ ready[stop] = "D"
           k     == IF eof THEN stop - 1 ELSE IF ended THEN stop ELSE L!Min({n, Len(ready)})
           bytes == dst \o SubSeq(ready, 1, k)
           m     == Most(in, n)
<1>1. /\ ready \in Seq(Byte) /\ m \in Nat /\ m <= n /\ m <= Len(ready)
      /\ (m = n \/ m = Len(ready)) /\ i \in Nat /\ i <= m
      /\ \A j \in 1..i : ready[j] \notin {"nl", "D"}
      /\ i < m => /\ ready[i + 1] = At(in, Plus(in.r, i))
                  /\ ready[i + 1] \in {"nl", "D"}
  BY LoopReads
<1> HIDE DEF ready
<1>2. ~(i < m) => i = m
  <2> HIDE DEF m
  <2> QED BY <1>1
<1>3. (ended <=> i < m) /\ (i < m => stop = i + 1)
  <2> HIDE DEF m
  <2> QED BY <1>1, <1>2, LoopEnds
<1>4. L!Min({n, Len(ready)}) = IF n <= Len(ready) THEN n ELSE Len(ready)
  <2>1. Len(ready) \in Nat
    BY <1>1
  <2> QED BY <2>1, MinPair
<1>5. Took(in, n, i) = IF i < m /\ At(in, Plus(in.r, i)) # "D" THEN i + 1 ELSE i
  BY DEF Took
<1>6. Gone(in, n, target, i)
        = IF i < m /\ At(in, Plus(in.r, i)) = "D" /\ n - i = target THEN i + 1
          ELSE Took(in, n, i)
  BY DEF Gone
<1>7. k = Took(in, n, i)
  <2> HIDE DEF m, stop, ended
  <2>1. CASE i < m
    BY <1>1, <1>3, <1>5, <2>1
  <2>2. CASE ~(i < m)
    <3>1. ~ended /\ i = m
      BY <1>2, <1>3, <2>2
    <3>2. k = IF n <= Len(ready) THEN n ELSE Len(ready)
      BY <1>4, <3>1
    <3>3. k = m
      BY <1>1, <3>2
    <3> QED BY <1>5, <2>2, <3>1, <3>3
  <2> QED BY <2>1, <2>2
<1>8. (IF eof /\ bytes = <<>> THEN 1 ELSE k) = Gone(in, n, target, i)
  <2> HIDE DEF m, stop, ended
  <2>1. CASE i < m /\ At(in, Plus(in.r, i)) = "D"
    <3>1. eof /\ k = i
      BY <1>1, <1>3, <2>1
    <3>2. SubSeq(ready, 1, k) \in Seq(Byte) /\ Len(SubSeq(ready, 1, k)) = i
      BY <1>1, <3>1
    <3>3. Len(bytes) = Len(dst) + i /\ bytes \in Seq(Byte)
      <4> DEFINE t == SubSeq(ready, 1, k)
      <4>1. bytes = dst \o t
        OBVIOUS
      <4>2. t \in Seq(Byte) /\ Len(t) = i
        BY <3>2
      <4> HIDE DEF t, bytes
      <4>3. dst \o t \in Seq(Byte) /\ Len(dst \o t) = Len(dst) + Len(t)
        BY <4>2, Joined, Zenon
      <4> QED BY <4>1, <4>2, <4>3, Zenon
    <3> HIDE DEF bytes
    <3>4. (bytes = <<>>) <=> (n - i = target)
      <4>1. Len(dst) \in Nat
        OBVIOUS
      <4>2. (Len(bytes) = 0) <=> (n - i = target)
        BY <1>1, <3>3, <4>1
      <4>3. (bytes = <<>>) <=> (Len(bytes) = 0)
        BY <3>3
      <4> QED BY <4>2, <4>3
    <3>5. n - i = target => i = 0
      BY <1>1
    <3> QED BY <1>6, <1>7, <2>1, <3>1, <3>4, <3>5
  <2>2. CASE ~(i < m /\ At(in, Plus(in.r, i)) = "D")
    <3>1. ~eof
      BY <1>1, <1>3, <2>2
    <3> QED BY <1>6, <1>7, <2>2, <3>1
  <2> QED BY <2>1, <2>2
<1>9. /\ (i < m) = ended
      /\ Took(in, n, i) = k
      /\ Gone(in, n, target, i) = IF eof /\ dst \o SubSeq(ready, 1, Took(in, n, i)) = <<>> THEN 1
                                 ELSE Took(in, n, i)
  <2>1. (i < m) = ended
    BY <1>3
  <2> HIDE DEF k, eof
  <2>2. Gone(in, n, target, i) = IF eof /\ dst \o SubSeq(ready, 1, Took(in, n, i)) = <<>> THEN 1
                                 ELSE Took(in, n, i)
    BY <1>7, <1>8
  <2> QED BY <1>7, <2>1, <2>2
<1> QED BY <1>9, Zenon DEF Takes, ready, m

\* One process's record changes to q.
LEMMA ReaderChanges ==
    ASSUME Inv, NEW p \in Proc, NEW q, proc' = [proc EXCEPT ![p] = q]
    PROVE  /\ proc'[p] = q /\ \A r \in Proc \ {p} : proc'[r] = proc[r]
           /\ q \in ProcRec => proc' \in [Proc -> ProcRec]
           /\ Want' = [Want EXCEPT ![p] = Asks(p)']
           /\ Got' = [Got EXCEPT ![p] = q.dst]
           /\ Killed' = [Killed EXCEPT ![p] = q.killed]
<1>1. proc \in [Proc -> ProcRec]
  BY DEF Inv
<1>2. proc'[p] = q /\ \A r \in Proc \ {p} : proc'[r] = proc[r]
  BY <1>1
<1>3. q \in ProcRec => proc' \in [Proc -> ProcRec]
  BY <1>1
<1>4. \A r \in Proc \ {p} : Asks(r)' = Asks(r)
  BY <1>2 DEF Asks
<1>5. Want' = [Want EXCEPT ![p] = Asks(p)']
  BY <1>4 DEF Want
<1>6. Got' = [Got EXCEPT ![p] = q.dst]
  <2>1. \A r \in Proc : proc'[r].dst = IF r = p THEN q.dst ELSE proc[r].dst
    BY <1>2
  <2> QED BY <2>1, Zenon DEF Got
<1>7. Killed' = [Killed EXCEPT ![p] = q.killed]
  <2>1. proc'[p].killed = q.killed /\ \A r \in Proc \ {p} : proc'[r].killed = proc[r].killed
    BY <1>2
  <2> QED BY <2>1 DEF Killed
<1> QED BY <1>2, <1>3, <1>5, <1>6, <1>7

\* Want, Got and Killed of one process.
LEMMA ReaderIs ==
    ASSUME NEW p \in Proc
    PROVE  Want[p] = Asks(p) /\ Got[p] = proc[p].dst /\ Killed[p] = proc[p].killed
BY DEF Want, Got, Killed

\* LineDiscipline's Take with its local definitions named.
LEMMA TakeIs ==
    ASSUME NEW p \in Proc, NEW k, NEW g, NEW ended, Takes(Ready, Want[p], Got[p], ended, k, g),
           Want[p] > 0, Ready # <<>>,
           Ready' = SubSeq(Ready, g + 1, Len(Ready)),
           Got' = [Got EXCEPT ![p] = Got[p] \o SubSeq(Ready, 1, k)],
           Want' = [Want EXCEPT ![p] = IF ended \/ Killed[p] THEN 0 ELSE Want[p] - k],
           Line' = Line, Killed' = Killed
    PROVE  L!Take(p)
BY Zenon DEF L!Take, Takes, EndsOf, Ready, Line, Want, Got, Killed

\* One pass of consoleread's loop under cons.lock.
LEMMA ReadStep ==
    ASSUME Inv, NEW p \in Proc, consoleread(p)
    PROVE  Inv' /\ [L!Next]_L!vars
<1> DEFINE n == proc[p].n
           t == proc[p].target
           dst == proc[p].dst
<1>1. /\ input \in InputRec /\ InputOK(input) /\ SleepOK /\ lock = 0
      /\ proc[p] \in ProcRec /\ ProcOK(proc[p]) /\ \A q \in Proc : ProcOK(proc[q])
      /\ proc[p].pc = "acquire" /\ proc[p].op = "read"
  BY DEF Inv, consoleread
<1>2. n \in Nat /\ t \in Nat /\ dst \in Seq(Byte) /\ n > 0 /\ n + Len(dst) = t
  BY <1>1 DEF ProcRec, ProcOK, Waits
<1>3. Ready \in Seq(Byte) /\ Len(Ready) = Diff(input.w, input.r) /\ Len(Ready) \in Nat
  BY <1>1, BytesIs DEF Ready, InputRec
<1>4. Want[p] = n /\ Got[p] = dst /\ Killed[p] = proc[p].killed
  BY <1>1, ReaderIs DEF Asks
<1>5. \A r \in Proc \ {p} : /\ proc[r].pc # "sleep"
                            /\ proc[r].pc = "sleeping" => Ready = <<>> /\ input.r = input.w
  <2>1. \A r \in Proc : proc[r].pc # "sleep"
    BY <1>1, ConsoleConstants DEF SleepOK
  <2>2. input.r = input.w => Ready = <<>>
    <3>1. input.r \in Index /\ input.w \in Index
      BY <1>1 DEF InputRec
    <3> QED BY <1>1, <3>1, BytesEmpty DEF Ready
  <2> QED BY <1>1, <2>1, <2>2 DEF SleepOK
<1>6. PICK s \in Copy(input, n, t, dst) :
        LET waits == ~s.over /\ ~proc[p].killed
        IN  /\ input' = s.in
            /\ lock' = IF waits THEN p ELSE 0
            /\ proc' = [proc EXCEPT ![p] = [@ EXCEPT !.n = s.n, !.dst = s.dst,
                                            !.pc = IF waits THEN "sleep" ELSE "ilock"]]
  BY DEF consoleread
<1> DEFINE waits == ~s.over /\ ~proc[p].killed
           q == [proc[p] EXCEPT !.n = s.n, !.dst = s.dst, !.pc = IF waits THEN "sleep" ELSE "ilock"]
<1>7. /\ input' = s.in
      /\ lock' = IF waits THEN p ELSE 0
      /\ proc' = [proc EXCEPT ![p] = q]
  BY <1>6, Zenon
<1>8. t = proc[p].target
  OBVIOUS
<1> HIDE DEF n, t, dst, waits, q
<1>9. PICK i \in 0..Most(input, n) : Stops(input, n, i) /\ s = Copied(input, n, t, dst, i)
  BY DEF Copy
<1> DEFINE k == Took(input, n, i)
           g == Gone(input, n, t, i)
<1>10. /\ k <= n /\ s.n = n - k /\ (s.over <=> (i < Most(input, n) \/ k = n))
       /\ Taken(input, Ready, Line, dst, s, k, g)
  BY <1>1, <1>2, <1>9, Reads DEF Ready, Line
<1>11. Takes(Ready, n, dst, i < Most(input, n), k, g)
  BY <1>1, <1>2, <1>9, LoopTakes DEF Ready
<1> HIDE DEF k, g
<1>12. /\ k \in Nat /\ k <= Len(Ready) /\ g \in 0..Len(Ready)
       /\ s.in \in InputRec /\ InputOK(s.in)
       /\ s.in.w = input.w /\ s.in.r = Plus(input.r, g)
       /\ s.dst = dst \o SubSeq(Ready, 1, k)
       /\ Bytes(s.in, s.in.r, s.in.w) = SubSeq(Ready, g + 1, Len(Ready))
       /\ Bytes(s.in, s.in.w, s.in.e) = Line
       /\ ~s.over => s.in.r = input.w
  BY <1>10, Zenon DEF Taken
<1>13. s.n \in Nat /\ n - k \in Nat /\ Len(dst) \in Nat /\ k \in Nat
  BY <1>2, <1>10, <1>12
<1>14. s.dst \in Seq(Byte) /\ Len(s.dst) = Len(dst) + k
  <2> DEFINE u == SubSeq(Ready, 1, k)
  <2>1. u \in Seq(Byte) /\ Len(u) = k
    BY <1>3, <1>12
  <2> HIDE DEF u
  <2>2. dst \o u \in Seq(Byte) /\ Len(dst \o u) = Len(dst) + Len(u)
    BY <1>2, <2>1, Joined
  <2>3. s.dst = dst \o u
    BY <1>12 DEF u
  <2> QED BY <2>1, <2>2, <2>3, Zenon
<1>15. /\ q \in ProcRec /\ q.n = n - k /\ q.dst = s.dst /\ q.killed = proc[p].killed
       /\ q.op = "read" /\ q.target = t /\ q.pc = IF waits THEN "sleep" ELSE "ilock"
  BY <1>1, <1>8, <1>10, <1>13, <1>14 DEF ProcRec, PCs, q
<1>16. /\ proc'[p] = q /\ \A r \in Proc \ {p} : proc'[r] = proc[r]
       /\ proc' \in [Proc -> ProcRec]
       /\ Want' = [Want EXCEPT ![p] = Asks(p)']
       /\ Got' = [Got EXCEPT ![p] = q.dst]
       /\ Killed' = [Killed EXCEPT ![p] = q.killed]
  BY <1>7, <1>15, ReaderChanges
<1>17. ProcOK(q)
  <2>1. q.pc # "user" /\ (q.pc \in Waits => waits)
    BY <1>15 DEF Waits
  <2>2. waits => n - k > 0
    BY <1>2, <1>10, <1>12 DEF waits
  <2>3. n - k + Len(s.dst) = t
    <3>1. n \in Nat /\ n + Len(dst) = t
      BY <1>2
    <3>2. n - k + (Len(dst) + k) = t
      BY <1>13, <3>1
    <3> QED BY <1>14, <3>2
  <2> QED BY <1>15, <2>1, <2>2, <2>3 DEF ProcOK
<1>18. SleepOK'
  <2>1. ASSUME NEW r \in Proc \ {p}, proc[r].pc = "sleeping" PROVE input'.r = input'.w
    <3>1. input.r = input.w /\ Len(Ready) = 0 /\ g = 0
      BY <1>5, <1>12, <2>1
    <3>2. input.r \in Index /\ 0 \in Index
      BY <1>1, ConsoleConstants DEF InputRec, Index
    <3>3. Plus(input.r, 0) = IF input.r + 0 < Wrap THEN input.r + 0 ELSE input.r + 0 - Wrap
      BY <3>2, PlusIs
    <3>4. Plus(input.r, 0) = input.r
      BY <3>2, <3>3, ConsoleConstants DEF Index
    <3> QED BY <1>7, <1>12, <3>1, <3>4
  <2>2. proc'[p].pc # "sleeping" /\ (proc'[p].pc = "sleep" => waits)
    BY <1>15, <1>16
  <2>3. waits => lock' = p /\ input'.r = input'.w
    BY <1>7, <1>12 DEF waits
  <2> QED BY <1>5, <1>16, <2>1, <2>2, <2>3 DEF SleepOK
<1>19. Inv'
  <2>1. input' \in InputRec /\ InputOK(input')
    BY <1>7, <1>12
  <2>2. \A r \in Proc : ProcOK(proc'[r])
    BY <1>1, <1>16, <1>17
  <2> QED BY <1>16, <1>18, <2>1, <2>2 DEF Inv
<1>20. Asks(p)' = IF waits THEN n - k ELSE 0
  BY <1>15, <1>16 DEF Asks
<1>21. Ready' = SubSeq(Ready, g + 1, Len(Ready)) /\ Line' = Line
  <2>1. Ready' = Bytes(input', input'.r, input'.w) /\ Line' = Bytes(input', input'.w, input'.e)
    BY DEF Ready, Line
  <2> QED BY <1>7, <1>12, <2>1, Zenon
<1>22. Killed' = Killed
  BY <1>15, <1>16 DEF Killed
<1>23. CASE Ready = <<>>
  <2>1. k = 0 /\ g = 0
    BY <1>12, <1>23
  <2>2. Ready' = Ready
    BY <1>21, <1>23, <2>1
  <2>3. Got' = Got
    <3>1. SubSeq(Ready, 1, k) = <<>>
      BY <1>23, <2>1
    <3>2. s.dst = dst \o <<>>
      BY <1>12, <3>1, Zenon
    <3>3. s.dst = Got[p]
      BY <1>2, <1>4, <3>2
    <3> QED BY <1>15, <1>16, <3>3 DEF Got
  <2>4. ~s.over
    <3>1. Most(input, n) = 0
      BY <1>2, <1>3, <1>23 DEF Most
    <3> QED BY <1>2, <1>9, <1>10, <2>1, <3>1
  <2>5. CASE proc[p].killed
    <3>1. Want' = [Want EXCEPT ![p] = 0]
      BY <1>16, <1>20, <2>5 DEF waits
    <3>2. Want[p] > 0 /\ Killed[p]
      BY <1>2, <1>4, <2>5
    <3>3. L!GiveUp(p)
      BY <1>21, <1>22, <1>23, <2>2, <2>3, <3>1, <3>2, Zenon
        DEF L!GiveUp, Ready, Line, Want, Got, Killed
    <3> QED BY <1>19, <3>3 DEF L!Next
  <2>6. CASE ~proc[p].killed
    <3>1. Asks(p)' = Want[p]
      BY <1>2, <1>4, <1>20, <2>1, <2>4, <2>6 DEF waits
    <3>2. Want' = Want
      BY <1>16, <3>1 DEF Want
    <3>3. UNCHANGED L!vars
      BY <1>21, <1>22, <2>2, <2>3, <3>2 DEF L!vars, Ready, Line, Want, Got, Killed
    <3> QED BY <1>19, <3>3
  <2> QED BY <2>5, <2>6
<1>24. CASE Ready # <<>>
  <2> DEFINE ended == i < Most(input, n)
  <2> HIDE DEF ended
  <2>1. Takes(Ready, n, dst, ended, k, g) /\ (s.over <=> (ended \/ k = n))
    BY <1>10, <1>11 DEF ended
  <2>2. Asks(p)' = IF ended \/ proc[p].killed THEN 0 ELSE n - k
    <3>1. CASE waits
      BY <1>20, <2>1, <3>1 DEF waits
    <3>2. CASE ~waits /\ (ended \/ proc[p].killed)
      BY <1>20, <3>2
    <3>3. CASE ~waits /\ ~(ended \/ proc[p].killed)
      <4>1. k = n
        BY <2>1, <3>3 DEF waits
      <4>2. n - k = 0
        BY <1>2, <4>1
      <4> QED BY <1>20, <3>3, <4>2
    <3> QED BY <3>1, <3>2, <3>3
  <2>3. Want' = [Want EXCEPT ![p] = IF ended \/ Killed[p] THEN 0 ELSE Want[p] - k]
    BY <1>4, <1>16, <2>2
  <2>4. Got' = [Got EXCEPT ![p] = Got[p] \o SubSeq(Ready, 1, k)]
    BY <1>4, <1>12, <1>15, <1>16
  <2>5. Want[p] > 0 /\ Takes(Ready, Want[p], Got[p], ended, k, g)
    BY <1>2, <1>4, <2>1
  <2>6. L!Take(p)
    BY <1>21, <1>22, <1>24, <2>3, <2>4, <2>5, TakeIs
  <2> QED BY <1>19, <2>6 DEF L!Next
<1> QED BY <1>23, <1>24

\* A step of one process that leaves the buffer alone.
LEMMA MoveStep ==
    ASSUME Inv, NEW p \in Proc, NEW q \in ProcRec, ProcOK(q), input' = input,
           proc' = [proc EXCEPT ![p] = q],
           q.pc \in {"sleep", "sleeping"} => input.r = input.w,
           q.pc = "sleep" => lock' = p,
           \A r \in Proc \ {p} : proc[r].pc = "sleep" => lock' = lock
    PROVE  Inv' /\ Ready' = Ready /\ Line' = Line
<1>1. /\ proc'[p] = q /\ \A r \in Proc \ {p} : proc'[r] = proc[r]
      /\ proc' \in [Proc -> ProcRec]
  BY ReaderChanges
<1>2. \A r \in Proc : ProcOK(proc'[r])
  BY <1>1 DEF Inv
<1>3. SleepOK'
  <2>1. ASSUME NEW r \in Proc \ {p}
        PROVE  /\ proc'[r].pc = "sleeping" => input'.r = input'.w
               /\ proc'[r].pc = "sleep" => lock' = r /\ input'.r = input'.w
    BY <1>1 DEF Inv, SleepOK
  <2>2. /\ proc'[p].pc = "sleeping" => input'.r = input'.w
        /\ proc'[p].pc = "sleep" => lock' = p /\ input'.r = input'.w
    BY <1>1
  <2> QED BY <2>1, <2>2 DEF SleepOK
<1>4. Inv'
  BY <1>1, <1>2, <1>3 DEF Inv
<1> QED BY <1>4 DEF Ready, Line

\* A step after which everything is as it was for the line discipline.
LEMMA Stutters ==
    ASSUME Inv, NEW p \in Proc, NEW q, proc' = [proc EXCEPT ![p] = q],
           Ready' = Ready, Line' = Line, Asks(p)' = Asks(p),
           q.dst = proc[p].dst, q.killed = proc[p].killed
    PROVE  UNCHANGED L!vars
<1>1. /\ Want' = [Want EXCEPT ![p] = Asks(p)']
      /\ Got' = [Got EXCEPT ![p] = q.dst]
      /\ Killed' = [Killed EXCEPT ![p] = q.killed]
  BY ReaderChanges
<1>2. Want[p] = Asks(p) /\ Got[p] = proc[p].dst /\ Killed[p] = proc[p].killed
  BY ReaderIs
<1>3. Want' = Want /\ Got' = Got /\ Killed' = Killed
  <2>1. /\ Want = [r \in Proc |-> Want[r]] /\ Got = [r \in Proc |-> Got[r]]
        /\ Killed = [r \in Proc |-> Killed[r]]
    BY DEF Want, Got, Killed
  <2>2. Want' = [Want EXCEPT ![p] = Want[p]]
    BY <1>1, <1>2, Zenon
  <2>3. Got' = [Got EXCEPT ![p] = Got[p]]
    BY <1>1, <1>2, Zenon
  <2>4. Killed' = [Killed EXCEPT ![p] = Killed[p]]
    BY <1>1, <1>2, Zenon
  <2> HIDE DEF Want, Got, Killed
  <2>5. Want' = Want
    BY <2>1, <2>2
  <2>6. Got' = Got
    BY <2>1, <2>3
  <2>7. Killed' = Killed
    BY <2>1, <2>4
  <2> QED BY <2>5, <2>6, <2>7
<1> QED BY <1>3 DEF L!vars, Ready, Line, Want, Got, Killed

\* iunlock, consolewrite and ilock move a process on, and nothing else that the
\* line discipline knows of.
LEMMA PassStep ==
    ASSUME Inv, NEW p \in Proc, iunlock(p) \/ consolewrite(p) \/ ilock(p)
    PROVE  Inv' /\ [L!Next]_L!vars
<1>1. PICK pc \in {"acquire", "ilock", "return"} :
        /\ proc' = [proc EXCEPT ![p].pc = pc] /\ input' = input /\ lock' = lock
        /\ \/ proc[p].pc = "iunlock" /\ pc = "acquire"
           \/ proc[p].pc = "acquire" /\ pc = "ilock" /\ proc[p].op = "write"
           \/ proc[p].pc = "ilock" /\ pc = "return"
  BY DEF iunlock, consolewrite, ilock, Goto
<1> DEFINE q == [proc[p] EXCEPT !.pc = pc]
<1>2. proc[p] \in ProcRec /\ ProcOK(proc[p])
  BY DEF Inv
<1>3. /\ q \in ProcRec /\ q.pc = pc /\ q.op = proc[p].op /\ q.n = proc[p].n
      /\ q.target = proc[p].target /\ q.dst = proc[p].dst /\ q.killed = proc[p].killed
  BY <1>2 DEF ProcRec, PCs
<1>4. ProcOK(q)
  BY <1>1, <1>2, <1>3 DEF ProcOK, Waits
<1>5. proc' = [proc EXCEPT ![p] = q]
  BY <1>1
<1> HIDE DEF q
<1>6. Inv' /\ Ready' = Ready /\ Line' = Line
  BY <1>1, <1>3, <1>4, <1>5, MoveStep
<1>7. proc'[p] = q
  BY <1>5, ReaderChanges
<1>8. Asks(p)' = Asks(p)
  BY <1>1, <1>3, <1>7 DEF Asks
<1>9. UNCHANGED L!vars
  BY <1>3, <1>5, <1>6, <1>8, Stutters
<1> QED BY <1>6, <1>9

\* sleep gives cons.lock back as it falls asleep.
LEMMA SleepStep ==
    ASSUME Inv, NEW p \in Proc, sleep(p)
    PROVE  Inv' /\ [L!Next]_L!vars
<1> DEFINE q == [proc[p] EXCEPT !.pc = "sleeping"]
<1>1. proc[p] \in ProcRec /\ ProcOK(proc[p]) /\ proc[p].pc = "sleep" /\ input' = input
  BY DEF Inv, sleep
<1>2. /\ q \in ProcRec /\ q.pc = "sleeping" /\ q.op = proc[p].op /\ q.n = proc[p].n
      /\ q.target = proc[p].target /\ q.dst = proc[p].dst /\ q.killed = proc[p].killed
  BY <1>1 DEF ProcRec, PCs
<1>3. ProcOK(q)
  BY <1>1, <1>2 DEF ProcOK, Waits
<1>4. proc' = [proc EXCEPT ![p] = q]
  BY DEF sleep, Goto
<1>5. input.r = input.w /\ \A r \in Proc \ {p} : proc[r].pc # "sleep"
  BY <1>1 DEF Inv, SleepOK
<1> HIDE DEF q
<1>6. Inv' /\ Ready' = Ready /\ Line' = Line
  BY <1>1, <1>2, <1>3, <1>4, <1>5, MoveStep
<1>7. proc'[p] = q
  BY <1>4, ReaderChanges
<1>8. Asks(p)' = Asks(p)
  BY <1>1, <1>2, <1>7 DEF Asks
<1>9. UNCHANGED L!vars
  BY <1>2, <1>4, <1>6, <1>8, Stutters
<1> QED BY <1>6, <1>9

\* A new read asks for bytes; a write asks for none.
LEMMA CallStep ==
    ASSUME Inv, NEW p \in Proc, NEW op \in {"read", "write"}, NEW n \in Nat, Call(p, op, n),
           op = "read" => n \in ReadSizes
    PROVE  Inv' /\ [L!Next]_L!vars
<1> DEFINE q == [proc[p] EXCEPT !.pc = "iunlock", !.op = op, !.n = n, !.target = n]
<1>1. /\ proc[p] \in ProcRec /\ ProcOK(proc[p]) /\ proc[p].pc = "user" /\ input' = input
      /\ lock' = lock
  BY DEF Inv, Call
<1>2. proc[p].dst = <<>> /\ Len(proc[p].dst) = 0
  BY <1>1 DEF ProcOK
<1>3. /\ q \in ProcRec /\ q.pc = "iunlock" /\ q.op = op /\ q.n = n
      /\ q.target = n /\ q.dst = proc[p].dst /\ q.killed = proc[p].killed
  BY <1>1 DEF ProcRec, PCs
<1>4. ProcOK(q)
  <2>1. op = "read" => n > 0
    BY ConsoleConstants
  <2>2. n + 0 = n
    OBVIOUS
  <2> HIDE DEF q
  <2> QED BY <1>2, <1>3, <2>1, <2>2 DEF ProcOK, Waits
<1>5. proc' = [proc EXCEPT ![p] = q]
  BY DEF Call
<1> HIDE DEF q
<1>6. Inv' /\ Ready' = Ready /\ Line' = Line
  BY <1>1, <1>3, <1>4, <1>5, MoveStep
<1>7. proc'[p] = q
  BY <1>5, ReaderChanges
<1>8. Asks(p) = 0 /\ Asks(p)' = IF op = "read" THEN n ELSE 0
  BY <1>1, <1>3, <1>7 DEF Asks
<1>9. CASE op = "write"
  <2>1. Asks(p)' = Asks(p)
    BY <1>8, <1>9
  <2>2. UNCHANGED L!vars
    BY <1>3, <1>5, <1>6, <2>1, Stutters
  <2> QED BY <1>6, <2>2
<1>10. CASE op = "read"
  <2>1. /\ Want' = [Want EXCEPT ![p] = n]
        /\ Got' = [Got EXCEPT ![p] = q.dst]
        /\ Killed' = [Killed EXCEPT ![p] = q.killed]
    BY <1>5, <1>8, <1>10, ReaderChanges
  <2>2. Want[p] = 0 /\ Got[p] = <<>> /\ Got[p] = q.dst /\ Killed[p] = q.killed
    BY <1>2, <1>3, <1>8, ReaderIs
  <2>3. Got' = Got
    <3>1. Got = [r \in Proc |-> Got[r]]
      BY DEF Got
    <3> QED BY <2>1, <2>2, <3>1
  <2>4. Killed' = Killed
    <3>1. Killed = [r \in Proc |-> Killed[r]]
      BY DEF Killed
    <3>2. Killed' = [Killed EXCEPT ![p] = Killed[p]]
      BY <2>1, <2>2, Zenon
    <3> QED BY <3>1, <3>2
  <2>5. L!Ask(p, n)
    BY <1>6, <2>1, <2>2, <2>3, <2>4, Zenon DEF L!Ask, Ready, Line, Want, Got, Killed
  <2>6. L!Next
    BY <1>10, <2>5 DEF L!Next
  <2> QED BY <1>6, <2>6
<1> QED BY <1>9, <1>10

\* The call returns, and the bytes are the program's.
LEMMA ReturnStep ==
    ASSUME Inv, NEW p \in Proc, Return(p)
    PROVE  Inv' /\ [L!Next]_L!vars
<1> DEFINE q == User(proc[p].killed)
<1>1. proc[p] \in ProcRec /\ proc[p].pc = "return" /\ input' = input /\ lock' = lock
  BY DEF Inv, Return
<1>2. /\ q \in ProcRec /\ q.pc = "user" /\ q.op = "none" /\ q.dst = <<>>
      /\ q.killed = proc[p].killed
  BY <1>1 DEF User, ProcRec, PCs
<1>3. ProcOK(q)
  BY <1>2 DEF ProcOK
<1>4. proc' = [proc EXCEPT ![p] = q]
  BY DEF Return
<1> HIDE DEF q
<1>5. Inv' /\ Ready' = Ready /\ Line' = Line
  BY <1>1, <1>2, <1>3, <1>4, MoveStep
<1>6. proc'[p] = q
  BY <1>4, ReaderChanges
<1>7. Asks(p) = 0 /\ Asks(p)' = 0
  BY <1>1, <1>2, <1>6 DEF Asks
<1>8. /\ Want' = [Want EXCEPT ![p] = 0]
      /\ Got' = [Got EXCEPT ![p] = <<>>]
      /\ Killed' = [Killed EXCEPT ![p] = q.killed]
  BY <1>2, <1>4, <1>7, ReaderChanges
<1>9. Want[p] = 0 /\ Killed[p] = q.killed
  BY <1>2, <1>7, ReaderIs
<1>10. Want' = Want
  <2>1. Want = [r \in Proc |-> Want[r]]
    BY DEF Want
  <2> QED BY <1>8, <1>9, <2>1
<1>11. Killed' = Killed
  <2>1. Killed = [r \in Proc |-> Killed[r]]
    BY DEF Killed
  <2>2. Killed' = [Killed EXCEPT ![p] = Killed[p]]
    BY <1>8, <1>9, Zenon
  <2> QED BY <2>1, <2>2
<1>12. L!Return(p)
  BY <1>5, <1>8, <1>9, <1>10, <1>11, Zenon DEF L!Return, Ready, Line, Want, Got, Killed
<1> QED BY <1>5, <1>12 DEF L!Next

\* kill wakes its victim, which still wants what it wanted.
LEMMA KillStep ==
    ASSUME Inv, NEW p \in Proc, kill(p)
    PROVE  Inv' /\ [L!Next]_L!vars
<1> DEFINE pc == IF proc[p].pc = "sleeping" THEN "acquire" ELSE proc[p].pc
           q == [proc[p] EXCEPT !.killed = TRUE, !.pc = pc]
<1>1. proc[p] \in ProcRec /\ ProcOK(proc[p]) /\ input' = input /\ lock' = lock
  BY DEF Inv, kill
<1>2. /\ q \in ProcRec /\ q.pc = pc /\ q.op = proc[p].op /\ q.n = proc[p].n
      /\ q.target = proc[p].target /\ q.dst = proc[p].dst /\ q.killed = TRUE
  BY <1>1 DEF ProcRec, PCs
<1>3. ProcOK(q)
  BY <1>1, <1>2 DEF ProcOK, Waits
<1>4. proc' = [proc EXCEPT ![p] = q]
  BY DEF kill
<1>5. /\ q.pc \in {"sleep", "sleeping"} => input.r = input.w
      /\ q.pc = "sleep" => lock' = p
  BY <1>1, <1>2 DEF Inv, SleepOK
<1>6. q.pc \in Waits <=> proc[p].pc \in Waits
  BY <1>2 DEF Waits
<1> HIDE DEF q, pc
<1>7. Inv' /\ Ready' = Ready /\ Line' = Line
  BY <1>1, <1>2, <1>3, <1>4, <1>5, MoveStep
<1>8. proc'[p] = q
  BY <1>4, ReaderChanges
<1>9. Asks(p)' = Asks(p)
  BY <1>2, <1>6, <1>8 DEF Asks, Waits
<1>10. /\ Want' = [Want EXCEPT ![p] = Want[p]]
       /\ Got' = [Got EXCEPT ![p] = Got[p]]
       /\ Killed' = [Killed EXCEPT ![p] = TRUE]
  <2>1. /\ Want' = [Want EXCEPT ![p] = Asks(p)']
        /\ Got' = [Got EXCEPT ![p] = q.dst]
        /\ Killed' = [Killed EXCEPT ![p] = q.killed]
    BY <1>4, ReaderChanges
  <2> QED BY <1>2, <1>9, <2>1, ReaderIs, Zenon
<1>11. Want' = Want
  <2>1. Want = [r \in Proc |-> Want[r]]
    BY DEF Want
  <2> QED BY <1>10, <2>1
<1>12. Got' = Got
  <2>1. Got = [r \in Proc |-> Got[r]]
    BY DEF Got
  <2> QED BY <1>10, <2>1
<1>13. L!Kill(p)
  BY <1>7, <1>10, <1>11, <1>12, Zenon DEF L!Kill, Ready, Line, Want, Got, Killed
<1> QED BY <1>7, <1>13 DEF L!Next

\* The start: everything has been read, and nobody is in a call.
LEMMA InitStep ==
    ASSUME Init
    PROVE  Inv /\ L!Init
<1>1. Start \in Index
  BY ConsoleConstants DEF Index
<1>2. Diff(Start, Start) = 0
  <2>1. Diff(Start, Start) = IF Start >= Start THEN Start - Start ELSE Start - Start + Wrap
    BY <1>1, DiffIs
  <2> QED BY <1>1, <2>1, ConsoleConstants DEF Index
<1>3. /\ input \in InputRec /\ input.r = Start /\ input.w = Start /\ input.e = Start
  BY <1>1 DEF Init, InputRec, Byte
<1>4. InputOK(input)
  BY <1>2, <1>3, ConsoleConstants DEF InputOK
<1>5. \A p \in Proc : proc[p] = User(FALSE)
  BY DEF Init
<1>6. /\ User(FALSE) \in ProcRec /\ User(FALSE).pc = "user" /\ User(FALSE).dst = <<>>
      /\ User(FALSE).op = "none" /\ User(FALSE).killed = FALSE
  BY DEF User, ProcRec, PCs
<1>7. proc \in [Proc -> ProcRec] /\ \A p \in Proc : ProcOK(proc[p])
  <2>1. ProcOK(User(FALSE))
    BY <1>6 DEF ProcOK
  <2> QED BY <1>5, <1>6, <2>1 DEF Init
<1>8. SleepOK
  BY <1>5, <1>6 DEF SleepOK
<1>9. Ready = <<>> /\ Line = <<>>
  BY <1>1, <1>3, BytesEmpty DEF Ready, Line
<1>10. Want = [p \in Proc |-> 0] /\ Got = [p \in Proc |-> <<>>]
  BY <1>5, <1>6 DEF Want, Got, Asks
<1>11. Killed = [p \in Proc |-> FALSE]
  BY <1>5, <1>6 DEF Killed
<1>12. L!Init
  BY <1>9, <1>10, <1>11 DEF L!Init, Ready, Line, Want, Got, Killed
<1> QED BY <1>3, <1>4, <1>7, <1>8, <1>12 DEF Inv

\* Every step.
LEMMA NextStep ==
    ASSUME Inv, [Next]_vars
    PROVE  Inv' /\ [L!Next]_L!vars
<1>1. ASSUME NEW c \in Keys, consoleintr(c) PROVE Inv' /\ [L!Next]_L!vars
  BY <1>1, IntrStep
<1>2. ASSUME NEW p \in Proc, Step(p) PROVE Inv' /\ [L!Next]_L!vars
  BY <1>2, PassStep, ReadStep, SleepStep, ReturnStep DEF Step
<1>3. ASSUME NEW p \in Proc, NEW n \in ReadSizes, Call(p, "read", n)
      PROVE  Inv' /\ [L!Next]_L!vars
  <2>1. n \in Nat
    BY ConsoleConstants
  <2> QED BY <1>3, <2>1, CallStep
<1>4. ASSUME NEW p \in Proc, Call(p, "write", 0) PROVE Inv' /\ [L!Next]_L!vars
  <2>1. 0 \in Nat
    OBVIOUS
  <2> QED BY <1>4, <2>1, CallStep
<1>5. ASSUME NEW p \in Proc, kill(p) PROVE Inv' /\ [L!Next]_L!vars
  BY <1>5, KillStep
<1>6. CASE UNCHANGED vars
  <2>1. Inv'
    BY <1>6 DEF vars, Inv, SleepOK
  <2>2. UNCHANGED L!vars
    BY <1>6 DEF vars, L!vars, Asks
  <2> QED BY <2>1, <2>2
<1> QED BY <1>1, <1>2, <1>3, <1>4, <1>5, <1>6 DEF Next

-----------------------------------------------------------------------------
\* The invariant: the buffer never holds more than INPUT_BUF characters, a line
\* being typed has no newline, a read that goes on wants more bytes than it
\* has, and who is about to sleep holds cons.lock and has nothing to read.
THEOREM ConsoleInvariant == Spec => []Inv
<1>1. Init => Inv
  BY InitStep
<1>2. Inv /\ [Next]_vars => Inv'
  BY NextStep
<1> QED BY <1>1, <1>2, PTL DEF Spec

\* A reader sleeps only while there is nothing to read, for any number of
\* processes and every size of the buffer: consoleintr loses no wakeup.
THEOREM ReadersWokenHolds == Spec => []ReadersWoken
<1>1. Inv => ReadersWoken
  BY DEF Inv, SleepOK, ReadersWoken
<1> QED BY <1>1, ConsoleInvariant, PTL

\* The circular buffer of consoleintr and consoleread implements the line
\* discipline, for every size of the buffer, every multiple of it as the range
\* of the indices, and any number of readers.
THEOREM LinesKeptHolds == Spec => LinesKept
<1>1. Init => L!Init
  BY InitStep
<1>2. Inv /\ [Next]_vars => [L!Next]_L!vars
  BY NextStep
<1> QED BY <1>1, <1>2, ConsoleInvariant, PTL DEF Spec, LinesKept, L!Spec
=============================================================================
