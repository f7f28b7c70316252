------------------------------- MODULE FsDisk -------------------------------
(***************************************************************************)
(* The file system on disk (fs.h), the part of fs.c that reads and writes  *)
(* it through inodes, and mkfs.c, which builds it.                         *)
(*                                                                         *)
(* A disk is a record of inodes, the bitmap as the set of used blocks, and *)
(* the blocks.  A block is BSIZE cells and a cell is a pair of a number    *)
(* and a name: a byte of a file, the number of a block in an indirect      *)
(* block (one per cell, so NINDIRECT = BSIZE), or a directory entry.       *)
(***************************************************************************)
EXTENDS Integers, Sequences, FiniteSets, SequencesExt, FiniteSetsExt

CONSTANTS BSIZE, NDIRECT, NINODES, FSSIZE, nmeta

NINDIRECT == BSIZE
MAXFILE == NDIRECT + NINDIRECT
ROOTINO == 1
Inum == 1 .. NINODES - 1
NoCell == <<0, "">>
ZeroBlock == [i \in 0 .. BSIZE - 1 |-> NoCell]
FreeInode == [type |-> "none", nlink |-> 0, size |-> 0, addrs |-> [i \in 0 .. NDIRECT |-> 0]]

NewInode(type) == [FreeInode EXCEPT !.type = type]

-----------------------------------------------------------------------------
\* The first free block is marked in the bitmap and zeroed.  Without one the
\* code panics: the disk is marked full.
FreeBlock(d) == IF 0 .. FSSIZE - 1 \subseteq d.used THEN 0 ELSE Min((0 .. FSSIZE - 1) \ d.used)
balloc(d) ==
  LET b == FreeBlock(d)
  IN [d EXCEPT !.used = @ \cup {b}, !.blocks[b] = ZeroBlock, !.full = @ \/ b = 0]

\* The block in ip.addrs[bn], allocated if there is none: [d, ip, addr].
Direct(d, ip, bn) ==
  IF ip.addrs[bn] # 0 THEN [d |-> d, ip |-> ip, addr |-> ip.addrs[bn]]
  ELSE [d |-> balloc(d), ip |-> [ip EXCEPT !.addrs[bn] = FreeBlock(d)], addr |-> FreeBlock(d)]
\* The kth block of the indirect block that ind has the address of.
Indirect(ind, k) ==
  LET a == ind.d.blocks[ind.addr][k][1]
      new == FreeBlock(ind.d)
  IN IF a # 0 THEN [ind EXCEPT !.addr = a]
     ELSE [ind EXCEPT !.d = [balloc(@) EXCEPT !.blocks[ind.addr][k] = <<new, "">>], !.addr = new]
\* The nth block of an inode, allocated if there is none.
bmap(d, ip, bn) ==
  IF bn < NDIRECT THEN Direct(d, ip, bn) ELSE Indirect(Direct(d, ip, NDIRECT), bn - NDIRECT)

\* The blocks of an inode, in the order in which itrunc frees them.
Listed(d, ip) ==
  LET addr(i) == ip.addrs[i]
      direct == SelectSeq([i \in 1 .. NDIRECT |-> addr(i - 1)], LAMBDA b : b # 0)
      ind == ip.addrs[NDIRECT]
      indirect == SelectSeq([j \in 1 .. NINDIRECT |-> d.blocks[ind][j - 1][1]], LAMBDA b : b # 0)
  IN IF ind = 0 THEN direct ELSE direct \o indirect \o <<ind>>

\* bfree of a block that is free is a panic.
FreesFreeBlock(d, ip) ==
  LET s == Listed(d, ip) IN ~ToSet(s) \subseteq d.used \/ Len(s) # Cardinality(ToSet(s))

Truncated(ip) == [ip EXCEPT !.size = 0, !.addrs = FreeInode.addrs]

iupdate(d, inum, ip) == [d EXCEPT !.inode[inum] = ip]

itrunc(d, inum, ip) ==
  iupdate([d EXCEPT !.used = @ \ ToSet(Listed(d, ip))], inum, Truncated(ip))

\* The cells off .. off + n - 1 of a file or directory, as far as it has them.
readi(d, ip, off, n) ==
  LET cell(o) == d.blocks[bmap(d, ip, o \div BSIZE).addr][o % BSIZE]
  IN [i \in 1 .. (IF off + n > ip.size THEN ip.size - off ELSE n) |-> cell(off + i - 1)]

\* A cell is written and its block logged.
PutAt(m, off, cell) ==
  [d |-> [m.d EXCEPT !.blocks[m.addr][off % BSIZE] = cell], ip |-> m.ip, off |-> off + 1]
Put(w, cell) == PutAt(bmap(w.d, w.ip, w.off \div BSIZE), w.off, cell)

Refused(ip, off, n) == off > ip.size \/ off + n > MAXFILE * BSIZE

\* The end of writei: the size grows with what was written.
Resized(w, inum, size) ==
  LET ip == [w.ip EXCEPT !.size = w.off]
  IN IF w.off > size THEN [d |-> iupdate(w.d, inum, ip), ip |-> ip] ELSE [d |-> w.d, ip |-> w.ip]
\* The disk and the inode of a file or directory after cells have been written at off.
writei(d, inum, ip, off, cells) ==
  IF cells = <<>> \/ Refused(ip, off, Len(cells)) THEN [d |-> d, ip |-> ip]
  ELSE Resized(FoldLeft(Put, [d |-> d, ip |-> ip, off |-> off], cells), inum, ip.size)

-----------------------------------------------------------------------------
\* A directory as the sequence of its entries, empty ones (inum 0) included.
Entries(d, ip) == readi(d, ip, 0, ip.size)

\* Places of a name in a directory: dirlookup returns the first.
Places(e, name) == {i \in DOMAIN e : e[i][1] # 0 /\ e[i][2] = name}
First(e, at) == IF at = {} THEN 0 ELSE e[Min(at)][1]
Find(e, name) == First(e, Places(e, name))
dirlookup(d, ip, name) == Find(Entries(d, ip), name)

\* dirlink of a name that is not there: the first empty entry, or a new one.
EmptyPlace(e) ==
  LET empty == {i \in DOMAIN e : e[i][1] = 0}
  IN IF empty = {} THEN Len(e) ELSE Min(empty) - 1
dirlink(d, dnum, dp, name, inum) == writei(d, dnum, dp, EmptyPlace(Entries(d, dp)), <<<<inum, name>>>>)

isdirempty(d, dp) == \A i \in 3 .. dp.size : Entries(d, dp)[i][1] = 0

-----------------------------------------------------------------------------
\* mkfs: appends cells to a file of the new image.
Appended(w, inum) == iupdate(w.d, inum, [w.ip EXCEPT !.size = w.off])
iappend(d, inum, cells) ==
  Appended(FoldLeft(Put, [d |-> d, ip |-> d.inode[inum], off |-> d.inode[inum].size], cells), inum)

\* mkfs numbers inodes in the order in which it makes them.
mkinode(d, inum, type) == iupdate(d, inum, [NewInode(type) EXCEPT !.nlink = 1])

AddFile(d, inum, name, cells) ==
  iappend(iappend(mkinode(d, inum, "file"), ROOTINO, <<<<inum, name>>>>), inum, cells)

\* mkfs takes blocks in order; the bitmap it writes at the end marks those before
\* the first that is left.
mkbitmap(d) == [d EXCEPT !.used = 0 .. Cardinality(@) - 1]

\* The root directory's size is rounded up to whole blocks.
FixRootSize(d) == [d EXCEPT !.inode[ROOTINO].size = ((@ \div BSIZE) + 1) * BSIZE]

\* The image with the files, a sequence of pairs of a name and cells.
mkfs(files) ==
  LET empty == [inode |-> [i \in Inum |-> FreeInode], used |-> 0 .. nmeta - 1,
                blocks |-> [b \in 0 .. FSSIZE - 1 |-> ZeroBlock], full |-> FALSE]
      root == iappend(mkinode(empty, ROOTINO, "dir"), ROOTINO,
                      <<<<ROOTINO, ".">>, <<ROOTINO, "..">>>>)
      add(a, f) == [d |-> AddFile(a.d, a.next, f[1], f[2]), next |-> a.next + 1]
  IN mkbitmap(FixRootSize(FoldLeft(add, [d |-> root, next |-> ROOTINO + 1], files).d))

-----------------------------------------------------------------------------
\* What a checker of the disk would verify.

Allocated(d) == {i \in Inum : d.inode[i].type # "none"}
Live(d) == {i \in Inum : d.inode[i].type = "dir" /\ d.inode[i].nlink > 0}
EntriesOf(d, i) == Entries(d, d.inode[i])

\* Every block is used by exactly one inode or is metadata, or it is free; and no
\* block of a file is missing, so that reading never allocates.
BlocksOwned(d) ==
  LET owned(i) == Listed(d, d.inode[i])
  IN /\ \A i \in Inum : Len(owned(i)) = Cardinality(ToSet(owned(i)))
     /\ \A i, j \in Inum : i # j => ToSet(owned(i)) \cap ToSet(owned(j)) = {}
     /\ d.used = (0 .. nmeta - 1) \cup UNION {ToSet(owned(i)) : i \in Allocated(d)}
     /\ \A i \in Inum \ Allocated(d) : owned(i) = <<>>
     /\ \A i \in Inum : \A o \in 0 .. d.inode[i].size - 1 :
          bmap(d, d.inode[i], o \div BSIZE).addr \in ToSet(owned(i))

\* Link counts are the numbers of names: the entries other than "." in directories
\* that are themselves linked, and one for the root, which nobody names.
LinksCounted(d) ==
  \A i \in Allocated(d) :
    d.inode[i].nlink = (IF i = ROOTINO THEN 1 ELSE 0)
      + Cardinality({e \in (Live(d) \ {i}) \X (1 .. MAXFILE * BSIZE) :
                       e[2] <= d.inode[e[1]].size /\ EntriesOf(d, e[1])[e[2]][1] = i})

\* Entries of linked directories name inodes that exist, and differ in name.
EntriesSound(d) ==
  \A i \in Live(d) : \A k \in 1 .. d.inode[i].size :
    EntriesOf(d, i)[k][1] # 0 =>
      /\ EntriesOf(d, i)[k][1] \in Allocated(d)
      /\ Cardinality(Places(EntriesOf(d, i), EntriesOf(d, i)[k][2])) = 1

Fsck(d) == BlocksOwned(d) /\ LinksCounted(d) /\ EntriesSound(d)
=============================================================================
