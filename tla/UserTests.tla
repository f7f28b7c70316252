----------------------------- MODULE UserTests -----------------------------
(***************************************************************************)
(* The file system tests of usertests.c as scripts of system calls, with   *)
(* the result each test insists on.  A test that prints and exits when a   *)
(* call succeeds wants "fail", one that does so when it fails wants "ok",  *)
(* and one that ignores the result wants "any".  Data is shortened: a      *)
(* string is one or more cells, and loops run as often as N.. says.        *)
(***************************************************************************)
EXTENDS Naturals, Sequences, FiniteSets, SequencesExt, FiniteSetsExt

CREATE == {"CREATE", "RDWR"}
RDWR == {"RDWR"}

\* The calls.
opens(v, path, mode, want) == [op |-> "open", path |-> path, mode |-> mode, fd |-> v, want |-> want]
open(path, mode, want) == opens("fd", path, mode, want)
mkdir(path, want) == [op |-> "mkdir", path |-> path, want |-> want]
chdir(path, want) == [op |-> "chdir", path |-> path, want |-> want]
unlink(path, want) == [op |-> "unlink", path |-> path, want |-> want]
link(old, new, want) == [op |-> "link", path |-> old, new |-> new, want |-> want]
mknod(path, want) == [op |-> "mknod", path |-> path, want |-> want]
exec(path, want) == [op |-> "exec", path |-> path, want |-> want]
reads(v, n, accept) == [op |-> "read", fd |-> v, n |-> n, accept |-> accept, want |-> "ok"]
read(n, data) == reads("fd", n, {data})
writes(v, data, want) == [op |-> "write", fd |-> v, data |-> data, want |-> want]
write(data) == writes("fd", data, "ok")
close == [op |-> "close", fd |-> "fd", want |-> "any"]
fork(child) == [op |-> "fork", child |-> child, want |-> "ok"]
wait == [op |-> "wait", want |-> "any"]
exit == [op |-> "exit", want |-> "any"]

Bytes(v, n) == [i \in 1 .. n |-> <<v, "">>]
Times(n, s) == FlattenSeq([i \in 1 .. n |-> s])

\* init.c: the console is made the first time the system runs.
init_console ==
  <<opens("fd1", <<"console">>, RDWR, "any"), mknod(<<"console">>, "any"), opens("fd1", <<"console">>, RDWR, "ok")>>

iputtest ==
  <<mkdir(<<"iputdir">>, "ok"), chdir(<<"iputdir">>, "ok"), unlink(<<"..", "iputdir">>, "ok"), chdir(<<"/">>, "ok")>>

exitiputtest ==
  <<fork(<<mkdir(<<"iputdir">>, "ok"), chdir(<<"iputdir">>, "ok"), unlink(<<"..", "iputdir">>, "ok"), exit>>), wait>>

openiputtest ==
  <<mkdir(<<"oidir">>, "ok"), fork(<<open(<<"oidir">>, RDWR, "fail"), exit>>), unlink(<<"oidir">>, "ok"), wait>>

opentest == <<open(<<"echo">>, {"RDONLY"}, "ok"), close, open(<<"doesnotexist">>, {"RDONLY"}, "fail")>>

\* Two rounds instead of 100.
writetest ==
  <<open(<<"small">>, CREATE, "ok")>> \o Times(2, <<write(Bytes(1, 1)), write(Bytes(2, 1))>>) \o
  <<close, open(<<"small">>, {"RDONLY"}, "ok"), read(4, Bytes(1, 1) \o Bytes(2, 1) \o Bytes(1, 1) \o Bytes(2, 1)),
    close, unlink(<<"small">>, "ok")>>

\* As many blocks of n cells as a file can have.
writetest1(blocks, n) ==
  <<open(<<"big">>, CREATE, "ok")>> \o [i \in 1 .. blocks |-> write(Bytes(i, n))] \o
  <<close, open(<<"big">>, {"RDONLY"}, "ok")>> \o [i \in 1 .. blocks |-> read(n, Bytes(i, n))] \o
  <<read(n, <<>>), close, unlink(<<"big">>, "ok")>>

\* Two names instead of 52.
createtest ==
  <<open(<<"a0">>, CREATE, "any"), close, open(<<"a1">>, CREATE, "any"), close,
    unlink(<<"a0">>, "any"), unlink(<<"a1">>, "any")>>

dirtest == <<mkdir(<<"dir0">>, "ok"), chdir(<<"dir0">>, "ok"), chdir(<<"..">>, "ok"), unlink(<<"dir0">>, "ok")>>

exectest == <<exec(<<"echo">>, "ok")>>

\* Two writes of two bytes from each instead of 1000 of ten; both counts must be right.
sharedfd ==
  LET put(b) == Times(2, <<write(Bytes(b, 2))>>)
      count(s, b) == Cardinality({i \in 1 .. 8 : s[i] = <<b, "">>})
      both == {s \in [1 .. 8 -> {<<1, "">>, <<2, "">>}] : count(s, 1) = 4}
  IN <<unlink(<<"sharedfd">>, "any"), open(<<"sharedfd">>, CREATE, "ok"), fork(put(1) \o <<exit>>)>> \o put(2) \o
     <<wait, close, open(<<"sharedfd">>, {"RDONLY"}, "ok"), reads("fd", 8, both), close, unlink(<<"sharedfd">>, "any")>>

\* Two processes instead of four, two writes of three bytes instead of 12 of 500.
fourfiles ==
  LET child(f, b) == fork(<<open(<<f>>, CREATE, "ok"), write(Bytes(b, 3)), write(Bytes(b, 3)), exit>>)
      checked(f, b) == <<open(<<f>>, {"RDONLY"}, "any"), read(9, Bytes(b, 6)), close, unlink(<<f>>, "any")>>
  IN <<unlink(<<"f0">>, "any"), child("f0", 1), unlink(<<"f1">>, "any"), child("f1", 2), wait, wait>>
     \o checked("f0", 1) \o checked("f1", 2)

\* One or two processes instead of four, N = 2 or 4 names each instead of 20: a name is
\* deleted when the one with twice its number has been made.
createdelete(procs, N) ==
  LET name == <<<<"p0", "p1", "p2", "p3">>, <<"q0", "q1", "q2", "q3">>>>
      made(pi, i) == <<open(<<name[pi][i + 1]>>, CREATE, "ok"), close>>
                     \o IF i > 0 /\ i % 2 = 0 THEN <<unlink(<<name[pi][(i \div 2) + 1]>>, "ok")>> ELSE <<>>
      child(pi) == fork(FlattenSeq([i \in 1 .. N |-> made(pi, i - 1)]) \o <<exit>>)
      looked(pi, i) == IF i >= 1 /\ i < N \div 2 THEN <<open(<<name[pi][i + 1]>>, {"RDONLY"}, "fail")>>
                       ELSE <<open(<<name[pi][i + 1]>>, {"RDONLY"}, "ok"), close>>
  IN [pi \in 1 .. procs |-> child(pi)] \o Times(procs, <<wait>>)
     \o FlattenSeq([i \in 1 .. N |-> FlattenSeq([pi \in 1 .. procs |-> looked(pi, i - 1)])])
     \o FlattenSeq([i \in 1 .. N |-> Times(procs, <<unlink(<<<<"p0", "q1", "r2", "s3">>[i]>>, "any")>>)])

unlinkread ==
  <<open(<<"unlinkread">>, CREATE, "ok"), write(Bytes(1, 5)), close, open(<<"unlinkread">>, RDWR, "ok"),
    unlink(<<"unlinkread">>, "ok"), opens("fd1", <<"unlinkread">>, CREATE, "any"), writes("fd1", Bytes(3, 3), "any"),
    [close EXCEPT !.fd = "fd1"], read(9, Bytes(1, 5)), write(Bytes(1, 4)), close, unlink(<<"unlinkread">>, "any")>>

linktest ==
  <<unlink(<<"lf1">>, "any"), unlink(<<"lf2">>, "any"), open(<<"lf1">>, CREATE, "ok"), write(Bytes(1, 5)), close,
    link(<<"lf1">>, <<"lf2">>, "ok"), unlink(<<"lf1">>, "any"), open(<<"lf1">>, {"RDONLY"}, "fail"),
    open(<<"lf2">>, {"RDONLY"}, "ok"), read(9, Bytes(1, 5)), close, link(<<"lf2">>, <<"lf2">>, "fail"),
    unlink(<<"lf2">>, "any"), link(<<"lf2">>, <<"lf1">>, "fail"), link(<<".">>, <<"lf1">>, "fail")>>

\* The first part of concreate for one name: parent and child each link or create it.
concreate_make(file, parent, child) ==
  <<unlink(<<file>>, "any"), fork(child \o <<exit>>)>> \o parent \o <<wait>>
concreate_link(file) == <<link(<<"C0">>, <<file>>, "any")>>
concreate_open(file) == <<open(<<file>>, CREATE, "ok"), close>>

\* The rounds for C0, C1 and C4 of the first part: create both, link both, and link in
\* the parent while the child creates.
concreate ==
  concreate_make("C0", concreate_open("C0"), concreate_open("C0"))
  \o concreate_make("C1", concreate_link("C1"), concreate_link("C1"))
  \o concreate_make("C4", concreate_link("C4"), concreate_open("C4"))

\* The second part for a file: opened twice by one (instead of four times), unlinked
\* twice by the other; or unlinked by both.
concreate_delete ==
  LET look == Times(2, <<open(<<"C0">>, {"RDONLY"}, "any"), close>>)
      delete == Times(2, <<unlink(<<"C0">>, "any")>>)
  IN concreate_open("C0") \o <<fork(look \o <<exit>>)>> \o delete \o <<wait>>
     \o concreate_open("C0") \o <<fork(delete \o <<exit>>)>> \o delete \o <<wait>>

\* The three calls of linkunlink that its generator picks from, one of each kind in the
\* parent and one after another in the child.
linkunlink ==
  LET made == <<open(<<"x">>, CREATE, "any"), close>>
      linked == <<link(<<"cat">>, <<"x">>, "any")>>
      gone == <<unlink(<<"x">>, "any")>>
  IN <<unlink(<<"x">>, "any"), fork(gone \o linked \o <<exit>>)>> \o made \o linked \o <<wait>>

\* Links enough for another block instead of 500.
bigdir(names) ==
  <<unlink(<<"bd">>, "any"), open(<<"bd">>, {"CREATE"}, "ok"), close>>
  \o [i \in 1 .. Len(names) |-> link(<<"bd">>, <<names[i]>>, "ok")] \o <<unlink(<<"bd">>, "any")>>
  \o [i \in 1 .. Len(names) |-> unlink(<<names[i]>>, "ok")]

subdir ==
  LET dd == <<"dd">>
      ff == <<"dd", "ff">>
      deep == <<"dd", "dd", "ff">>
      ffff == <<"dd", "dd", "ffff">>
      underfile == <<"dd", "ff", "ff">>
      nowhere == <<"dd", "xx", "ff">>
      new == <<"dd", "dd", "xx">>
  IN <<unlink(<<"ff">>, "any"), mkdir(dd, "ok"), open(ff, CREATE, "ok"), writes("fd", Bytes(1, 2), "any"), close,
       unlink(dd, "fail"), mkdir(<<"/", "dd", "dd">>, "ok"),
       open(deep, CREATE, "ok"), writes("fd", Bytes(2, 2), "any"), close,
       open(<<"dd", "dd", "..", "ff">>, {"RDONLY"}, "ok"), read(9, Bytes(1, 2)), close,
       link(deep, ffff, "ok"), unlink(deep, "ok"), open(deep, {"RDONLY"}, "fail"),
       chdir(dd, "ok"), chdir(<<"dd", "..", "..", "dd">>, "ok"), chdir(<<"dd", "..", "..", "..", "dd">>, "ok"),
       chdir(<<".", "..">>, "ok"), open(ffff, {"RDONLY"}, "ok"), read(9, Bytes(2, 2)), close,
       open(deep, {"RDONLY"}, "fail"), open(underfile, CREATE, "fail"), open(nowhere, CREATE, "fail"),
       open(dd, {"CREATE"}, "fail"), open(dd, RDWR, "fail"), open(dd, {"WRONLY"}, "fail"),
       link(underfile, new, "fail"), link(nowhere, new, "fail"), link(ff, ffff, "fail"),
       mkdir(underfile, "fail"), mkdir(nowhere, "fail"), mkdir(ffff, "fail"),
       unlink(nowhere, "fail"), unlink(underfile, "fail"), chdir(ff, "fail"), chdir(<<"dd", "xx">>, "fail"),
       unlink(ffff, "ok"), unlink(ff, "ok"), unlink(dd, "fail"), unlink(<<"dd", "dd">>, "ok"), unlink(dd, "ok")>>

\* Not a test: sh.c runs a command line's first word, which need not name a program.
runcmd_fails == <<exec(<<"doesnotexist">>, "fail"), exec(<<"README">>, "fail")>>

\* Two writes of sz bytes, more than one operation writes at a time.
bigwrite(sz) ==
  <<unlink(<<"bigwrite">>, "any"), open(<<"bigwrite">>, CREATE, "ok"), write(Bytes(0, sz)), write(Bytes(0, sz)),
    close, unlink(<<"bigwrite">>, "any")>>

\* Two writes of four bytes, read back by twos.
bigfile ==
  <<unlink(<<"bigfile">>, "any"), open(<<"bigfile">>, CREATE, "ok"), write(Bytes(0, 4)), write(Bytes(1, 4)), close,
    open(<<"bigfile">>, {"RDONLY"}, "ok"), read(2, Bytes(0, 2)), read(2, Bytes(0, 2)), read(2, Bytes(1, 2)),
    read(2, Bytes(1, 2)), read(2, <<>>), close, unlink(<<"bigfile">>, "any")>>

rmdot ==
  <<mkdir(<<"dots">>, "ok"), chdir(<<"dots">>, "ok"), unlink(<<".">>, "fail"), unlink(<<"..">>, "fail"),
    chdir(<<"/">>, "ok"), unlink(<<"dots", ".">>, "fail"), unlink(<<"dots", "..">>, "fail"), unlink(<<"dots">>, "ok")>>

dirfile ==
  LET xx == <<"dirfile", "xx">>
  IN <<open(<<"dirfile">>, {"CREATE"}, "ok"), close, chdir(<<"dirfile">>, "fail"), open(xx, {"RDONLY"}, "fail"),
       open(xx, {"CREATE"}, "fail"), mkdir(xx, "fail"), unlink(xx, "fail"), link(<<"README">>, xx, "fail"),
       unlink(<<"dirfile">>, "ok"), open(<<".">>, RDWR, "fail"), open(<<".">>, {"RDONLY"}, "any"),
       writes("fd", Bytes(1, 1), "fail"), close>>

\* The body of iref's loop; the path is empty in mkdir, link and open.
iref(n) ==
  Times(n, <<mkdir(<<"irefd">>, "ok"), chdir(<<"irefd">>, "ok"), mkdir(<<>>, "any"), link(<<"README">>, <<>>, "any"),
             open(<<>>, {"CREATE"}, "any"), close, open(<<"xx">>, {"CREATE"}, "any"), close, unlink(<<"xx">>, "any")>>)
  \o <<chdir(<<"/">>, "any")>>
============================================================================
