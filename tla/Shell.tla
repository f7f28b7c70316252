------------------------------- MODULE Shell -------------------------------
(***************************************************************************)
(* The shell, sh.c: the parser from a line, a sequence of tokens, to a     *)
(* command, and runcmd and main as the system calls they make.  init.c and *)
(* the programs that the shell runs are here too, as lists of calls.       *)
(*                                                                         *)
(* A descriptor in a call is a number below P0, or P0 or P1 for the ends   *)
(* of the pipe that the program last made.                                 *)
(***************************************************************************)
EXTENDS Naturals, Sequences

CONSTANT MAXARGS

P0 == 10
P1 == 11
Symbols == {"<", ">", ">>", "|", "&", ";", "(", ")"}

\* The constructors.
execcmd(argv) == [type |-> "exec", argv |-> argv]
redircmd(c, file, mode, fd) == [type |-> "redir", cmd |-> c, file |-> file, mode |-> mode, fd |-> fd]
pipecmd(l, r) == [type |-> "pipe", left |-> l, right |-> r]
listcmd(l, r) == [type |-> "list", left |-> l, right |-> r]
backcmd(c) == [type |-> "back", cmd |-> c]

-----------------------------------------------------------------------------
\* Parsing.  A parser takes tokens and returns the command, the tokens that are left
\* and whether all went well: panic ends the process that parses.

RECURSIVE parseline(_), parsepipe(_), parseredirs(_), parseargs(_, _), AddRedirs(_, _)

Parsed(c, rest) == [cmd |-> c, rest |-> rest, ok |-> TRUE]
Syntax == [cmd |-> execcmd(<<>>), rest |-> <<>>, ok |-> FALSE]
peek(s, toks) == s # <<>> /\ s[1] \in toks
Word(s) == s # <<>> /\ s[1] \notin Symbols

\* The redirections at the head of the tokens: pairs of a symbol and a file.
parseredirs(s) ==
  IF ~peek(s, {"<", ">", ">>"}) THEN [redirs |-> <<>>, rest |-> s, ok |-> TRUE]
  ELSE IF ~Word(Tail(s)) THEN [redirs |-> <<>>, rest |-> s, ok |-> FALSE]
  ELSE LET r == parseredirs(SubSeq(s, 3, Len(s)))
       IN [r EXCEPT !.redirs = <<<<s[1], s[2]>>>> \o @]

\* Each wraps the command that there is: a later one is outside.
AddRedirs(c, rs) ==
  IF rs = <<>> THEN c
  ELSE AddRedirs(IF rs[1][1] = "<" THEN redircmd(c, rs[1][2], "read", 0)
                 ELSE redircmd(c, rs[1][2], "write", 1), Tail(rs))

\* The words and redirections of a simple command, up to the end or a separator.
parseargs(s, a) ==
  LET r == parseredirs(s)
      b == [a EXCEPT !.redirs = @ \o r.redirs]
  IN IF ~r.ok THEN Syntax
     ELSE IF r.rest = <<>> \/ peek(r.rest, {"|", ")", "&", ";"}) THEN Parsed(AddRedirs(execcmd(b.argv), b.redirs), r.rest)
     ELSE IF ~Word(r.rest) \/ Len(b.argv) + 1 >= MAXARGS THEN Syntax
     ELSE parseargs(Tail(r.rest), [b EXCEPT !.argv = Append(@, r.rest[1])])

parseblock(s) ==
  LET l == parseline(Tail(s))
      r == parseredirs(Tail(l.rest))
  IN IF ~l.ok \/ ~peek(l.rest, {")"}) THEN Syntax
     ELSE IF ~r.ok THEN Syntax ELSE Parsed(AddRedirs(l.cmd, r.redirs), r.rest)

parseexec(s) == IF peek(s, {"("}) THEN parseblock(s) ELSE parseargs(s, [argv |-> <<>>, redirs |-> <<>>])

\* What follows the command l, if that is a pipe.
AfterBar(l) ==
  LET r == parsepipe(Tail(l.rest))
  IN IF ~l.ok \/ ~peek(l.rest, {"|"}) THEN l
     ELSE IF r.ok THEN Parsed(pipecmd(l.cmd, r.cmd), r.rest) ELSE Syntax
parsepipe(s) == AfterBar(parseexec(s))

RECURSIVE parseback(_)
parseback(l) == IF l.ok /\ peek(l.rest, {"&"}) THEN parseback(Parsed(backcmd(l.cmd), Tail(l.rest))) ELSE l

\* What follows the command l, if that is a list.
AfterSemicolon(l) ==
  LET r == parseline(Tail(l.rest))
  IN IF ~l.ok \/ ~peek(l.rest, {";"}) THEN l
     ELSE IF r.ok THEN Parsed(listcmd(l.cmd, r.cmd), r.rest) ELSE Syntax
parseline(s) == AfterSemicolon(parseback(parsepipe(s)))

\* Leftovers are a syntax error.
NoLeftovers(l) == IF l.rest = <<>> THEN l ELSE Syntax
parsecmd(s) == NoLeftovers(parseline(s))

-----------------------------------------------------------------------------
\* Running a command: the calls it makes.

RECURSIVE runcmd(_)

\* Mutant: the reader keeps the end of the pipe for writing.
pipe_calls_keep(left, right) ==
  <<<<"pipe">>,
    <<"fork", <<<<"close", 1>>, <<"dup", P1>>, <<"close", P0>>, <<"close", P1>>>> \o left>>,
    <<"fork", <<<<"close", 0>>, <<"dup", P0>>, <<"close", P0>>>> \o right>>,
    <<"close", P0>>, <<"close", P1>>, <<"wait", "any">>, <<"wait", "any">>, <<"exit">>>>
pipe_calls(left, right) ==
  <<<<"pipe">>,
    <<"fork", <<<<"close", 1>>, <<"dup", P1>>, <<"close", P0>>, <<"close", P1>>>> \o left>>,
    <<"fork", <<<<"close", 0>>, <<"dup", P0>>, <<"close", P0>>, <<"close", P1>>>> \o right>>,
    <<"close", P0>>, <<"close", P1>>, <<"wait", "any">>, <<"wait", "any">>, <<"exit">>>>

\* A fork that fails, a pipe that cannot be made or a file that cannot be opened ends
\* the process (see the steps of Processes.tla).
runcmd(c) ==
  CASE c.type = "exec" -> IF c.argv = <<>> THEN <<<<"exit">>>> ELSE <<<<"exec", c.argv>>, <<"exit">>>>
    [] c.type = "redir" -> <<<<"close", c.fd>>, <<"open", c.file, c.mode>>>> \o runcmd(c.cmd)
    [] c.type = "list" -> <<<<"fork", runcmd(c.left)>>, <<"wait", "any">>>> \o runcmd(c.right)
    [] c.type = "pipe" -> pipe_calls(runcmd(c.left), runcmd(c.right))
    [] c.type = "back" -> <<<<"fork", runcmd(c.cmd)>>, <<"exit">>>>

\* What the child of the shell does with a line, and the shell: cd is its own, other
\* lines are for a child that it waits for.
Run(c) == IF c.ok THEN runcmd(c.cmd) ELSE <<<<"exit">>>>
LineCalls(s) == Run(parsecmd(s))
ShellCalls(s) ==
  IF s # <<>> /\ s[1] = "cd" THEN <<<<"getcmd">>>>
  ELSE <<<<"fork", LineCalls(s)>>, <<"wait", "any">>, <<"getcmd">>>>
sh_main == <<<<"getcmd">>>>

\* init runs a shell and waits for it, and for orphans, for ever.
init_main == <<<<"fork", sh_main>>, <<"reap">>>>

\* The programs: echo writes its arguments, cat copies its input or files, zombie and
\* forktest, and tests of usertests.c.  Marks are what pipe1 sends, sleeping is left out.
IsProgram(argv) == argv[1] \in {"echo", "cat", "zombie", "forktest", "pipe1", "preempt", "exitwait", "kill_writer"}
echo_main(argv) == [i \in 1 .. Len(argv) - 1 |-> <<"write", 1, <<argv[i + 1]>>, "any">>] \o <<<<"exit">>>>
RECURSIVE cat_files(_)
cat_files(names) ==
  IF names = <<>> THEN <<>>
  ELSE <<<<"open", names[1], "read">>, <<"cat", P0>>, <<"close", P0>>>> \o cat_files(Tail(names))
cat_main(argv) == (IF Len(argv) = 1 THEN <<<<"cat", 0>>>> ELSE cat_files(Tail(argv))) \o <<<<"exit">>>>
zombie_main == <<<<"fork", <<<<"exit">>>>>>, <<"exit">>>>
forktest_main == <<<<"forks", 0>>, <<"write", 1, <<"ok">>, "any">>, <<"exit">>>>
pipe1 ==
  <<<<"pipe">>,
    <<"fork", <<<<"close", P0>>, <<"write", P1, <<"a", "b", "c">>, "fail">>, <<"write", P1, <<"d", "e", "f">>, "fail">>, <<"exit">>>>>>,
    <<"close", P1>>, <<"drain", P0, 1, 0, 6>>, <<"close", P0>>, <<"wait", "any">>,
    <<"write", 1, <<"ok">>, "any">>, <<"exit">>>>
preempt ==
  <<<<"fork", <<<<"spin">>>>>>, <<"fork", <<<<"spin">>>>>>, <<"pipe">>,
    <<"fork", <<<<"close", P0>>, <<"write", P1, <<"x">>, "fail">>, <<"close", P1>>, <<"spin">>>>>>,
    <<"close", P1>>, <<"read", P0, 1>>, <<"close", P0>>, <<"kill", 1>>, <<"kill", 2>>, <<"kill", 3>>,
    <<"wait", "any">>, <<"wait", "any">>, <<"wait", "any">>,
    <<"write", 1, <<"ok">>, "any">>, <<"exit">>>>
exitwait ==
  <<<<"fork", <<<<"exit">>>>>>, <<"wait", "last">>, <<"fork", <<<<"exit">>>>>>, <<"wait", "last">>,
    <<"write", 1, <<"ok">>, "any">>, <<"exit">>>>
\* Not a program of the repository: it kills a child that writes to a pipe, while another
\* child reads from the pipe and it has the write end open itself.
kill_writer ==
  <<<<"pipe">>,
    <<"fork", <<<<"write", P1, <<"a", "b", "c", "d", "e">>, "any">>, <<"exit">>>>>>,
    <<"fork", <<<<"close", P1>>, <<"cat", P0>>, <<"exit">>>>>>,
    <<"kill", 1>>, <<"wait", "any">>, <<"close", P1>>, <<"close", P0>>, <<"wait", "any">>, <<"exit">>>>
Program(argv) ==
  CASE argv[1] = "echo" -> echo_main(argv)
    [] argv[1] = "cat" -> cat_main(argv)
    [] argv[1] = "zombie" -> zombie_main
    [] argv[1] = "forktest" -> forktest_main
    [] argv[1] = "pipe1" -> pipe1
    [] argv[1] = "preempt" -> preempt
    [] argv[1] = "exitwait" -> exitwait
    [] argv[1] = "kill_writer" -> kill_writer
=============================================================================
