------------------------------ MODULE ShParse -------------------------------
(***************************************************************************)
(* The command parser of xv6's shell (sh.c).  A line is a sequence of the  *)
(* tokens gettoken returns: the symbols, and words.  A parser takes the    *)
(* rest of the line and returns the command and what it left of the line.  *)
(***************************************************************************)
EXTENDS Naturals, Sequences, FiniteSets, SequencesExt

CONSTANTS MAXARGS

symbols == {"<", "|", ">", ">>", "&", ";", "(", ")"}
Redirs == {"<", ">", ">>"}
IsWord(tok) == tok \notin symbols

execcmd(argv) == [type |-> "EXEC", argv |-> argv]
redircmd(sub, file, fd) == [type |-> "REDIR", cmd |-> sub, file |-> file, fd |-> fd]
pipecmd(left, right) == [type |-> "PIPE", left |-> left, right |-> right]
listcmd(left, right) == [type |-> "LIST", left |-> left, right |-> right]
backcmd(sub) == [type |-> "BACK", cmd |-> sub]

\* panic in the parser: there is no command.
Syntax == [type |-> "SYNTAX"]
Panic == [cmd |-> Syntax, rest |-> << >>]
Parsed(cmd, rest) == [cmd |-> cmd, rest |-> rest]

peek(s, toks) == s # << >> /\ s[1] \in toks

\* ">" and ">>" open the file the same way (lines 388 to 393).
Redirected(cmd, tok, file) == redircmd(cmd, file, IF tok = "<" THEN 0 ELSE 1)

RECURSIVE parseline(_), parsepipe(_), parseredirs(_, _), parseargs(_, _, _), backs(_)

parseredirs(cmd, s) ==
  IF ~peek(s, Redirs) THEN Parsed(cmd, s)
  ELSE IF Len(s) < 2 \/ ~IsWord(s[2]) THEN Panic
  ELSE parseredirs(Redirected(cmd, s[1], s[2]), SubSeq(s, 3, Len(s)))

parseblock(s) ==
  LET in == parseline(Tail(s)) IN
  IF in.cmd = Syntax \/ ~peek(in.rest, {")"}) THEN Panic
  ELSE parseredirs(in.cmd, Tail(in.rest))

\* The loop of parseexec.  The words end up in the execcmd at the bottom of
\* the redirections, so they are collected in argv and the redirections
\* wrapped around Hole; parseexec fills it.
Hole == [type |-> "HOLE"]

parseargs(ret, argv, s) ==
  IF peek(s, {"|", ")", "&", ";"}) \/ s = << >> THEN [cmd |-> ret, rest |-> s, argv |-> argv]
  ELSE IF ~IsWord(s[1]) \/ Len(argv) + 1 >= MAXARGS
       THEN [cmd |-> Syntax, rest |-> << >>, argv |-> << >>]
  ELSE LET r == parseredirs(ret, Tail(s)) IN
       IF r.cmd = Syntax THEN [cmd |-> Syntax, rest |-> << >>, argv |-> << >>]
       ELSE parseargs(r.cmd, Append(argv, s[1]), r.rest)

RECURSIVE Fill(_, _)
Fill(cmd, argv) ==
  IF cmd.type = "HOLE" THEN execcmd(argv)
  ELSE [cmd EXCEPT !.cmd = Fill(cmd.cmd, argv)]

parseexec(s) ==
  IF peek(s, {"("}) THEN parseblock(s)
  ELSE LET r == parseredirs(Hole, s)
           a == parseargs(r.cmd, << >>, r.rest) IN
       IF r.cmd = Syntax \/ a.cmd = Syntax THEN Panic
       ELSE Parsed(Fill(a.cmd, a.argv), a.rest)

\* Mutant: the pipeline is built from the left.
RECURSIVE pipeloop(_, _)
pipeloop(left, s) ==
  IF ~peek(s, {"|"}) THEN Parsed(left, s)
  ELSE LET y == parseexec(Tail(s)) IN
       IF y.cmd = Syntax THEN Panic ELSE pipeloop(pipecmd(left, y.cmd), y.rest)

parsepipe_left(s) ==
  LET x == parseexec(s) IN
  IF x.cmd = Syntax THEN Panic ELSE pipeloop(x.cmd, x.rest)

parsepipe(s) ==
  LET x == parseexec(s)
      y == parsepipe(Tail(x.rest)) IN
  IF x.cmd = Syntax \/ ~peek(x.rest, {"|"}) THEN x
  ELSE IF y.cmd = Syntax THEN Panic
  ELSE Parsed(pipecmd(x.cmd, y.cmd), y.rest)

\* while(peek "&") of parseline.
backs(x) ==
  IF x.cmd = Syntax \/ ~peek(x.rest, {"&"}) THEN x
  ELSE backs(Parsed(backcmd(x.cmd), Tail(x.rest)))

parseline(s) ==
  LET x == backs(parsepipe(s))
      y == parseline(Tail(x.rest)) IN
  IF x.cmd = Syntax \/ ~peek(x.rest, {";"}) THEN x
  ELSE IF y.cmd = Syntax THEN Panic
  ELSE Parsed(listcmd(x.cmd, y.cmd), y.rest)

\* The command of a line, or Syntax when a parser panics or tokens are left.
parsecmd(s) ==
  LET x == parseline(s) IN IF x.rest = << >> THEN x.cmd ELSE Syntax

-----------------------------------------------------------------------------
\* The grammar as a reference: the set of the commands a sequence of tokens
\* can be read as.

Pre(s, i) == SubSeq(s, 1, i - 1)
Post(s, i) == SubSeq(s, i + 1, Len(s))
At(s, tok) == {i \in DOMAIN s : s[i] = tok}

IsSimple(s) ==
  \A i \in DOMAIN s : /\ IsWord(s[i]) \/ s[i] \in Redirs
                      /\ s[i] \in Redirs => i < Len(s) /\ IsWord(s[i + 1])
IsArg(s, i) == IsWord(s[i]) /\ (i > 1 => s[i - 1] \notin Redirs)
ArgsOf(s) == LET I == {i \in DOMAIN s : IsArg(s, i)}
             IN  [k \in 1..Cardinality(I) |->
                    s[CHOOSE i \in I : Cardinality({j \in I : j <= i}) = k]]
Wrap(cmd, s) ==
  FoldLeft(LAMBDA c, i : IF s[i] \in Redirs THEN Redirected(c, s[i], s[i + 1]) ELSE c,
           cmd, [i \in DOMAIN s |-> i])

RECURSIVE LineOf(_), PipeOf(_), BackN(_, _)

ExecOf(s) ==
  (IF IsSimple(s) /\ Len(ArgsOf(s)) < MAXARGS THEN {Wrap(execcmd(ArgsOf(s)), s)} ELSE {})
  \cup (IF peek(s, {"("})
        THEN UNION {{Wrap(c, Post(s, i)) : c \in LineOf(SubSeq(s, 2, i - 1))} :
                      i \in {j \in At(s, ")") : IsSimple(Post(s, j))
                                                /\ ArgsOf(Post(s, j)) = << >>}}
        ELSE {})

PipeOf(s) ==
  ExecOf(s) \cup UNION {{pipecmd(x, y) : x \in ExecOf(Pre(s, i)), y \in PipeOf(Post(s, i))} :
                          i \in At(s, "|")}

BackN(c, k) == IF k = 0 THEN c ELSE backcmd(BackN(c, k - 1))

BackOf(s) ==
  UNION {{BackN(c, k) : c \in PipeOf(SubSeq(s, 1, Len(s) - k))} :
           k \in {j \in 0..Len(s) : \A i \in Len(s) - j + 1..Len(s) : s[i] = "&"}}

LineOf(s) ==
  BackOf(s) \cup UNION {{listcmd(x, y) : x \in BackOf(Pre(s, i)), y \in LineOf(Post(s, i))} :
                          i \in At(s, ";")}

CommandsOf(s) == LET read == LineOf(s) IN IF read = {} THEN {Syntax} ELSE read
=============================================================================
