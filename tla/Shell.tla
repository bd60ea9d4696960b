------------------------------- MODULE Shell --------------------------------
(***************************************************************************)
(* Running a command line: runcmd of xv6's shell (sh.c) or                 *)
(* execute_commands of ssu_shell.c, over processes with descriptors, the   *)
(* file table (file.c) and pipes (pipe.c).                                 *)
(*                                                                         *)
(* A process is the sequence of the system calls it has yet to make; what  *)
(* runcmd does with a command is such a sequence, with those of the        *)
(* children inside fork.  A region under ftable.lock or a pipe's lock is   *)
(* one step.  kill may strike any process but the shell, and pipealloc may *)
(* run out of memory.  wait and exit are those of Xv6Proc, without the     *)
(* sleeping; init reaps at once what it inherits.  ssu_shell runs on a     *)
(* host whose pipes behave like these, except that a write without reader  *)
(* kills the writer.                                                       *)
(***************************************************************************)
EXTENDS ShParse

CONSTANTS
  Lines,           \* lines that are parsed
  XLines, SLines,  \* lines that the shell of xv6, ssu_shell runs
  NPROC, NFILE, NOFILE, NPIPE,
  PIPESIZE,
  WRAP,            \* 2^32 in the source: the wrap of nread and nwrite
  Bytes,           \* what echo prints
  Files,
  KillLines        \* lines one of whose processes may be killed

ASSUME PipeAssumption == WRAP % PIPESIZE = 0 /\ WRAP > PIPESIZE

VARIABLES
  line, sh,        \* the line, and the shell that runs it
  pr,              \* the processes; 1 is the shell
  file,            \* ftable.file
  pipe,
  text,            \* contents of the regular files
  screen,          \* what was written to the console
  faults           \* what went wrong: kills, failed calls

vars == <<line, sh, pr, file, pipe, text, screen, faults>>

Procs == 1..NPROC
Fds == 0..NOFILE - 1
Awake == <<"awake">>

-----------------------------------------------------------------------------
\* Programs as sequences of calls.

Call(op) == <<op>>
EXIT == <<Call("exit")>>

\* exec of a program: echo prints its bytes one by one (printf), cat copies,
\* wc counts; any other name does not exist and the caller exits.
exec(name) ==
  CASE name = "echo" -> [i \in DOMAIN Bytes |-> <<"put", Bytes[i]>>] \o EXIT
    [] name = "cat" -> <<Call("cat")>>
    [] name = "wc" -> <<<<"wc", 0>>>>
    [] OTHER -> EXIT

RECURSIVE runcmd(_), StagesOf(_)

\* What a process that calls runcmd does.  <<"closep", i>> and <<"dup", i>>
\* are close(p[i - 1]) and dup(p[i - 1]).
runcmd(cmd) ==
  CASE cmd.type = "SYNTAX" -> EXIT
    [] cmd.type = "EXEC" -> IF cmd.argv = << >> THEN EXIT ELSE exec(cmd.argv[1])
    [] cmd.type = "REDIR" ->
         << <<"close", cmd.fd>>, <<"open", cmd.file, cmd.fd = 1>> >> \o runcmd(cmd.cmd)
    [] cmd.type = "LIST" ->
         << <<"fork", runcmd(cmd.left)>>, Call("wait") >> \o runcmd(cmd.right)
    [] cmd.type = "PIPE" ->
         << Call("pipe"),
            <<"fork", <<<<"close", 1>>, <<"dup", 2>>, <<"closep", 1>>, <<"closep", 2>>>>
                      \o runcmd(cmd.left)>>,
            <<"fork", <<<<"close", 0>>, <<"dup", 1>>, <<"closep", 1>>, <<"closep", 2>>>>
                      \o runcmd(cmd.right)>>,
            <<"closep", 1>>, <<"closep", 2>>, Call("wait"), Call("wait") >> \o EXIT
    [] cmd.type = "BACK" -> << <<"fork", runcmd(cmd.cmd)>> >> \o EXIT

\* merge_to_command: the stages of a line, as the names of their programs.
StagesOf(s) ==
  LET i == SelectInSeq(s, LAMBDA tok : tok = "|") IN
  IF i = 0 THEN <<s>> ELSE <<SubSeq(s, 1, i - 1)>> \o StagesOf(SubSeq(s, i + 1, Len(s)))

execute_command(stage) == IF stage = << >> THEN EXIT ELSE exec(stage[1])

\* execute_commands: every stage but the last is a child writing to a pipe
\* the caller reads from; the caller becomes the last stage.  dup2 closes its
\* target; the descriptors of the pipe stay open in whoever keeps them.
RECURSIVE execute_commands(_)
execute_commands(stages) ==
  IF Len(stages) = 1 THEN execute_command(stages[1])
  ELSE << Call("pipe"),
          <<"fork", <<<<"closep", 1>>, <<"close", 1>>, <<"dup", 2>>>>
                    \o execute_command(stages[1])>>,
          <<"closep", 2>>, <<"close", 0>>, <<"dup", 1>> >>
       \o execute_commands(Tail(stages))

\* main of either shell, for one line.
main ==
  << <<"fork", IF sh = "xv6" THEN runcmd(parsecmd(line))
               ELSE execute_commands(StagesOf(line))>>,
     Call("wait"), Call("prompt") >>

-----------------------------------------------------------------------------
NoFile == [ref |-> 0, type |-> "none", pipe |-> 0, name |-> "none", writable |-> FALSE,
           off |-> 0]
Console == [NoFile EXCEPT !.type = "console", !.writable = TRUE, !.ref = 3]
NoPipe == [live |-> FALSE, data |-> << >>, nread |-> 0, nwrite |-> 0, readopen |-> FALSE,
           writeopen |-> FALSE]
Unused == [state |-> "unused", code |-> << >>, parent |-> 0, ofile |-> [fd \in Fds |-> 0],
           p |-> <<0, 0>>, chan |-> Awake, killed |-> FALSE]

Init ==
  /\ \/ line \in Lines \cup XLines /\ sh = "xv6"
     \/ line \in SLines /\ sh = "ssu"
  /\ file = [f \in 1..NFILE |-> IF f = 1 THEN Console ELSE NoFile]
  /\ pipe = [q \in 1..NPIPE |-> NoPipe]
  /\ pr = [p \in Procs |->
             IF p # 1 THEN Unused
             ELSE [Unused EXCEPT !.state = "runnable", !.code = main,
                                 !.ofile = [fd \in Fds |-> IF fd < 3 THEN 1 ELSE 0]]]
  /\ text = [n \in Files |-> << >>]
  /\ screen = << >> /\ faults = {}

Op(p) == Head(pr[p].code)
Done(p) == [pr EXCEPT ![p].code = Tail(@)]
Exits(p) == [pr EXCEPT ![p].code = EXIT]
Ready(p, op) == pr[p].state = "runnable" /\ pr[p].chan = Awake /\ Op(p)[1] = op
Running(p, op) == Ready(p, op) /\ ~pr[p].killed

Wakeup(P, c) == [q \in Procs |-> IF P[q].chan = c THEN [P[q] EXCEPT !.chan = Awake] ELSE P[q]]
ReadChan(q) == <<"nread", q>>
WriteChan(q) == <<"nwrite", q>>

Lowest(S) == CHOOSE x \in S : \A y \in S : x <= y

-----------------------------------------------------------------------------
\* file.c and sysfile.c

FreeFds(p) == {fd \in Fds : pr[p].ofile[fd] = 0}
FreeFiles == {f \in 1..NFILE : file[f].ref = 0}

\* fileclose on the descriptor fd: drop the reference, and when it was the
\* last clear the entry and go on to pipeclose with the copy.
fileclose(p, fd, rest) ==
  LET f == pr[p].ofile[fd]
      last == file[f].ref = 1 IN
  /\ file' = [file EXCEPT ![f] = IF last THEN NoFile ELSE [@ EXCEPT !.ref = @ - 1]]
  /\ pr' = [pr EXCEPT ![p].ofile[fd] = 0,
              ![p].code = IF last /\ file[f].type = "pipe"
                          THEN <<<<"pipeclose", file[f].pipe, file[f].writable>>>> \o rest
                          ELSE rest]

CloseFd(p) == IF Op(p)[1] = "close" THEN Op(p)[2] ELSE pr[p].p[Op(p)[2]]

sys_close(p) ==
  /\ Running(p, "close") \/ Running(p, "closep")
  /\ IF pr[p].ofile[CloseFd(p)] = 0
     THEN pr' = Done(p) /\ UNCHANGED file
     ELSE fileclose(p, CloseFd(p), Tail(pr[p].code))
  /\ UNCHANGED <<line, sh, pipe, text, screen, faults>>

\* Mutant: dup without filedup.
sys_dup_uncounted(p) ==
  /\ Running(p, "dup")
  /\ pr' = [Done(p) EXCEPT ![p].ofile[Lowest(FreeFds(p))] = pr[p].ofile[pr[p].p[Op(p)[2]]]]
  /\ UNCHANGED <<line, sh, file, pipe, text, screen, faults>>

sys_dup(p) ==
  LET f == pr[p].ofile[pr[p].p[Op(p)[2]]] IN
  /\ Running(p, "dup")
  /\ file' = [file EXCEPT ![f].ref = @ + 1]
  /\ pr' = [Done(p) EXCEPT ![p].ofile[Lowest(FreeFds(p))] = f]
  /\ UNCHANGED <<line, sh, pipe, text, screen, faults>>

\* open of a regular file.  Without O_CREATE it must exist: a file that was
\* never written counts as none, either gives its reader no byte.
sys_open(p) ==
  /\ Running(p, "open")
  /\ LET name == Op(p)[2]
         w == Op(p)[3] IN
     IF (~w /\ text[name] = << >>) \/ FreeFiles = {}
     THEN pr' = Exits(p) /\ UNCHANGED file
     ELSE LET f == Lowest(FreeFiles) IN
          /\ file' = [file EXCEPT ![f] = [NoFile EXCEPT !.ref = 1, !.type = "inode",
                                                        !.name = name, !.writable = w]]
          /\ pr' = [Done(p) EXCEPT ![p].ofile[Lowest(FreeFds(p))] = f]
  /\ UNCHANGED <<line, sh, pipe, text, screen, faults>>

-----------------------------------------------------------------------------
\* pipe.c

\* pipealloc and the two fdalloc of sys_pipe.
sys_pipe(p) ==
  LET q == Lowest({i \in 1..NPIPE : ~pipe[i].live})
      r == Lowest(FreeFiles)
      w == Lowest(FreeFiles \ {r})
      fd0 == Lowest(FreeFds(p))
      fd1 == Lowest(FreeFds(p) \ {fd0})
      end == [NoFile EXCEPT !.ref = 1, !.type = "pipe", !.pipe = q] IN
  /\ Running(p, "pipe")
  /\ Cardinality(FreeFiles) > 1 /\ Cardinality(FreeFds(p)) > 1
  /\ pipe' = [pipe EXCEPT ![q] = [NoPipe EXCEPT !.live = TRUE, !.readopen = TRUE,
                !.writeopen = TRUE, !.data = [i \in 0..PIPESIZE - 1 |-> 0]]]
  /\ file' = [file EXCEPT ![r] = end, ![w] = [end EXCEPT !.writable = TRUE]]
  /\ pr' = [Done(p) EXCEPT ![p].p = <<fd0, fd1>>, ![p].ofile[fd0] = r, ![p].ofile[fd1] = w]
  /\ UNCHANGED <<line, sh, text, screen, faults>>

\* The failing paths give back what they took; the shell panics.
sys_pipe_fails(p) ==
  /\ Running(p, "pipe") /\ sh = "xv6"
  /\ pr' = Exits(p)
  /\ faults' = faults \cup {"pipe"}
  /\ UNCHANGED <<line, sh, file, pipe, text, screen>>

\* Mutant: the reader is not woken when the last writer goes.
pipeclose_silent(p) ==
  /\ Ready(p, "pipeclose")
  /\ LET q == Op(p)[2]
         new == IF Op(p)[3] THEN [pipe[q] EXCEPT !.writeopen = FALSE]
                ELSE [pipe[q] EXCEPT !.readopen = FALSE] IN
     /\ pipe' = [pipe EXCEPT ![q] = IF new.readopen \/ new.writeopen THEN new ELSE NoPipe]
     /\ pr' = IF Op(p)[3] THEN Done(p) ELSE Wakeup(Done(p), WriteChan(q))
  /\ UNCHANGED <<line, sh, file, text, screen, faults>>

pipeclose(p) ==
  /\ Ready(p, "pipeclose")
  /\ LET q == Op(p)[2]
         new == IF Op(p)[3] THEN [pipe[q] EXCEPT !.writeopen = FALSE]
                ELSE [pipe[q] EXCEPT !.readopen = FALSE] IN
     /\ pipe' = [pipe EXCEPT ![q] = IF new.readopen \/ new.writeopen THEN new ELSE NoPipe]
     /\ pr' = Wakeup(Done(p), IF Op(p)[3] THEN ReadChan(q) ELSE WriteChan(q))
  /\ UNCHANGED <<line, sh, file, text, screen, faults>>

Used(q) == (pipe[q].nwrite + WRAP - pipe[q].nread) % WRAP
After(p, code) == IF pr[p].killed THEN EXIT ELSE code

\* pipewrite of the bytes bs until they are all in, or the pipe is full: then
\* it fails without a reader, or sleeps and goes on with the rest.
pipewrite(p, q, bs, ok, failed) ==
  LET room == PIPESIZE - Used(q)
      k == IF Len(bs) < room THEN Len(bs) ELSE room
      put(P, b) == [P EXCEPT !.data[P.nwrite % PIPESIZE] = b, !.nwrite = (@ + 1) % WRAP] IN
  /\ pipe' = [pipe EXCEPT ![q] = FoldLeft(put, @, SubSeq(bs, 1, k))]
  /\ IF k = Len(bs) THEN pr' = [Wakeup(pr, ReadChan(q)) EXCEPT ![p].code = ok]
     ELSE IF ~pipe[q].readopen \/ pr[p].killed THEN pr' = [pr EXCEPT ![p].code = failed]
     ELSE pr' = [Wakeup(pr, ReadChan(q)) EXCEPT ![p].chan = WriteChan(q),
                   ![p].code = <<<<"write", SubSeq(bs, k + 1, Len(bs))>>>> \o Tail(@)]

\* Mutant: a pipe whose writers are gone counts as empty.
Filled_closed(q) == IF pipe[q].writeopen THEN Used(q) ELSE 0

\* The bytes the loop of piperead finds.
Filled(q) == Used(q)

\* What cat and wc do with the bytes their read returned.
Got(p, bs) ==
  After(p, IF Op(p)[1] = "cat"
           THEN IF bs = << >> THEN EXIT ELSE <<<<"write", bs>>>> \o pr[p].code
           ELSE IF bs = << >> THEN <<<<"put", Op(p)[2]>>>> \o EXIT
                ELSE <<<<"wc", Op(p)[2] + Len(bs)>>>>)

piperead(p, q) ==
  LET bs == [i \in 1..Filled(q) |-> pipe[q].data[(pipe[q].nread + i - 1) % PIPESIZE]] IN
  IF bs = << >> /\ pipe[q].writeopen
  THEN /\ pr' = IF pr[p].killed THEN Exits(p) ELSE [pr EXCEPT ![p].chan = ReadChan(q)]
       /\ UNCHANGED pipe
  ELSE /\ pipe' = [pipe EXCEPT ![q].nread = (@ + Len(bs)) % WRAP]
       /\ pr' = [Wakeup(pr, WriteChan(q)) EXCEPT ![p].code = Got(p, bs)]

-----------------------------------------------------------------------------
\* The programs: fileread on descriptor 0 and filewrite on descriptor 1.

Overwrite(old, off, bs) ==
  SubSeq(old, 1, off) \o bs \o SubSeq(old, off + Len(bs) + 1, Len(old))

\* printf writes byte by byte and looks at no result; cat exits when write
\* fails.  A host kills who writes to a pipe without reader.
write(p) ==
  LET bs == IF Op(p)[1] = "put" THEN <<Op(p)[2]>> ELSE Op(p)[2]
      f == pr[p].ofile[1]
      rest == Tail(pr[p].code)
      ok == After(p, rest)
      failed == IF Op(p)[1] = "put" THEN ok ELSE EXIT IN
  /\ Ready(p, "put") \/ Ready(p, "write")
  /\ \/ /\ file[f].type = "console"
        /\ screen' = screen \o bs
        /\ pr' = [pr EXCEPT ![p].code = ok]
        /\ UNCHANGED <<file, pipe, text>>
     \/ /\ file[f].type = "inode"
        /\ text' = [text EXCEPT ![file[f].name] = Overwrite(@, file[f].off, bs)]
        /\ file' = [file EXCEPT ![f].off = @ + Len(bs)]
        /\ pr' = [pr EXCEPT ![p].code = ok]
        /\ UNCHANGED <<pipe, screen>>
     \/ /\ file[f].type = "pipe"
        /\ IF sh = "ssu" /\ ~pipe[file[f].pipe].readopen
           THEN pr' = Exits(p) /\ UNCHANGED pipe
           ELSE pipewrite(p, file[f].pipe, bs, ok, failed)
        /\ UNCHANGED <<file, text, screen>>
  /\ UNCHANGED <<line, sh, faults>>

\* cat(0) and wc(0): the read of their loops.  Nothing is typed at the
\* console.
read(p) ==
  LET f == pr[p].ofile[0] IN
  /\ Ready(p, "cat") \/ Ready(p, "wc")
  /\ \/ /\ file[f].type = "console"
        /\ pr' = [pr EXCEPT ![p].code = Got(p, << >>)]
        /\ UNCHANGED <<file, pipe>>
     \/ /\ file[f].type = "inode"
        /\ pr' = [pr EXCEPT ![p].code =
                    Got(p, SubSeq(text[file[f].name], file[f].off + 1, Len(text[file[f].name])))]
        /\ file' = [file EXCEPT ![f].off = Len(text[file[f].name])]
        /\ UNCHANGED pipe
     \/ /\ file[f].type = "pipe"
        /\ piperead(p, file[f].pipe)
        /\ UNCHANGED file
  /\ UNCHANGED <<line, sh, text, screen, faults>>

-----------------------------------------------------------------------------
\* Processes.

fork(p) ==
  LET free == {c \in Procs : pr[c].state = "unused"}
      c == Lowest(free)
      Refs(f) == Cardinality({fd \in Fds : pr[p].ofile[fd] = f}) IN
  /\ Running(p, "fork")
  /\ IF free = {}
     THEN /\ pr' = Exits(p) /\ faults' = faults \cup {"fork"}
          /\ UNCHANGED file
     ELSE /\ pr' = [Done(p) EXCEPT ![c] = [pr[p] EXCEPT !.parent = p, !.code = Op(p)[2]]]
          /\ file' = [f \in 1..NFILE |-> [file[f] EXCEPT !.ref = @ + Refs(f)]]
          /\ UNCHANGED faults
  /\ UNCHANGED <<line, sh, pipe, text, screen>>

wait(p) ==
  LET kids == {c \in Procs : pr[c].state # "unused" /\ pr[c].parent = p}
      zombies == {c \in kids : pr[c].state = "zombie"} IN
  /\ Running(p, "wait")
  /\ \/ kids = {} /\ pr' = Done(p)
     \/ zombies # {} /\ pr' = [Done(p) EXCEPT ![Lowest(zombies)] = Unused]
  /\ UNCHANGED <<line, sh, file, pipe, text, screen, faults>>

\* exit closes the descriptors one by one, gives the children to init and
\* leaves a zombie; what belongs to init (0) is reaped.
exit(p) ==
  LET open == {fd \in Fds : pr[p].ofile[fd] # 0}
      heir(q) == IF pr[q].parent = p THEN [pr[q] EXCEPT !.parent = 0] ELSE pr[q]
      gone(q) == q # 1 /\ heir(q).parent = 0 /\ (q = p \/ pr[q].state = "zombie") IN
  /\ Ready(p, "exit")
  /\ IF open # {} THEN fileclose(p, Lowest(open), pr[p].code)
     ELSE /\ pr' = [q \in Procs |-> IF gone(q) THEN Unused
                                    ELSE IF q = p THEN [pr[p] EXCEPT !.state = "zombie"]
                                    ELSE heir(q)]
          /\ UNCHANGED file
  /\ UNCHANGED <<line, sh, pipe, text, screen, faults>>

kill(p) ==
  /\ p # 1 /\ pr[p].state = "runnable" /\ ~pr[p].killed
  /\ line \in KillLines /\ "kill" \notin faults
  /\ pr' = [pr EXCEPT ![p].killed = TRUE, ![p].chan = Awake]
  /\ faults' = faults \cup {"kill"}
  /\ UNCHANGED <<line, sh, file, pipe, text, screen>>

\* trap: a killed process exits at the next entry to or return from the
\* kernel.
trap_killed(p) ==
  /\ pr[p].killed /\ pr[p].state = "runnable" /\ pr[p].chan = Awake
  /\ Op(p)[1] \notin {"exit", "pipeclose"}
  /\ pr' = Exits(p)
  /\ UNCHANGED <<line, sh, file, pipe, text, screen, faults>>

-----------------------------------------------------------------------------
Step(p) ==
  \/ sys_close(p) \/ sys_dup(p) \/ sys_open(p) \/ sys_pipe(p) \/ sys_pipe_fails(p)
  \/ pipeclose(p) \/ write(p) \/ read(p)
  \/ fork(p) \/ wait(p) \/ exit(p) \/ trap_killed(p)

Runs == (sh = "xv6" /\ line \in XLines) \/ (sh = "ssu" /\ line \in SLines)

Next == Runs /\ \E p \in Procs : Step(p) \/ kill(p)

Spec == Init /\ [][Next]_vars

\* The scheduler does not idle while a process can run; which one it runs is
\* left open.
FairSpec == Spec /\ WF_vars(Runs /\ \E p \in Procs : Step(p))

-----------------------------------------------------------------------------
\* What a command means: the bytes it prints and the files it leaves, from
\* the bytes it is given.

RECURSIVE Meaning(_, _, _)
Meaning(cmd, in, txt) ==
  LET Out(bs) == [out |-> bs, txt |-> txt] IN
  CASE cmd.type = "EXEC" ->
         IF cmd.argv = << >> THEN Out(<< >>)
         ELSE CASE cmd.argv[1] = "echo" -> Out(Bytes)
                [] cmd.argv[1] = "cat" -> Out(in)
                [] cmd.argv[1] = "wc" -> Out(<<Len(in)>>)
                [] OTHER -> Out(<< >>)
    [] cmd.type = "REDIR" ->
         IF cmd.fd = 0
         THEN IF txt[cmd.file] = << >> THEN Out(<< >>) ELSE Meaning(cmd.cmd, txt[cmd.file], txt)
         ELSE LET m == Meaning(cmd.cmd, in, txt)
              IN  [out |-> << >>, txt |-> [m.txt EXCEPT ![cmd.file] = Overwrite(@, 0, m.out)]]
    [] cmd.type = "PIPE" ->
         LET l == Meaning(cmd.left, in, txt) IN Meaning(cmd.right, l.out, l.txt)
    [] cmd.type = "LIST" ->
         LET l == Meaning(cmd.left, in, txt)
             r == Meaning(cmd.right, << >>, l.txt)
         IN  [out |-> l.out \o r.out, txt |-> r.txt]
    [] OTHER -> Out(<< >>)

Prompt == Op(1)[1] = "prompt"
Alone == \A p \in Procs : p # 1 => pr[p].state = "unused"
Plain == "&" \notin {line[i] : i \in DOMAIN line}

\* A line prints what it means, however its processes interleave and however
\* small the pipes are, when nothing failed: at the prompt of xv6's shell, and
\* once its stages are gone for ssu_shell, which waits for the last only.
PrintsItsMeaning ==
  (Runs /\ Prompt /\ faults = {} /\ Plain /\ (sh = "ssu" => Alone)) =>
    LET m == Meaning(parsecmd(line), << >>, [n \in Files |-> << >>])
    IN  screen = m.out /\ text = m.txt

\* References are exact: an entry of the file table counts the descriptors
\* that name it, and a pipe lives exactly as long as one of its ends is open
\* or on its way to pipeclose; what is freed is no one's any more.
RefsExact ==
  /\ LET held == {x \in Procs \X Fds : pr[x[1]].ofile[x[2]] # 0} IN
     \A f \in 1..NFILE :
       file[f].ref = Cardinality({x \in held : pr[x[1]].ofile[x[2]] = f})
  /\ \A q \in 1..NPIPE, w \in BOOLEAN :
       (IF w THEN pipe[q].writeopen ELSE pipe[q].readopen)
         <=> \/ \E f \in 1..NFILE : file[f].type = "pipe" /\ file[f].pipe = q
                                    /\ file[f].writable = w
             \/ \E p \in Procs : pr[p].code # << >> /\ Op(p) = <<"pipeclose", q, w>>

\* The shell comes back to its prompt and every process ends, whether a
\* stage is killed, does not exist, or a fork or a pipe fails.
LineEnds == Runs ~> (Prompt /\ Alone)

\* parsecmd reads every line as the grammar does, in one way, and refuses
\* exactly the others (checked where main forks the child that parses it).
ParsesTheGrammar == Op(1)[1] = "fork" => CommandsOf(line) = {parsecmd(line)}
=============================================================================
