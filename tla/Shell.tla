---------------------------------- MODULE Shell ----------------------------------
(***************************************************************************)
(* The shell (user/sh.c): umain reads a line and forks a process that runs *)
(* it; runcmd redirects descriptors, splits itself at a | into a left and  *)
(* a right process, spawns the command and waits.                          *)
(*                                                                         *)
(* A line is a sequence of tokens (see Lexer).  A process is the shell, a  *)
(* forked shell or a spawned program.  A descriptor is what it refers to;  *)
(* a pipe is named by the line and the stage that made it and holds a      *)
(* number of items (how a pipe works is the subject of Pipe).  The         *)
(* programs are three that stand for all: a producer, a filter that reads  *)
(* to the end of its input, and one that looks at nothing.  No command of  *)
(* MAXARGS words is typed: argv[argc] = 0 (user/sh.c:143) then lies behind *)
(* the array.                                                              *)
(***************************************************************************)
EXTENDS Integers, Sequences, FiniteSets

LOCAL INSTANCE FiniteSetsExt

CONSTANTS
  NPROC,         \* bound: processes, the shell is process 0
  SHFD,          \* descriptors of a process, MAXFD
  MAXARGS,
  PIPESIZE,      \* items a pipe holds
  CommandLines,  \* the lines that are typed
  MaxLines,      \* bound: how many of them
  Items          \* what a producer writes

Procs == 0 .. NPROC - 1
Descriptors == 0 .. SHFD - 1
Symbols == {"<", ">", "|", "&", ";", "(", ")"}

Closed == <<"closed">>
Con == <<"console">>
FileOn(name) == <<"file", name>>
ReadEnd(k) == <<"read", k>>
WriteEnd(k) == <<"write", k>>

VARIABLES
  proc,          \* the processes
  items,         \* how many items each pipe holds
  typed          \* how many lines were typed

shVars == <<proc, items, typed>>

NoDescriptors == [i \in Descriptors |-> Closed]
Unused ==
  [pc |-> "free", fds |-> NoDescriptors, line |-> <<>>, toks |-> <<>>, argv |-> <<>>,
   pfd |-> <<0, 0>>, wait |-> 0, pipe_child |-> 0, stage |-> 0, lineno |-> 0, left |-> 0]

ShInit ==
  /\ proc = [p \in Procs |->
       IF p = 0 THEN [Unused EXCEPT !.pc = "prompt",
                                    !.fds = [i \in Descriptors |-> IF i < 2 THEN Con ELSE Closed]]
       ELSE Unused]
  /\ items = [k \in {} |-> 0]
  /\ typed = 0

\* A panic stops the machine in the monitor.
Panicked == \E p \in Procs : proc[p].pc = "panic"
IsAt(p, pc) == ~Panicked /\ proc[p].pc = pc
Becomes(p, r) == proc' = [proc EXCEPT ![p] = r]

NewProc == Min({p \in Procs : proc[p].pc = "free"})
Exited(r) == [r EXCEPT !.pc = "dead", !.fds = NoDescriptors]
ShExit(p) == Becomes(p, Exited(proc[p])) /\ UNCHANGED <<items, typed>>

\* fd_alloc, and what follows it in the shell: "if it is not the one wanted,
\* dup it and close the original".
FreeFds(fds) == {i \in Descriptors : fds[i] = Closed}
MoveFd_KeepsOld(fds, from, to) == [fds EXCEPT ![to] = fds[from]]
MoveFd(fds, from, to) ==
  IF from = to THEN fds ELSE [fds EXCEPT ![to] = fds[from], ![from] = Closed]

-----------------------------------------------------------------------------
\* umain: a line is read and runcmd runs in a fork.  The dead are forgotten.
ReadLine(line) ==
  /\ IsAt(0, "prompt")
  /\ typed < MaxLines
  /\ typed' = typed + 1
  /\ UNCHANGED items
  /\ LET others == [p \in Procs |-> IF proc[p].pc = "dead" THEN Unused ELSE proc[p]]
         new == Min({p \in Procs : others[p].pc = "free"})
     IN  \/ proc' = [others EXCEPT
              ![0].pc = "wait", ![0].wait = new,
              ![new] = [Unused EXCEPT !.pc = "token", !.fds = proc[0].fds, !.line = line,
                                      !.toks = line, !.stage = 1, !.lineno = typed + 1]]
         \/ proc' = [others EXCEPT ![0].pc = "panic"]      \* fork fails

\* runcmd's loop
Token(r) == IF r.toks = <<>> THEN "end" ELSE Head(r.toks)
IsWord(token) == token \notin Symbols \cup {"end"}
TooMany(argv) == Len(argv) = MAXARGS
AddArgument(p) ==
  LET r == proc[p]
  IN  /\ IsWord(Token(r))
      /\ IF TooMany(r.argv)
         THEN Becomes(p, Exited(r))
         ELSE Becomes(p, [r EXCEPT !.argv = Append(@, Head(r.toks)), !.toks = Tail(@)])
      /\ UNCHANGED <<items, typed>>

Redirect(p, symbol, fd) ==
  LET r == proc[p]
      rest == Tail(r.toks)
      opened == Min(FreeFds(r.fds))
  IN  /\ Token(r) = symbol
      /\ IF ~IsWord(Token([r EXCEPT !.toks = rest]))
         THEN Becomes(p, Exited(r))
         ELSE \/ Becomes(p, Exited(r))                          \* open fails
              \/ /\ FreeFds(r.fds) # {}
                 /\ Becomes(p, [r EXCEPT !.toks = Tail(rest),
                                     !.fds = MoveFd([r.fds EXCEPT ![opened] = FileOn(Head(rest))],
                                                    opened, fd)])
      /\ UNCHANGED <<items, typed>>

\* pipe and fork; either may fail
Split(p) ==
  LET r == proc[p]
      k == <<r.lineno, r.stage>>
      p0 == Min(FreeFds(r.fds))
      p1 == Min(FreeFds(r.fds) \ {p0})
      made == [r EXCEPT !.fds[p0] = ReadEnd(k), !.fds[p1] = WriteEnd(k), !.pfd = <<p0, p1>>,
                        !.toks = Tail(@)]
  IN  /\ Token(r) = "|"
      /\ \/ ShExit(p)
         \/ /\ Cardinality(FreeFds(r.fds)) >= 2
            /\ proc' = [proc EXCEPT
                 ![p] = [made EXCEPT !.pc = "left", !.pipe_child = NewProc],
                 ![NewProc] = [made EXCEPT !.pc = "right", !.stage = @ + 1]]
            /\ items' = [i \in DOMAIN items \cup {k} |-> IF i = k THEN 0 ELSE items[i]]
            /\ UNCHANGED typed

GetTokens(p) ==
  /\ IsAt(p, "token")
  /\ LET r == proc[p]
         token == Token(r)
     IN  \/ AddArgument(p)
         \/ Redirect(p, "<", 0)
         \/ Redirect(p, ">", 1)
         \/ Split(p)
         \/ /\ token \in {"end"} \cup (Symbols \ {"<", ">", "|"})
            /\ Becomes(p, [r EXCEPT !.pc = IF token = "end" THEN "runit" ELSE "panic"])
            /\ UNCHANGED <<items, typed>>

\* After the fork: the left side writes to the pipe and runs what it has, the
\* right side reads from it and goes on with the line.
CloseFd(fds, fd) == [fds EXCEPT ![fd] = Closed]
RightFds_KeepsEnd(fds, pfd) == MoveFd(fds, pfd[1], 0)
RightFds(fds, pfd) == CloseFd(MoveFd(fds, pfd[1], 0), pfd[2])
LeftFds(fds, pfd) == CloseFd(MoveFd(fds, pfd[2], 1), pfd[1])
Join(p) ==
  LET r == proc[p]
  IN  /\ \/ IsAt(p, "left") /\ Becomes(p, [r EXCEPT !.fds = LeftFds(@, r.pfd), !.pc = "runit"])
         \/ IsAt(p, "right") /\ Becomes(p, [r EXCEPT !.fds = RightFds(@, r.pfd), !.pc = "token", !.argv = <<>>])
      /\ UNCHANGED <<items, typed>>

\* spawn, then close_all and the first wait
NextWait_Forgets(r) == Exited(r)
NextWait(r) ==
  IF r.pipe_child = 0 THEN Exited(r)
  ELSE [r EXCEPT !.pc = "wait", !.wait = r.pipe_child, !.pipe_child = 0, !.fds = NoDescriptors]
Runit(p) ==
  LET r == proc[p]
  IN  /\ IsAt(p, "runit")
      /\ IF r.argv = <<>> THEN Becomes(p, Exited(r))
         ELSE \/ Becomes(p, NextWait(r))                        \* spawn fails
              \/ /\ FreeFds(r.fds) # {}
                 /\ proc' = [proc EXCEPT
                      ![p] = [r EXCEPT !.pc = "wait", !.wait = NewProc, !.fds = NoDescriptors],
                      ![NewProc] = [r EXCEPT !.pc = "program", !.pipe_child = 0,
                                             !.left = IF r.argv[1] = "produce" THEN Items ELSE 0]]
      /\ UNCHANGED <<items, typed>>

\* wait(r), and what comes after it
EndWait(p) ==
  /\ IsAt(p, "wait")
  /\ proc[proc[p].wait].pc = "dead"
  /\ Becomes(p, IF p = 0 THEN [proc[0] EXCEPT !.pc = "prompt", !.wait = 0] ELSE NextWait(proc[p]))
  /\ UNCHANGED <<items, typed>>

-----------------------------------------------------------------------------
\* The programs; a file or the console has no input here.
HasEnd(end) == \E p \in Procs, i \in Descriptors : proc[p].fds[i] = end
InputEnds(p) ==
  LET in == proc[p].fds[0]
  IN  in[1] = "read" => items[in[2]] = 0 /\ ~HasEnd(WriteEnd(in[2]))

ReadItem(p) ==
  /\ IsAt(p, "program")
  /\ proc[p].argv[1] = "filter" /\ proc[p].left = 0
  /\ LET in == proc[p].fds[0]
     IN  IF InputEnds(p)
         THEN ShExit(p)
         ELSE /\ items[in[2]] > 0
              /\ items' = [items EXCEPT ![in[2]] = @ - 1]
              /\ Becomes(p, [proc[p] EXCEPT !.left = 1])
              /\ UNCHANGED typed

WriteItem(p) ==
  /\ IsAt(p, "program")
  /\ proc[p].left > 0
  /\ LET out == proc[p].fds[1]
         wrote == Becomes(p, [proc[p] EXCEPT !.left = @ - 1]) /\ UNCHANGED typed
     IN  IF out[1] # "write"
         THEN wrote /\ UNCHANGED items
         ELSE IF ~HasEnd(ReadEnd(out[2])) THEN ShExit(p)
         ELSE /\ items[out[2]] < PIPESIZE
              /\ items' = [items EXCEPT ![out[2]] = @ + 1]
              /\ wrote

Finish(p) ==
  /\ IsAt(p, "program")
  /\ proc[p].argv[1] # "filter" /\ proc[p].left = 0
  /\ ShExit(p)

-----------------------------------------------------------------------------
ShStep(p) ==
  \/ GetTokens(p) \/ Join(p) \/ Runit(p) \/ EndWait(p)
  \/ ReadItem(p) \/ WriteItem(p) \/ Finish(p)

ShNext ==
  \/ \E line \in CommandLines : ReadLine(line)
  \/ \E p \in Procs : ShStep(p)

ShSpec ==
  /\ ShInit /\ [][ShNext]_shVars
  /\ WF_shVars(\E p \in Procs : ShStep(p))

-----------------------------------------------------------------------------
(***************************************************************************)
(* Properties                                                              *)
(***************************************************************************)

\* The tokens of a stage of a line, by definition
Bars(line) == {i \in DOMAIN line : line[i] = "|"}
StageOf(line, i) == Cardinality({j \in Bars(line) : j < i}) + 1
InStage(line, n, i) == line[i] # "|" /\ StageOf(line, i) = n
Names(line, n, symbol) ==
  {i \in DOMAIN line : i > 1 /\ InStage(line, n, i) /\ line[i - 1] = symbol /\ line[i] \notin Symbols}
ArgumentsOf(line, n) ==
  LET at == {i \in DOMAIN line : InStage(line, n, i) /\ line[i] \notin Symbols}
              \ (Names(line, n, "<") \cup Names(line, n, ">"))
  IN  [k \in 1 .. Cardinality(at) |->
         line[CHOOSE i \in at : Cardinality({j \in at : j < i}) = k - 1]]

\* A command starts with the arguments of its stage of the line; it reads the
\* last file named with <, or else the pipe from the stage before it, or else
\* the console; it writes to the pipe to the stage after it, or else the last
\* file named with > so far (the right side of a | inherits what the left side
\* had redirected), or else the console; and it has nothing else open.
StartsProgram(p) == proc[p].pc # "program" /\ proc'[p].pc = "program"
CommandIsAsTyped ==
  [][\A p \in Procs : StartsProgram(p) =>
       LET line == proc'[p].line
           n == proc'[p].stage
           fds == proc'[p].fds
           in == Names(line, n, "<")
           out == UNION {Names(line, k, ">") : k \in 1 .. n}
           lineno == proc'[p].lineno
       IN  /\ proc'[p].argv = ArgumentsOf(line, n)
           /\ fds[0] = IF in # {} THEN FileOn(line[Max(in)])
                       ELSE IF n > 1 THEN ReadEnd(<<lineno, n - 1>>) ELSE Con
           /\ fds[1] = IF n <= Cardinality(Bars(line)) THEN WriteEnd(<<lineno, n>>)
                       ELSE IF out # {} THEN FileOn(line[Max(out)]) ELSE Con
           /\ \A i \in Descriptors : i > 1 => fds[i] = Closed]_shVars

\* user/sh.c:16 says runcmd does "not return until the shell command is
\* finished": when the shell prompts, no process of a line is left, unless the
\* command before a | is empty.
HasEmptyStage(line) ==
  \E n \in 1 .. Cardinality(Bars(line)) : ArgumentsOf(line, n) = <<>>
FinishedUnlessEmpty ==
  proc[0].pc = "prompt" =>
    \A p \in Procs \ {0} : proc[p].pc \in {"free", "dead"} \/ HasEmptyStage(proc[p].line)

\* The type invariant.
ShTypeOK ==
  /\ \A p \in Procs :
       /\ proc[p].pc \in {"free", "dead", "prompt", "token", "left", "right", "runit", "wait",
                          "program", "panic"}
       /\ Len(proc[p].argv) <= MAXARGS
       /\ \A i \in Descriptors :
            proc[p].fds[i][1] \in {"read", "write"} => proc[p].fds[i][2] \in DOMAIN items
  /\ \A k \in DOMAIN items : items[k] \in 0 .. PIPESIZE
  /\ typed \in 0 .. MaxLines
=============================================================================
