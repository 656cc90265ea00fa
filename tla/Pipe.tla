-------------------------------- MODULE Pipe --------------------------------
(***************************************************************************)
(* A pipe shared by environments that read, write, close, duplicate and    *)
(* fork at the same time: lib/pipe.c, lib/pageref.c, and the parts of      *)
(* lib/fd.c, lib/fork.c and lib/spawn.c that map and unmap its pages.      *)
(*                                                                         *)
(* A pipe has three shared pages: one descriptor page for each end and one *)
(* page with the buffer, mapped beside every descriptor.  Nothing but the  *)
(* reference counts of these pages tells whether the other end is open.    *)
(*                                                                         *)
(* A step is one system call, or one access to shared memory.  Between any *)
(* two steps the clock may hand the CPU to another environment.  What the  *)
(* system calls do is the subject of Kernel, which also shows that a       *)
(* reference count is the number of mappings.                              *)
(*                                                                         *)
(* An operator named X_Y is X with a slip a programmer could make.         *)
(***************************************************************************)
EXTENDS Integers, FiniteSets

CONSTANTS
  Envs,         \* slots of envs[]
  Creator,      \* the environment that called pipe()
  Readers,      \* the environments whose programs call read()
  Writers,      \* the environments whose programs call write()
  MAXFD,        \* lib/fd.c: descriptors of an environment
  PIPEBUFSIZ,   \* lib/pipe.c: bytes in the buffer
  MaxBytes,     \* bound: bytes written in all
  NULL

ASSUME EnvsAssumption == IsFiniteSet(Envs) /\ Creator \in Envs /\ NULL \notin Envs
ASSUME RolesAssumption == Readers \subseteq Envs /\ Writers \subseteq Envs
ASSUME SizesAssumption ==
  MAXFD \in Nat /\ MAXFD >= 2 /\ PIPEBUFSIZ \in Nat \ {0} /\ MaxBytes \in Nat

Fds == 0 .. MAXFD - 1
Ends == {"O_RDONLY", "O_WRONLY"}

ASSUME EndsAssumption == NULL \notin Ends /\ NULL \notin Fds

OtherEnd(end) == IF end = "O_RDONLY" THEN "O_WRONLY" ELSE "O_RDONLY"

VARIABLES
  status,     \* envs[].env_status, running and runnable being one
  fd,         \* which descriptor page is mapped at INDEX2FD(i)
  data,       \* the i with the pipe's page mapped at INDEX2DATA(i)
  pc,         \* where an environment is inside the library, or "idle"
  call,       \* the arguments and local variables of that library function
  switched,   \* env_runs has changed since _pipeisclosed read it into n
  closed,     \* the end for which the last call found the other end closed
  p_rpos, p_wpos, p_buf,    \* struct Pipe
  last        \* history: the byte that a reader consumed last

vars == <<status, fd, data, pc, call, switched, closed, p_rpos, p_wpos, p_buf, last>>
pageVars == <<status, fd, data>>
pipeVars == <<p_rpos, p_wpos, p_buf, last>>

Labels == {"idle", "close", "dup data", "dup fd", "fork",
           "test", "move", "advance", "check", "compare"}

\* The arguments and locals: of close and dup the descriptors, of fork the
\* child and the address it has come to, of read, write and pipeisclosed the
\* descriptor, the bytes still to move, whether any was moved, the byte in
\* hand and pageref(fd).
Call == [name  : {"none", "close", "dup", "fork", "read", "write", "pipeisclosed"},
         fdnum : Fds,
         from  : Fds,
         child : Envs \cup {NULL},
         addr  : 0 .. 2 * MAXFD,
         left  : 0 .. MaxBytes,
         any   : BOOLEAN,
         byte  : Nat,
         refs  : Nat]
NoCall == [name |-> "none", fdnum |-> 0, from |-> 0, child |-> NULL, addr |-> 0,
           left |-> 0, any |-> FALSE, byte |-> 0, refs |-> 0]

-----------------------------------------------------------------------------
\* Pages and their reference counts

FdRefs(end) == {x \in Envs \X Fds : fd[x[1]][x[2]] = end}
DataRefs == {x \in Envs \X Fds : x[2] \in data[x[1]]}

pageref(end) == Cardinality(FdRefs(end))
pagerefPipe == Cardinality(DataRefs)

\* pipe() in a program that has no descriptor open yet
Init ==
  /\ status = [e \in Envs |-> IF e = Creator THEN "ENV_RUNNABLE" ELSE "ENV_FREE"]
  /\ fd = [e \in Envs |-> [i \in Fds |->
             IF e = Creator /\ i = 0 THEN "O_RDONLY"
             ELSE IF e = Creator /\ i = 1 THEN "O_WRONLY" ELSE NULL]]
  /\ data = [e \in Envs |-> IF e = Creator THEN {0, 1} ELSE {}]
  /\ pc = [e \in Envs |-> "idle"]
  /\ call = [e \in Envs |-> NoCall]
  /\ switched = [e \in Envs |-> TRUE]
  /\ closed = [e \in Envs |-> NULL]
  /\ p_rpos = 0 /\ p_wpos = 0
  /\ p_buf = [i \in 0 .. PIPEBUFSIZ - 1 |-> 0]
  /\ last = 0

\* e runs: every other environment sees a new env_runs when it is next run.
Runs(e) == status[e] = "ENV_RUNNABLE" /\ switched' = [f \in Envs |-> f # e \/ switched[f]]

\* A library function begins, goes on at a label, or returns.
Enter(e, label, c) ==
  /\ pc[e] = "idle"
  /\ pc' = [pc EXCEPT ![e] = label]
  /\ call' = [call EXCEPT ![e] = c]
  /\ closed' = [closed EXCEPT ![e] = NULL]
GoTo(e, label) ==
  pc' = [pc EXCEPT ![e] = label] /\ UNCHANGED <<call, closed>>
Return(e, answer) ==
  /\ pc' = [pc EXCEPT ![e] = "idle"]
  /\ call' = [call EXCEPT ![e] = NoCall]
  /\ closed' = [closed EXCEPT ![e] = answer]

-----------------------------------------------------------------------------
\* close and dup

\* devpipe_close: the descriptor goes first, then the pipe's page.
Close(e, i) ==
  /\ Runs(e)
  /\ fd[e][i] # NULL
  /\ Enter(e, "close", [NoCall EXCEPT !.name = "close", !.fdnum = i])
  /\ fd' = [fd EXCEPT ![e][i] = NULL]
  /\ UNCHANGED <<status, data, pipeVars>>

CloseData_Kept(e) ==
  /\ Runs(e)
  /\ pc[e] = "close"
  /\ IF call[e].name = "dup" THEN GoTo(e, "dup data") ELSE Return(e, NULL)
  /\ UNCHANGED <<status, fd, data, pipeVars>>
CloseData(e) ==
  /\ Runs(e)
  /\ pc[e] = "close"
  /\ data' = [data EXCEPT ![e] = @ \ {call[e].fdnum}]
  /\ IF call[e].name = "dup" THEN GoTo(e, "dup data") ELSE Return(e, NULL)
  /\ UNCHANGED <<status, fd, pipeVars>>

\* dup(i, j) closes j when it is open ...
Dup(e, i, j) ==
  /\ Runs(e)
  /\ fd[e][i] # NULL
  /\ Enter(e, IF fd[e][j] # NULL THEN "close" ELSE "dup data",
           [NoCall EXCEPT !.name = "dup", !.fdnum = j, !.from = i])
  /\ fd' = [fd EXCEPT ![e][j] = NULL]
  /\ UNCHANGED <<status, data, pipeVars>>

\* ... maps the pipe's page ...
DupData(e) ==
  /\ Runs(e)
  /\ pc[e] = "dup data"
  /\ data' = [data EXCEPT ![e] =
                IF call[e].from \in @ THEN @ \cup {call[e].fdnum} ELSE @]
  /\ GoTo(e, "dup fd")
  /\ UNCHANGED <<status, fd, pipeVars>>

\* ... and last the descriptor.  dup(i, i) has closed i; it fails and unmaps
\* what is not mapped.
DupFd(e) ==
  /\ Runs(e)
  /\ pc[e] = "dup fd"
  /\ fd' = [fd EXCEPT ![e][call[e].fdnum] = fd[e][call[e].from]]
  /\ Return(e, NULL)
  /\ UNCHANGED <<status, data, pipeVars>>

-----------------------------------------------------------------------------
\* fork, and copy_shared_pages in spawn: shared pages are mapped in the child
\* in the order of their addresses, and all descriptors lie below all data.

Mapped(e, addr) ==
  IF addr < MAXFD THEN fd[e][addr] # NULL ELSE \E i \in data[e] : addr = MAXFD + i
DataOf(addr) == addr - MAXFD
ToCopy(e) == {addr \in call[e].addr .. 2 * MAXFD - 1 : Mapped(e, addr)}

Fork(e, child) ==
  /\ Runs(e)
  /\ status[child] = "ENV_FREE"
  /\ status' = [status EXCEPT ![child] = "ENV_NOT_RUNNABLE"]
  /\ Enter(e, "fork", [NoCall EXCEPT !.name = "fork", !.child = child])
  /\ UNCHANGED <<fd, data, pipeVars>>

CopyPage(e) ==
  /\ Runs(e)
  /\ pc[e] = "fork"
  /\ \E addr \in ToCopy(e) :
       /\ \A other \in ToCopy(e) : addr <= other
       /\ IF addr < MAXFD
          THEN /\ fd' = [fd EXCEPT ![call[e].child][addr] = fd[e][addr]]
               /\ UNCHANGED data
          ELSE /\ data' = [data EXCEPT ![call[e].child] = @ \cup {DataOf(addr)}]
               /\ UNCHANGED fd
       /\ call' = [call EXCEPT ![e].addr = addr + 1]
  /\ UNCHANGED <<status, pc, closed, pipeVars>>

StartChild(e) ==
  /\ Runs(e)
  /\ pc[e] = "fork"
  /\ ToCopy(e) = {}
  /\ status' = [status EXCEPT ![call[e].child] = "ENV_RUNNABLE"]
  /\ Return(e, NULL)
  /\ UNCHANGED <<fd, data, pipeVars>>

\* sys_env_destroy by itself or its parent, or a fault, wherever it is
Destroy(e) ==
  /\ Runs(e)
  /\ status' = [status EXCEPT ![e] = "ENV_FREE"]
  /\ fd' = [fd EXCEPT ![e] = [i \in Fds |-> NULL]]
  /\ data' = [data EXCEPT ![e] = {}]
  /\ pc' = [pc EXCEPT ![e] = "idle"]
  /\ call' = [call EXCEPT ![e] = NoCall]
  /\ closed' = [closed EXCEPT ![e] = NULL]
  /\ UNCHANGED pipeVars

-----------------------------------------------------------------------------
\* read, write and pipeisclosed

Start(e, name, label, i, n) ==
  /\ Runs(e)
  /\ Enter(e, label, [NoCall EXCEPT !.name = name, !.fdnum = i, !.left = n])
  /\ UNCHANGED <<pageVars, pipeVars>>

Read(e, i, n) ==
  /\ e \in Readers
  /\ fd[e][i] = "O_RDONLY"
  /\ Start(e, "read", "test", i, n)
Write(e, i, n) ==
  /\ e \in Writers
  /\ fd[e][i] = "O_WRONLY"
  /\ p_wpos + n <= MaxBytes
  /\ Start(e, "write", "test", i, n)
PipeIsClosed(e, i) ==
  /\ fd[e][i] # NULL
  /\ Start(e, "pipeisclosed", "check", i, 0)

\* The head of the loops in devpipe_read and devpipe_write.
Blocked_Late(e) ==
  IF call[e].name = "read" THEN p_rpos = p_wpos ELSE p_wpos > p_rpos + PIPEBUFSIZ
Blocked(e) ==
  IF call[e].name = "read" THEN p_rpos = p_wpos ELSE p_wpos >= p_rpos + PIPEBUFSIZ

Test(e) ==
  /\ Runs(e)
  /\ pc[e] = "test"
  /\ IF ~Blocked(e)
     THEN GoTo(e, "move")
     ELSE IF call[e].name = "read" /\ call[e].any
          THEN Return(e, NULL)
          ELSE GoTo(e, "check")
  /\ UNCHANGED <<pageVars, pipeVars>>

\* The byte is taken, or stored, ...
Move(e) ==
  /\ Runs(e)
  /\ pc[e] = "move"
  /\ pc' = [pc EXCEPT ![e] = "advance"]
  /\ IF call[e].name = "read"
     THEN /\ call' = [call EXCEPT ![e].byte = p_buf[p_rpos % PIPEBUFSIZ]]
          /\ UNCHANGED p_buf
     ELSE /\ p_buf' = [p_buf EXCEPT ![p_wpos % PIPEBUFSIZ] = p_wpos + 1]
          /\ UNCHANGED call
  /\ UNCHANGED <<pageVars, closed, p_rpos, p_wpos, last>>

\* ... before the position moves on.
Advance(e) ==
  /\ Runs(e)
  /\ pc[e] = "advance"
  /\ IF call[e].name = "read"
     THEN p_rpos' = p_rpos + 1 /\ last' = call[e].byte /\ UNCHANGED p_wpos
     ELSE p_wpos' = p_wpos + 1 /\ UNCHANGED <<p_rpos, last>>
  /\ IF call[e].left = 1
     THEN Return(e, NULL)
     ELSE /\ pc' = [pc EXCEPT ![e] = "test"]
          /\ call' = [call EXCEPT ![e].left = @ - 1, ![e].any = TRUE]
          /\ UNCHANGED closed
  /\ UNCHANGED <<pageVars, p_buf>>

\* _pipeisclosed: n is read, then the count of the descriptor's page ...
Check(e) ==
  /\ status[e] = "ENV_RUNNABLE"
  /\ pc[e] = "check"
  /\ switched' = [f \in Envs |-> f # e]
  /\ pc' = [pc EXCEPT ![e] = "compare"]
  /\ call' = [call EXCEPT ![e].refs = pageref(fd[e][call[e].fdnum])]
  /\ UNCHANGED <<pageVars, closed, pipeVars>>

\* ... then the count of the pipe's page, and n again.
Compare_Unchecked(e) ==
  /\ Runs(e)
  /\ pc[e] = "compare"
  /\ IF call[e].refs = pagerefPipe
     THEN Return(e, fd[e][call[e].fdnum])
     ELSE IF call[e].name = "pipeisclosed"
     THEN Return(e, NULL)
     ELSE GoTo(e, "test")
  /\ UNCHANGED <<pageVars, pipeVars>>
Compare(e) ==
  /\ Runs(e)
  /\ pc[e] = "compare"
  /\ IF switched[e]
     THEN GoTo(e, "check")
     ELSE IF call[e].refs = pagerefPipe
     THEN Return(e, fd[e][call[e].fdnum])
     ELSE IF call[e].name = "pipeisclosed"
     THEN Return(e, NULL)
     ELSE GoTo(e, "test")
  /\ UNCHANGED <<pageVars, pipeVars>>

-----------------------------------------------------------------------------
\* A call goes on; a program makes a new call, or is destroyed.

Proceed(e) == CloseData(e) \/ DupData(e) \/ DupFd(e) \/ CopyPage(e) \/ StartChild(e)
              \/ Test(e) \/ Move(e) \/ Advance(e) \/ Check(e) \/ Compare(e)

Transfer(e) == \E i \in Fds, n \in 1 .. MaxBytes : Read(e, i, n) \/ Write(e, i, n)

Next ==
  \E e \in Envs :
    \/ Proceed(e)
    \/ Destroy(e)
    \/ Transfer(e)
    \/ \E i \in Fds : Close(e, i) \/ PipeIsClosed(e, i) \/ \E j \in Fds : Dup(e, i, j)
    \/ \E child \in Envs : Fork(e, child)

Spec == Init /\ [][Next]_vars

\* Every environment gets the CPU again and again, and for long enough to pass
\* _pipeisclosed at least once without an interrupt.
Fairness ==
  \A e \in Envs : WF_vars(Proceed(e)) /\ SF_vars(Compare(e) /\ ~switched[e])

-----------------------------------------------------------------------------
(***************************************************************************)
(* Properties                                                              *)
(***************************************************************************)

\* The type invariant.
TypeOK ==
  /\ status \in [Envs -> {"ENV_FREE", "ENV_NOT_RUNNABLE", "ENV_RUNNABLE"}]
  /\ fd \in [Envs -> [Fds -> Ends \cup {NULL}]]
  /\ data \in [Envs -> SUBSET Fds]
  /\ pc \in [Envs -> Labels]
  /\ call \in [Envs -> Call]
  /\ switched \in [Envs -> BOOLEAN]
  /\ closed \in [Envs -> Ends \cup {NULL}]
  /\ p_rpos \in Nat /\ p_wpos \in Nat
  /\ p_buf \in [0 .. PIPEBUFSIZ - 1 -> Nat]
  /\ last \in Nat

\* A child whose pages are being mapped, or whose parent died doing that.
Copying == \E e \in Envs : status[e] = "ENV_NOT_RUNNABLE"

IsOpen(end) == FdRefs(end) # {}

\* e learns that the other end of the pipe is closed.
FindsClosed(e) == closed[e] = NULL /\ closed'[e] # NULL

\* No interleaving of close, dup, exits and other checks in other environments
\* makes a pipe look closed while the other end is open; only the copying of
\* pages in fork and spawn does.
ClosedMeansGoneUnlessCopying ==
  [][\A e \in Envs :
       FindsClosed(e) => ~IsOpen(OtherEnd(closed'[e])) \/ Copying]_vars

\* An environment that waits in read or write while nobody else has the pipe,
\* and that has not kept the other end open itself, is told so: no reference
\* to the pipe's page is left behind by the others.
OnlyEnd(e) ==
  /\ \A f \in Envs \ {e} : pc[f] = "idle" /\ \A i \in Fds : fd[f][i] = NULL
  /\ \A i \in Fds : fd[e][i] \in {NULL, fd[e][call[e].fdnum]}
LastEndReturns ==
  \A e \in Envs : call[e].name \in {"read", "write"} /\ OnlyEnd(e) ~> pc[e] = "idle"

\* With one reader and one writer at a time the pipe is a channel.
buffered == [k \in 1 .. p_wpos - p_rpos |-> p_buf[(p_rpos + k - 1) % PIPEBUFSIZ]]
Fifo == INSTANCE Channel WITH Capacity <- PIPEBUFSIZ, queue <- buffered,
                              sent <- p_wpos, last <- last
IsChannel == Fifo!Spec
=============================================================================
