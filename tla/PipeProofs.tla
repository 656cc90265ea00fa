----------------------------- MODULE PipeProofs -----------------------------
(***************************************************************************)
(* What _pipeisclosed can be relied on for, and that a pipe is a channel,  *)
(* proved for any number of environments and descriptors and any size of   *)
(* the buffer.                                                             *)
(*                                                                         *)
(* The first argument: in an environment that runs, every descriptor has   *)
(* the pipe's page mapped beside it, whatever close, dup or fork is half   *)
(* way through.  So the references to one descriptor page are among the    *)
(* references to the pipe's page, and when there are as many of them, no   *)
(* reference is left for the other end.                                    *)
(*                                                                         *)
(* The second: what one access found of the positions stays true until the *)
(* next one, as only the reader moves p_rpos and only the writer p_wpos.   *)
(***************************************************************************)
EXTENDS Pipe, FiniteSetTheorems, SequenceTheorems, TLAPS

-----------------------------------------------------------------------------
(***************************************************************************)
(* The inductive invariant                                                 *)
(***************************************************************************)

HasPage(e, i) == fd[e][i] # NULL => i \in data[e]

\* Running environments have the pipe's page beside every descriptor.
Paired == \A e \in Envs : status[e] = "ENV_RUNNABLE" => \A i \in Fds : HasPage(e, i)

\* Slots that are free hold nothing; only running environments are in a call.
FreeIsEmpty ==
  \A e \in Envs : /\ status[e] = "ENV_FREE" =>
                       data[e] = {} /\ \A i \in Fds : fd[e][i] = NULL
                  /\ status[e] # "ENV_RUNNABLE" => pc[e] = "idle"

\* Where close and dup are.
CloseDup ==
  \A e \in Envs :
    /\ pc[e] \in {"close", "dup data"} => fd[e][call[e].fdnum] = NULL
    /\ pc[e] = "dup fd" /\ fd[e][call[e].from] # NULL => call[e].fdnum \in data[e]

\* Where fork is: the child has nothing its parent has not, and all the data
\* pages below the address the copying has come to.
Forking ==
  \A e \in Envs :
    pc[e] = "fork" =>
      LET c == call[e].child
      IN  /\ c \in Envs /\ c # e
          /\ status[c] = "ENV_NOT_RUNNABLE"
          /\ \A i \in Fds : fd[c][i] # NULL => fd[e][i] # NULL
          /\ \A i \in data[e] : MAXFD + i < call[e].addr => i \in data[c]

\* Two forks do not work on the same child.
OneParent ==
  \A e, f \in Envs :
    pc[e] = "fork" /\ pc[f] = "fork" /\ call[e].child = call[f].child => e = f

\* A transfer or a check is on an open descriptor, a transfer has bytes left ...
Transferring == {"test", "move", "advance", "check", "compare"}
WellFormed(e, label, c) ==
  label \in Transferring =>
    /\ fd[e][c.fdnum] # NULL
    /\ c.name = "pipeisclosed" => label \in {"check", "compare"}
    /\ c.name # "pipeisclosed" => c.left # 0
OnOpen == \A e \in Envs : WellFormed(e, pc[e], call[e])

\* ... and the count in refs is current unless another environment has run.
RefsCurrent ==
  \A e \in Envs :
    pc[e] = "compare" /\ ~switched[e] => call[e].refs = pageref(fd[e][call[e].fdnum])

PipeInv == /\ TypeOK /\ Paired /\ FreeIsEmpty /\ CloseDup /\ Forking
           /\ OneParent /\ OnOpen /\ RefsCurrent

-----------------------------------------------------------------------------
(***************************************************************************)
(* Types                                                                   *)
(***************************************************************************)

\* A count of references is a number.
LEMMA RefsFinite ==
  /\ IsFiniteSet(DataRefs)
  /\ \A end : IsFiniteSet(FdRefs(end)) /\ pageref(end) \in Nat
<1>1. IsFiniteSet(Fds)
  BY FS_Interval, SizesAssumption DEF Fds
<1>2. IsFiniteSet(Envs \X Fds)
  BY <1>1, EnvsAssumption, FS_Product
<1>3. IsFiniteSet(DataRefs)
  BY <1>2, FS_Subset DEF DataRefs
<1>4. ASSUME NEW end PROVE IsFiniteSet(FdRefs(end)) /\ pageref(end) \in Nat
  <2>1. IsFiniteSet(FdRefs(end))
    BY <1>2, FS_Subset DEF FdRefs
  <2> QED
    BY <2>1, FS_CardinalityType DEF pageref
<1> QED
  BY <1>3, <1>4

\* The call of an environment that is in none.
LEMMA NoCallType == NoCall \in Call /\ NoCall.name = "none"
  BY SizesAssumption DEF NoCall, Call, Fds

ControlTypes ==
  /\ pc \in [Envs -> Labels]
  /\ call \in [Envs -> Call]
  /\ closed \in [Envs -> Ends \cup {NULL}]

\* Entering, going on in and returning from a library function keeps the types.
LEMMA ControlType ==
  ASSUME ControlTypes, NEW e \in Envs, NEW label \in Labels,
         NEW c \in Call, NEW answer \in Ends \cup {NULL},
         Enter(e, label, c) \/ GoTo(e, label) \/ Return(e, answer)
  PROVE  ControlTypes'
  BY NoCallType DEF ControlTypes, Enter, GoTo, Return, Labels

\* When e runs, env_runs has changed for all others and not for e.
LEMMA SwitchedType ==
  ASSUME switched \in [Envs -> BOOLEAN], NEW e \in Envs, Runs(e)
  PROVE  /\ switched' \in [Envs -> BOOLEAN]
         /\ switched'[e] = switched[e]
         /\ \A f \in Envs \ {e} : switched'[f] = TRUE
  BY DEF Runs

-----------------------------------------------------------------------------
(***************************************************************************)
(* read, write and pipeisclosed                                            *)
(***************************************************************************)

\* A step inside these calls disturbs nothing of the other environments.
LEMMA LocalStep ==
  ASSUME PipeInv, TypeOK', NEW e \in Envs,
         status[e] = "ENV_RUNNABLE",
         UNCHANGED pageVars,
         \A f \in Envs \ {e} : pc'[f] = pc[f] /\ call'[f] = call[f] /\ switched'[f] = TRUE,
         pc'[e] \in Transferring \cup {"idle"},
         WellFormed(e, pc'[e], call'[e]),
         pc'[e] = "compare" => call'[e].refs = pageref(fd[e][call'[e].fdnum])
  PROVE  PipeInv'
<1>1. Paired' /\ FreeIsEmpty'
  BY DEF PipeInv, Paired, HasPage, FreeIsEmpty, pageVars
<1>2. CloseDup'
  <2> SUFFICES ASSUME NEW f \in Envs
               PROVE  /\ pc'[f] \in {"close", "dup data"} => fd'[f][call'[f].fdnum] = NULL
                      /\ pc'[f] = "dup fd" /\ fd'[f][call'[f].from] # NULL
                           => call'[f].fdnum \in data'[f]
    BY DEF CloseDup
  <2>1. CASE f = e
    BY <2>1 DEF Transferring
  <2>2. CASE f # e
    BY <2>2 DEF PipeInv, CloseDup, pageVars
  <2> QED
    BY <2>1, <2>2
<1>3. \A f \in Envs : pc'[f] = "fork" => f # e /\ pc[f] = "fork" /\ call'[f] = call[f]
  BY DEF Transferring
<1>4. Forking'
  BY <1>3 DEF PipeInv, Forking, pageVars
<1>5. OneParent'
  BY <1>3 DEF PipeInv, OneParent
<1>6. OnOpen'
  BY DEF PipeInv, OnOpen, WellFormed, pageVars
<1>7. RefsCurrent'
  <2>1. \A end : pageref(end)' = pageref(end)
    BY DEF pageref, FdRefs, pageVars
  <2> QED
    BY <2>1 DEF RefsCurrent, pageVars
<1> QED
  BY <1>1, <1>2, <1>4, <1>5, <1>6, <1>7 DEF PipeInv

\* The types after a step that leaves the pages and the pipe alone.
LEMMA QuietType ==
  ASSUME TypeOK, NEW e \in Envs, Runs(e), UNCHANGED <<pageVars, pipeVars>>, ControlTypes'
  PROVE  TypeOK'
  BY SwitchedType DEF TypeOK, ControlTypes, pageVars, pipeVars

\* read, write and pipeisclosed begin on an open descriptor.
LEMMA StartStep ==
  ASSUME PipeInv, NEW e \in Envs, NEW i \in Fds, NEW n \in 0 .. MaxBytes,
         NEW name \in {"read", "write", "pipeisclosed"}, NEW label \in {"test", "check"},
         fd[e][i] # NULL, name = "pipeisclosed" <=> label = "check",
         name # "pipeisclosed" => n # 0, Start(e, name, label, i, n)
  PROVE  PipeInv'
<1> DEFINE c == [NoCall EXCEPT !.name = name, !.fdnum = i, !.left = n]
<1>1. c \in Call /\ c.fdnum = i /\ c.name = name /\ c.left = n
  BY NoCallType DEF Call
<1>2. Runs(e) /\ Enter(e, label, c) /\ UNCHANGED <<pageVars, pipeVars>>
  BY DEF Start
<1> HIDE DEF c
<1>3. TypeOK /\ ControlTypes
  BY DEF PipeInv, TypeOK, ControlTypes
<1>4. TypeOK'
  <2>1. label \in Labels
    BY DEF Labels
  <2>2. ControlTypes'
    BY <1>1, <1>2, <1>3, <2>1, ControlType
  <2> QED
    BY <1>2, <1>3, <2>2, QuietType
<1>5. /\ pc'[e] = label /\ call'[e] = c
      /\ \A f \in Envs \ {e} : pc'[f] = pc[f] /\ call'[f] = call[f] /\ switched'[f] = TRUE
  BY <1>2, <1>3 DEF Enter, Runs, ControlTypes
<1> QED
  BY <1>1, <1>2, <1>4, <1>5, LocalStep DEF Runs, WellFormed, Transferring

\* The test for an empty or a full buffer.
LEMMA TestStep ==
  ASSUME PipeInv, NEW e \in Envs, Test(e)
  PROVE  PipeInv'
<1>1. TypeOK /\ ControlTypes
  BY DEF PipeInv, TypeOK, ControlTypes
<1>2. PICK label \in {"move", "check"} :
        GoTo(e, label) \/ Return(e, NULL)
  BY DEF Test
<1>3. TypeOK'
  <2>1. label \in Labels
    BY DEF Labels
  <2>2. ControlTypes'
    BY <1>1, <1>2, <2>1, NoCallType, ControlType
  <2> QED
    BY <1>1, <2>2, QuietType DEF Test
<1>4. WellFormed(e, pc[e], call[e]) /\ pc[e] = "test"
  BY DEF PipeInv, OnOpen, Test
<1>5. /\ pc'[e] \in {"idle", "move", "check"}
      /\ pc'[e] # "idle" => call'[e] = call[e]
      /\ \A f \in Envs \ {e} : pc'[f] = pc[f] /\ call'[f] = call[f] /\ switched'[f] = TRUE
  BY <1>1, <1>2 DEF Test, GoTo, Return, Runs, ControlTypes
<1> QED
  BY <1>3, <1>4, <1>5, LocalStep DEF Test, Runs, WellFormed, Transferring

\* The count of the pipe's page is compared and an answer given.
LEMMA CompareStep ==
  ASSUME PipeInv, NEW e \in Envs, Compare(e)
  PROVE  PipeInv'
<1>1. TypeOK /\ ControlTypes
  BY DEF PipeInv, TypeOK, ControlTypes
<1>2. fd[e][call[e].fdnum] \in Ends \cup {NULL}
  BY <1>1 DEF TypeOK, Call
<1>3. PICK label \in {"check", "test"}, answer \in Ends \cup {NULL} :
        GoTo(e, label) \/ Return(e, answer)
  BY <1>2 DEF Compare
<1>4. TypeOK'
  <2>1. label \in Labels
    BY DEF Labels
  <2>2. ControlTypes'
    BY <1>1, <1>3, <2>1, NoCallType, ControlType
  <2> QED
    BY <1>1, <2>2, QuietType DEF Compare
<1>5. WellFormed(e, pc[e], call[e]) /\ pc[e] = "compare"
  BY DEF PipeInv, OnOpen, Compare
<1>6. /\ pc'[e] \in {"idle", "test", "check"}
      /\ pc'[e] = "test" => call[e].name # "pipeisclosed"
      /\ pc'[e] # "idle" => call'[e] = call[e]
      /\ \A f \in Envs \ {e} : pc'[f] = pc[f] /\ call'[f] = call[f] /\ switched'[f] = TRUE
  BY <1>1, <1>3 DEF Compare, GoTo, Return, Runs, ControlTypes
<1> QED
  BY <1>4, <1>5, <1>6, LocalStep DEF Compare, Runs, WellFormed, Transferring

\* A byte is taken from the buffer or stored in it.
LEMMA MoveStep ==
  ASSUME PipeInv, NEW e \in Envs, Move(e)
  PROVE  PipeInv'
<1>1. TypeOK /\ ControlTypes
  BY DEF PipeInv, TypeOK, ControlTypes
<1>2. /\ call[e] \in Call
      /\ Runs(e) /\ pc[e] = "move"
      /\ UNCHANGED <<pageVars, closed, p_rpos, p_wpos, last>>
  BY <1>1 DEF Move, ControlTypes
<1>3. /\ call' \in [Envs -> Call]
      /\ call'[e].fdnum = call[e].fdnum
      /\ call'[e].name = call[e].name /\ call'[e].left = call[e].left
      /\ \A f \in Envs \ {e} : call'[f] = call[f]
      /\ p_buf' \in [0 .. PIPEBUFSIZ - 1 -> Nat]
  <2>1. p_rpos % PIPEBUFSIZ \in 0 .. PIPEBUFSIZ - 1 /\ p_wpos % PIPEBUFSIZ \in 0 .. PIPEBUFSIZ - 1
    BY <1>1, SizesAssumption DEF TypeOK
  <2>2. p_buf[p_rpos % PIPEBUFSIZ] \in Nat /\ p_wpos + 1 \in Nat
    BY <1>1, <2>1 DEF TypeOK
  <2>3. CASE call[e].name = "read"
    <3> DEFINE c == [call[e] EXCEPT !.byte = p_buf[p_rpos % PIPEBUFSIZ]]
    <3>1. /\ c \in Call /\ c.fdnum = call[e].fdnum
          /\ c.name = call[e].name /\ c.left = call[e].left
      BY <1>2, <2>2 DEF Call
    <3>2. call' = [call EXCEPT ![e] = c] /\ UNCHANGED p_buf
      BY <2>3 DEF Move
    <3> HIDE DEF c
    <3> QED
      BY <1>1, <3>1, <3>2 DEF TypeOK
  <2>4. CASE call[e].name # "read"
    BY <1>1, <2>1, <2>2, <2>4 DEF Move, TypeOK
  <2> QED
    BY <2>3, <2>4
<1>4. /\ pc' \in [Envs -> Labels] /\ pc'[e] = "advance"
      /\ \A f \in Envs \ {e} : pc'[f] = pc[f]
  BY <1>1 DEF Move, ControlTypes, Labels
<1>5. TypeOK'
  BY <1>1, <1>2, <1>3, <1>4, SwitchedType DEF TypeOK, pageVars
<1>6. WellFormed(e, pc[e], call[e])
  BY DEF PipeInv, OnOpen
<1>7. \A f \in Envs \ {e} : switched'[f] = TRUE
  BY <1>2 DEF Runs
<1> QED
  BY <1>2, <1>3, <1>4, <1>5, <1>6, <1>7, LocalStep DEF Runs, WellFormed, Transferring

\* The position moves on and there is a byte less to transfer.
LEMMA AdvanceStep ==
  ASSUME PipeInv, NEW e \in Envs, Advance(e)
  PROVE  PipeInv'
<1> DEFINE c == [[call[e] EXCEPT !.left = @ - 1] EXCEPT !.any = TRUE]
<1>1. TypeOK /\ ControlTypes
  BY DEF PipeInv, TypeOK, ControlTypes
<1>2. /\ call[e] \in Call
      /\ Runs(e) /\ pc[e] = "advance"
      /\ UNCHANGED <<pageVars, p_buf>>
  BY <1>1 DEF Advance, ControlTypes
<1>3. /\ c \in Call /\ c.fdnum = call[e].fdnum
      /\ c.name = call[e].name /\ c.left = call[e].left - 1
      /\ call[e].name # "pipeisclosed"
  <2> DEFINE d == [call[e] EXCEPT !.left = @ - 1]
  <2>1. call[e].left # 0 /\ call[e].name # "pipeisclosed"
    BY <1>2 DEF PipeInv, OnOpen, WellFormed, Transferring
  <2>2. call[e].left - 1 \in 0 .. MaxBytes
    BY <1>2, <2>1, SizesAssumption DEF Call
  <2>3. /\ d \in Call /\ d.fdnum = call[e].fdnum
        /\ d.name = call[e].name /\ d.left = call[e].left - 1
    BY <1>2, <2>2 DEF Call
  <2>4. c = [d EXCEPT !.any = TRUE]
    OBVIOUS
  <2> HIDE DEF c, d
  <2> QED
    BY <2>1, <2>3, <2>4 DEF Call
<1>4. \/ Return(e, NULL)
      \/ /\ pc' = [pc EXCEPT ![e] = "test"]
         /\ call' = [call EXCEPT ![e] = c]
         /\ UNCHANGED closed
  BY <1>1 DEF Advance, ControlTypes
<1> HIDE DEF c
<1>5. ControlTypes'
  <2>1. CASE Return(e, NULL)
    BY <1>1, <2>1, NoCallType, ControlType DEF Labels
  <2>2. CASE ~Return(e, NULL)
    BY <1>1, <1>3, <1>4, <2>2 DEF ControlTypes, Labels
  <2> QED
    BY <2>1, <2>2
<1>6. p_rpos' \in Nat /\ p_wpos' \in Nat /\ last' \in Nat
  BY <1>1, <1>2 DEF Advance, TypeOK, Call
<1>7. TypeOK'
  BY <1>1, <1>2, <1>5, <1>6, SwitchedType DEF TypeOK, ControlTypes, pageVars
<1>8. WellFormed(e, pc[e], call[e])
  BY DEF PipeInv, OnOpen
<1>9. /\ pc'[e] \in {"idle", "test"}
      /\ pc'[e] # "idle" => call[e].left # 1 /\ call'[e] = c
      /\ \A f \in Envs \ {e} : pc'[f] = pc[f] /\ call'[f] = call[f] /\ switched'[f] = TRUE
  BY <1>1, <1>2, <1>4 DEF Advance, Return, Runs, ControlTypes
<1>10. WellFormed(e, pc'[e], call'[e])
  <2>1. call[e].left \in Nat
    BY <1>2, SizesAssumption DEF Call
  <2> QED
    BY <1>2, <1>3, <1>8, <1>9, <2>1 DEF WellFormed, Transferring
<1> QED
  BY <1>2, <1>7, <1>9, <1>10, LocalStep DEF Runs, Transferring

\* The count of the descriptor is read, and is current.
LEMMA CheckStep ==
  ASSUME PipeInv, NEW e \in Envs, Check(e)
  PROVE  PipeInv'
<1> DEFINE n == pageref(fd[e][call[e].fdnum])
           c == [call[e] EXCEPT !.refs = n]
<1>1. TypeOK /\ ControlTypes
  BY DEF PipeInv, TypeOK, ControlTypes
<1>2. /\ call[e] \in Call
      /\ status[e] = "ENV_RUNNABLE" /\ pc[e] = "check"
      /\ UNCHANGED <<pageVars, closed, pipeVars>>
  BY <1>1 DEF Check, ControlTypes
<1>3. /\ c \in Call /\ c.fdnum = call[e].fdnum /\ c.refs = n
      /\ c.name = call[e].name /\ c.left = call[e].left
  <2>1. n \in Nat
    BY RefsFinite
  <2> HIDE DEF n
  <2> QED
    BY <1>2, <2>1 DEF Call
<1>4. /\ pc' = [pc EXCEPT ![e] = "compare"]
      /\ call' = [call EXCEPT ![e] = c]
      /\ switched' = [f \in Envs |-> f # e]
  BY DEF Check
<1> HIDE DEF c
<1>5. TypeOK'
  BY <1>1, <1>2, <1>3, <1>4 DEF TypeOK, ControlTypes, Labels, pageVars, pipeVars
<1>6. WellFormed(e, pc[e], call[e])
  BY DEF PipeInv, OnOpen
<1>7. /\ pc'[e] = "compare" /\ call'[e] = c
      /\ \A f \in Envs \ {e} : pc'[f] = pc[f] /\ call'[f] = call[f] /\ switched'[f] = TRUE
  BY <1>1, <1>4 DEF ControlTypes
<1>8. call'[e].refs = pageref(fd[e][call'[e].fdnum])
  BY <1>3, <1>7
<1> QED
  BY <1>2, <1>3, <1>5, <1>6, <1>7, <1>8, LocalStep DEF WellFormed, Transferring

-----------------------------------------------------------------------------
(***************************************************************************)
(* close and dup                                                           *)
(***************************************************************************)

\* A step outside read, write and pipeisclosed disturbs no transfer.
LEMMA TransfersKept ==
  ASSUME PipeInv, NEW e \in Envs,
         \A f \in Envs \ {e} : /\ switched'[f] = TRUE
                               /\ pc'[f] = pc[f] /\ call'[f] = call[f]
                               /\ pc[f] \in Transferring => fd'[f] = fd[f],
         pc'[e] \notin Transferring
  PROVE  OnOpen' /\ RefsCurrent'
<1>1. \A f \in Envs : pc'[f] \in Transferring => f # e
  OBVIOUS
<1>2. OnOpen'
  BY <1>1 DEF PipeInv, OnOpen, WellFormed
<1>3. RefsCurrent'
  BY <1>1 DEF RefsCurrent, Transferring
<1> QED
  BY <1>2, <1>3

\* A step that maps and unmaps pages of the environment that takes it.
LEMMA OwnStep ==
  ASSUME PipeInv, TypeOK', NEW e \in Envs,
         status[e] = "ENV_RUNNABLE", UNCHANGED status,
         \A f \in Envs \ {e} : /\ fd'[f] = fd[f] /\ data'[f] = data[f]
                               /\ pc'[f] = pc[f] /\ call'[f] = call[f]
                               /\ switched'[f] = TRUE,
         pc'[e] \notin Transferring \cup {"fork"},
         \A i \in Fds : fd'[e][i] # NULL => i \in data'[e],
         pc'[e] \in {"close", "dup data"} => fd'[e][call'[e].fdnum] = NULL,
         pc'[e] = "dup fd" /\ fd'[e][call'[e].from] # NULL => call'[e].fdnum \in data'[e]
  PROVE  PipeInv'
<1>1. OnOpen' /\ RefsCurrent'
  BY TransfersKept
<1>2. ASSUME NEW f \in Envs, f # e
      PROVE  /\ fd'[f] = fd[f] /\ data'[f] = data[f] /\ status'[f] = status[f]
             /\ pc'[f] = pc[f] /\ call'[f] = call[f]
  BY <1>2
<1>3. Paired'
  <2> SUFFICES ASSUME NEW f \in Envs, status'[f] = "ENV_RUNNABLE", NEW i \in Fds,
                      fd'[f][i] # NULL
               PROVE  i \in data'[f]
    BY DEF Paired, HasPage
  <2>1. CASE f = e
    BY <2>1
  <2>2. CASE f # e
    BY <1>2, <2>2 DEF PipeInv, Paired, HasPage
  <2> QED
    BY <2>1, <2>2
<1>4. FreeIsEmpty'
  <2> SUFFICES ASSUME NEW f \in Envs
               PROVE  /\ status'[f] = "ENV_FREE" =>
                           data'[f] = {} /\ \A i \in Fds : fd'[f][i] = NULL
                      /\ status'[f] # "ENV_RUNNABLE" => pc'[f] = "idle"
    BY DEF FreeIsEmpty
  <2>1. CASE f = e
    BY <2>1
  <2>2. CASE f # e
    <3>1. /\ fd'[f] = fd[f] /\ data'[f] = data[f]
          /\ status'[f] = status[f] /\ pc'[f] = pc[f]
      BY <1>2, <2>2
    <3>2. /\ status[f] = "ENV_FREE" => data[f] = {} /\ \A i \in Fds : fd[f][i] = NULL
          /\ status[f] # "ENV_RUNNABLE" => pc[f] = "idle"
      BY DEF PipeInv, FreeIsEmpty
    <3> QED
      BY <3>1, <3>2
  <2> QED
    BY <2>1, <2>2
<1>5. CloseDup'
  BY DEF PipeInv, CloseDup
<1>6. ASSUME NEW f \in Envs, pc'[f] = "fork"
      PROVE  f # e /\ pc[f] = "fork" /\ call'[f] = call[f]
  BY <1>2, <1>6
<1>7. Forking'
  <2> SUFFICES ASSUME NEW f \in Envs, pc'[f] = "fork"
               PROVE  LET c == call'[f].child
                      IN  /\ c \in Envs /\ c # f
                          /\ status'[c] = "ENV_NOT_RUNNABLE"
                          /\ \A i \in Fds : fd'[c][i] # NULL => fd'[f][i] # NULL
                          /\ \A i \in data'[f] :
                               MAXFD + i < call'[f].addr => i \in data'[c]
    BY DEF Forking
  <2> DEFINE c == call[f].child
  <2>1. /\ f # e /\ call'[f] = call[f]
        /\ c \in Envs /\ c # f /\ status[c] = "ENV_NOT_RUNNABLE"
        /\ \A i \in Fds : fd[c][i] # NULL => fd[f][i] # NULL
        /\ \A i \in data[f] : MAXFD + i < call[f].addr => i \in data[c]
    BY <1>6 DEF PipeInv, Forking
  <2>2. c # e
    BY <2>1
  <2> HIDE DEF c
  <2>3. /\ fd'[f] = fd[f] /\ data'[f] = data[f]
        /\ fd'[c] = fd[c] /\ data'[c] = data[c] /\ status'[c] = status[c]
    BY <1>2, <2>1, <2>2
  <2>4. call'[f].child = c
    BY <2>1 DEF c
  <2> QED
    BY <2>1, <2>3, <2>4
<1>8. OneParent'
  <2> SUFFICES ASSUME NEW f \in Envs, NEW g \in Envs, pc'[f] = "fork", pc'[g] = "fork",
                      call'[f].child = call'[g].child
               PROVE  f = g
    BY DEF OneParent
  <2>1. pc[f] = "fork" /\ call'[f] = call[f]
    BY <1>6
  <2>2. pc[g] = "fork" /\ call'[g] = call[g]
    BY <1>6
  <2>3. OneParent
    BY DEF PipeInv
  <2> QED
    BY <2>1, <2>2, <2>3 DEF OneParent
<1> QED
  BY <1>1, <1>3, <1>4, <1>5, <1>7, <1>8 DEF PipeInv

\* close unmaps the descriptor while its data page is still there.
LEMMA CloseStep ==
  ASSUME PipeInv, NEW e \in Envs, NEW i \in Fds, Close(e, i)
  PROVE  PipeInv'
<1> DEFINE c == [[NoCall EXCEPT !.name = "close"] EXCEPT !.fdnum = i]
<1>1. TypeOK /\ ControlTypes
  BY DEF PipeInv, TypeOK, ControlTypes
<1>2. c \in Call /\ c.fdnum = i
  BY NoCallType DEF Call
<1>3. /\ Runs(e) /\ Enter(e, "close", c)
      /\ fd' = [fd EXCEPT ![e] = [fd[e] EXCEPT ![i] = NULL]]
      /\ UNCHANGED <<status, data, pipeVars>>
  BY DEF Close
<1> HIDE DEF c
<1>4. TypeOK'
  <2>1. ControlTypes'
    BY <1>1, <1>2, <1>3, ControlType DEF Labels
  <2> QED
    BY <1>1, <1>3, <2>1, SwitchedType DEF TypeOK, ControlTypes, pipeVars
<1>5. /\ pc'[e] = "close" /\ call'[e] = c
      /\ \A f \in Envs \ {e} : /\ fd'[f] = fd[f] /\ data'[f] = data[f]
                               /\ pc'[f] = pc[f] /\ call'[f] = call[f]
                               /\ switched'[f] = TRUE
  BY <1>1, <1>3 DEF Enter, Runs, TypeOK
<1>6. \A j \in Fds : fd'[e][j] # NULL => j \in data'[e]
  BY <1>1, <1>3 DEF PipeInv, Paired, HasPage, Runs, TypeOK
<1>7. fd'[e][i] = NULL
  BY <1>1, <1>3 DEF TypeOK
<1> QED
  BY <1>2, <1>3, <1>4, <1>5, <1>6, <1>7, OwnStep DEF Runs, Transferring

\* close unmaps the data page when the descriptor is gone.
LEMMA CloseDataStep ==
  ASSUME PipeInv, NEW e \in Envs, CloseData(e)
  PROVE  PipeInv'
<1>1. TypeOK /\ ControlTypes
  BY DEF PipeInv, TypeOK, ControlTypes
<1>2. /\ Runs(e) /\ pc[e] = "close" /\ call[e].fdnum \in Fds
      /\ fd[e][call[e].fdnum] = NULL
      /\ data' = [data EXCEPT ![e] = @ \ {call[e].fdnum}]
      /\ GoTo(e, "dup data") \/ Return(e, NULL)
      /\ UNCHANGED <<status, fd, pipeVars>>
  BY <1>1 DEF CloseData, PipeInv, CloseDup, TypeOK, Call
<1>3. TypeOK'
  <2>1. ControlTypes'
    BY <1>1, <1>2, NoCallType, ControlType DEF Labels
  <2> QED
    BY <1>1, <1>2, <2>1, SwitchedType DEF TypeOK, ControlTypes, pipeVars
<1>4. /\ pc'[e] \in {"idle", "dup data"}
      /\ pc'[e] # "idle" => call'[e] = call[e]
      /\ \A f \in Envs \ {e} : /\ fd'[f] = fd[f] /\ data'[f] = data[f]
                               /\ pc'[f] = pc[f] /\ call'[f] = call[f]
                               /\ switched'[f] = TRUE
  BY <1>1, <1>2 DEF GoTo, Return, Runs, TypeOK
<1>5. \A j \in Fds : fd'[e][j] # NULL => j \in data'[e]
  BY <1>1, <1>2 DEF PipeInv, Paired, HasPage, Runs, TypeOK
<1> QED
  BY <1>2, <1>3, <1>4, <1>5, OwnStep DEF Runs, Transferring

\* dup closes the descriptor it will replace.
LEMMA DupStep ==
  ASSUME PipeInv, NEW e \in Envs, NEW i \in Fds, NEW j \in Fds, Dup(e, i, j)
  PROVE  PipeInv'
<1> DEFINE c == [[[NoCall EXCEPT !.name = "dup"] EXCEPT !.fdnum = j] EXCEPT !.from = i]
<1>1. TypeOK /\ ControlTypes
  BY DEF PipeInv, TypeOK, ControlTypes
<1>2. c \in Call /\ c.fdnum = j
  BY NoCallType DEF Call
<1>3. PICK label \in {"close", "dup data"} :
        /\ Runs(e) /\ Enter(e, label, c)
        /\ fd' = [fd EXCEPT ![e] = [fd[e] EXCEPT ![j] = NULL]]
        /\ UNCHANGED <<status, data, pipeVars>>
  BY DEF Dup
<1> HIDE DEF c
<1>4. TypeOK'
  <2>1. ControlTypes'
    BY <1>1, <1>2, <1>3, ControlType DEF Labels
  <2> QED
    BY <1>1, <1>3, <2>1, SwitchedType DEF TypeOK, ControlTypes, pipeVars
<1>5. /\ pc'[e] = label /\ call'[e] = c
      /\ \A f \in Envs \ {e} : /\ fd'[f] = fd[f] /\ data'[f] = data[f]
                               /\ pc'[f] = pc[f] /\ call'[f] = call[f]
                               /\ switched'[f] = TRUE
  BY <1>1, <1>3 DEF Enter, Runs, TypeOK
<1>6. \A k \in Fds : fd'[e][k] # NULL => k \in data'[e]
  BY <1>1, <1>3 DEF PipeInv, Paired, HasPage, Runs, TypeOK
<1>7. fd'[e][j] = NULL
  BY <1>1, <1>3 DEF TypeOK
<1> QED
  BY <1>2, <1>3, <1>4, <1>5, <1>6, <1>7, OwnStep DEF Runs, Transferring

\* dup maps the data page first.
LEMMA DupDataStep ==
  ASSUME PipeInv, NEW e \in Envs, DupData(e)
  PROVE  PipeInv'
<1>1. TypeOK /\ ControlTypes
  BY DEF PipeInv, TypeOK, ControlTypes
<1>2. /\ Runs(e) /\ pc[e] = "dup data"
      /\ call[e].fdnum \in Fds /\ call[e].from \in Fds
      /\ GoTo(e, "dup fd")
      /\ UNCHANGED <<status, fd, pipeVars>>
  BY <1>1 DEF DupData, TypeOK, Call
<1>3. /\ data' \in [Envs -> SUBSET Fds]
      /\ \A f \in Envs \ {e} : data'[f] = data[f]
      /\ data[e] \subseteq data'[e]
      /\ call[e].from \in data[e] => call[e].fdnum \in data'[e]
  BY <1>1, <1>2 DEF DupData, TypeOK
<1>4. TypeOK'
  <2>1. ControlTypes'
    BY <1>1, <1>2, NoCallType, ControlType DEF Labels
  <2> QED
    BY <1>1, <1>2, <1>3, <2>1, SwitchedType DEF TypeOK, ControlTypes, pipeVars
<1>5. /\ pc'[e] = "dup fd" /\ call'[e] = call[e]
      /\ \A f \in Envs \ {e} : /\ fd'[f] = fd[f] /\ data'[f] = data[f]
                               /\ pc'[f] = pc[f] /\ call'[f] = call[f]
                               /\ switched'[f] = TRUE
  BY <1>1, <1>2, <1>3 DEF GoTo, Runs, TypeOK
<1>6. \A k \in Fds : fd[e][k] # NULL => k \in data[e]
  BY <1>2 DEF PipeInv, Paired, HasPage, Runs
<1> QED
  BY <1>2, <1>3, <1>4, <1>5, <1>6, OwnStep DEF Runs, Transferring

\* dup maps the descriptor when the data page is beside it.
LEMMA DupFdStep ==
  ASSUME PipeInv, NEW e \in Envs, DupFd(e)
  PROVE  PipeInv'
<1>1. TypeOK /\ ControlTypes
  BY DEF PipeInv, TypeOK, ControlTypes
<1>2. /\ Runs(e) /\ pc[e] = "dup fd"
      /\ call[e].fdnum \in Fds /\ call[e].from \in Fds
      /\ Return(e, NULL)
      /\ UNCHANGED <<status, data, pipeVars>>
      /\ fd[e][call[e].from] # NULL => call[e].fdnum \in data[e]
  BY <1>1 DEF DupFd, TypeOK, Call, PipeInv, CloseDup
<1>3. fd' = [fd EXCEPT ![e] = [fd[e] EXCEPT ![call[e].fdnum] = fd[e][call[e].from]]]
  BY DEF DupFd
<1>4. TypeOK'
  <2>1. ControlTypes'
    BY <1>1, <1>2, NoCallType, ControlType DEF Labels
  <2>2. fd[e][call[e].from] \in Ends \cup {NULL}
    BY <1>1, <1>2 DEF TypeOK
  <2>3. fd' \in [Envs -> [Fds -> Ends \cup {NULL}]]
    BY <1>1, <1>3, <2>2 DEF TypeOK
  <2> QED
    BY <1>1, <1>2, <2>1, <2>3, SwitchedType DEF TypeOK, ControlTypes, pipeVars
<1>5. /\ pc'[e] = "idle"
      /\ \A f \in Envs \ {e} : /\ fd'[f] = fd[f] /\ data'[f] = data[f]
                               /\ pc'[f] = pc[f] /\ call'[f] = call[f]
                               /\ switched'[f] = TRUE
  BY <1>1, <1>2, <1>3 DEF Return, Runs, TypeOK
<1>6. \A k \in Fds : fd'[e][k] # NULL => k \in data'[e]
  BY <1>1, <1>2, <1>3 DEF PipeInv, Paired, HasPage, Runs, TypeOK
<1> QED
  BY <1>2, <1>4, <1>5, <1>6, OwnStep DEF Runs, Transferring

-----------------------------------------------------------------------------
(***************************************************************************)
(* fork and destruction                                                    *)
(***************************************************************************)

\* fork starts with an empty child that is nobody else's.
LEMMA ForkStep ==
  ASSUME PipeInv, NEW e \in Envs, NEW child \in Envs, Fork(e, child)
  PROVE  PipeInv'
<1> DEFINE c == [[NoCall EXCEPT !.name = "fork"] EXCEPT !.child = child]
<1>1. TypeOK /\ ControlTypes
  BY DEF PipeInv, TypeOK, ControlTypes
<1>2. c \in Call /\ c.child = child /\ c.addr = 0
  BY NoCallType DEF Call, NoCall
<1>3. /\ Runs(e) /\ Enter(e, "fork", c)
      /\ status[child] = "ENV_FREE"
      /\ status' = [status EXCEPT ![child] = "ENV_NOT_RUNNABLE"]
      /\ UNCHANGED <<fd, data, pipeVars>>
  BY DEF Fork
<1> HIDE DEF c
<1>4. TypeOK'
  <2>1. ControlTypes'
    BY <1>1, <1>2, <1>3, ControlType DEF Labels
  <2> QED
    BY <1>1, <1>3, <2>1, SwitchedType DEF TypeOK, ControlTypes, pipeVars
<1>5. /\ pc'[e] = "fork" /\ call'[e] = c /\ child # e
      /\ \A f \in Envs \ {e} : pc'[f] = pc[f] /\ call'[f] = call[f] /\ switched'[f] = TRUE
      /\ status'[child] = "ENV_NOT_RUNNABLE"
      /\ \A f \in Envs \ {child} : status'[f] = status[f]
  BY <1>1, <1>3 DEF Enter, Runs, TypeOK
<1>6. OnOpen' /\ RefsCurrent'
  BY <1>3, <1>5, TransfersKept DEF Transferring
<1>7. Paired'
  <2> SUFFICES ASSUME NEW f \in Envs, status'[f] = "ENV_RUNNABLE", NEW i \in Fds,
                      fd[f][i] # NULL
               PROVE  i \in data[f]
    BY <1>3 DEF Paired, HasPage
  <2>1. status[f] = "ENV_RUNNABLE"
    BY <1>5
  <2> QED
    BY <2>1 DEF PipeInv, Paired, HasPage
<1>8. FreeIsEmpty'
  <2> SUFFICES ASSUME NEW f \in Envs
               PROVE  /\ status'[f] = "ENV_FREE" =>
                           data[f] = {} /\ \A i \in Fds : fd[f][i] = NULL
                      /\ status'[f] # "ENV_RUNNABLE" => pc'[f] = "idle"
    BY <1>3 DEF FreeIsEmpty
  <2>1. status[e] = "ENV_RUNNABLE" /\ status'[e] = "ENV_RUNNABLE"
    BY <1>3, <1>5 DEF Runs
  <2>2. /\ status[f] = "ENV_FREE" => data[f] = {} /\ \A i \in Fds : fd[f][i] = NULL
        /\ status[f] # "ENV_RUNNABLE" => pc[f] = "idle"
    BY DEF PipeInv, FreeIsEmpty
  <2>3. CASE f = e
    BY <2>1, <2>3
  <2>4. CASE f = child
    BY <1>3, <1>5, <2>2, <2>4
  <2>5. CASE f # e /\ f # child
    BY <1>5, <2>2, <2>5
  <2> QED
    BY <2>3, <2>4, <2>5
<1>9. CloseDup'
  BY <1>3, <1>5 DEF PipeInv, CloseDup
<1>10. Forking'
  <2> SUFFICES ASSUME NEW f \in Envs, pc'[f] = "fork"
               PROVE  LET d == call'[f].child
                      IN  /\ d \in Envs /\ d # f
                          /\ status'[d] = "ENV_NOT_RUNNABLE"
                          /\ \A i \in Fds : fd[d][i] # NULL => fd[f][i] # NULL
                          /\ \A i \in data[f] :
                               MAXFD + i < call'[f].addr => i \in data[d]
    BY <1>3 DEF Forking
  <2>1. CASE f = e
    <3>1. \A i \in Fds : fd[child][i] = NULL
      BY <1>3 DEF PipeInv, FreeIsEmpty
    <3>2. \A i \in data[e] : ~(MAXFD + i < 0)
      BY <1>1, SizesAssumption DEF TypeOK, Fds
    <3> QED
      BY <1>2, <1>5, <2>1, <3>1, <3>2
  <2>2. CASE f # e
    <3>1. pc[f] = "fork" /\ call'[f] = call[f]
      BY <1>5, <2>2
    <3>2. call[f].child # child
      BY <1>3, <3>1 DEF PipeInv, Forking
    <3> QED
      BY <1>5, <3>1, <3>2 DEF PipeInv, Forking
  <2> QED
    BY <2>1, <2>2
<1>11. OneParent'
  <2>1. ASSUME NEW f \in Envs, f # e, pc'[f] = "fork"
        PROVE  pc[f] = "fork" /\ call'[f] = call[f] /\ call'[f].child # child
    <3>1. pc[f] = "fork" /\ call'[f] = call[f]
      BY <1>5, <2>1
    <3> QED
      BY <1>3, <3>1 DEF PipeInv, Forking
  <2> SUFFICES ASSUME NEW f \in Envs, NEW g \in Envs, pc'[f] = "fork", pc'[g] = "fork",
                      call'[f].child = call'[g].child, f # g
               PROVE  FALSE
    BY DEF OneParent
  <2>2. f # e /\ g # e
    BY <1>2, <1>5, <2>1
  <2> QED
    BY <2>1, <2>2 DEF PipeInv, OneParent
<1> QED
  BY <1>4, <1>6, <1>7, <1>8, <1>9, <1>10, <1>11 DEF PipeInv

\* The pages are copied lowest address first, so a data page below the address
\* reached is in the child.
LEMMA CopyPageStep ==
  ASSUME PipeInv, NEW e \in Envs, CopyPage(e)
  PROVE  PipeInv'
<1>1. TypeOK
  BY DEF PipeInv
<1>2. /\ Runs(e) /\ pc[e] = "fork" /\ status[e] = "ENV_RUNNABLE"
      /\ UNCHANGED <<status, pc, closed, pipeVars>>
  BY DEF CopyPage, Runs
<1>3. PICK addr \in ToCopy(e) :
        /\ \A other \in ToCopy(e) : addr <= other
        /\ IF addr < MAXFD
           THEN /\ fd' = [fd EXCEPT ![call[e].child][addr] = fd[e][addr]]
                /\ UNCHANGED data
           ELSE /\ data' = [data EXCEPT ![call[e].child] = @ \cup {DataOf(addr)}]
                /\ UNCHANGED fd
        /\ call' = [call EXCEPT ![e].addr = addr + 1]
  BY DEF CopyPage
<1> DEFINE child == call[e].child
           c == [call[e] EXCEPT !.addr = addr + 1]
<1>4. /\ child \in Envs /\ child # e /\ status[child] = "ENV_NOT_RUNNABLE"
      /\ pc[child] = "idle"
      /\ \A i \in Fds : fd[child][i] # NULL => fd[e][i] # NULL
      /\ \A i \in data[e] : MAXFD + i < call[e].addr => i \in data[child]
  BY <1>2 DEF PipeInv, Forking, FreeIsEmpty
<1>5. /\ call[e].addr \in Nat /\ addr \in 0 .. 2 * MAXFD - 1 /\ call[e].addr <= addr
      /\ Mapped(e, addr)
  <2>1. call[e].addr \in 0 .. 2 * MAXFD
    BY <1>1 DEF TypeOK, Call
  <2> QED
    BY <1>3, <2>1, SizesAssumption DEF ToCopy
<1>6. c \in Call /\ c.child = child /\ c.addr = addr + 1
  <2>1. addr + 1 \in 0 .. 2 * MAXFD
    BY <1>5, SizesAssumption
  <2>2. call[e] \in Call
    BY <1>1 DEF TypeOK
  <2> QED
    BY <2>1, <2>2 DEF Call
<1>7. /\ call' \in [Envs -> Call] /\ call'[e] = c
      /\ \A f \in Envs \ {e} : call'[f] = call[f]
  <2>1. call' = [call EXCEPT ![e] = c]
    BY <1>3
  <2> HIDE DEF c
  <2> QED
    BY <1>1, <1>6, <2>1 DEF TypeOK
<1>8. /\ fd' \in [Envs -> [Fds -> Ends \cup {NULL}]]
      /\ data' \in [Envs -> SUBSET Fds]
      /\ \A f \in Envs \ {child} : fd'[f] = fd[f] /\ data'[f] = data[f]
      /\ \A i \in Fds : fd'[child][i] # NULL => fd[e][i] # NULL
      /\ \A i \in data[e] : MAXFD + i < addr + 1 => i \in data'[child]
  <2>1. \A i \in data[e] : i \in Fds /\ i \in Nat
    BY <1>1, SizesAssumption DEF TypeOK, Fds
  <2>2. CASE addr < MAXFD
    <3>1. addr \in Fds /\ fd[e][addr] # NULL
      BY <1>5, <2>2, SizesAssumption DEF Fds, Mapped
    <3>2. /\ fd' = [fd EXCEPT ![child] = [fd[child] EXCEPT ![addr] = fd[e][addr]]]
          /\ data' = data
      BY <1>3, <2>2
    <3>3. fd[e][addr] \in Ends \cup {NULL}
      BY <1>1, <3>1 DEF TypeOK
    <3>4. fd' \in [Envs -> [Fds -> Ends \cup {NULL}]]
      BY <1>1, <1>4, <3>1, <3>2, <3>3 DEF TypeOK
    <3>5. \A f \in Envs \ {child} : fd'[f] = fd[f]
      BY <1>1, <3>2 DEF TypeOK
    <3>6. \A i \in Fds : fd'[child][i] = IF i = addr THEN fd[e][addr] ELSE fd[child][i]
      BY <1>1, <1>4, <3>1, <3>2 DEF TypeOK
    <3>7. \A i \in data[e] : ~(MAXFD + i < addr + 1)
      BY <1>5, <2>1, <2>2, SizesAssumption
    <3> QED
      BY <1>1, <1>4, <3>1, <3>2, <3>4, <3>5, <3>6, <3>7 DEF TypeOK
  <2>3. CASE ~(addr < MAXFD)
    <3>1. PICK j \in data[e] : addr = MAXFD + j
      BY <1>5, <2>3 DEF Mapped
    <3>2. DataOf(addr) = j /\ j \in Fds
      BY <2>1, <3>1, SizesAssumption DEF DataOf
    <3>3. data' = [data EXCEPT ![child] = data[child] \cup {j}] /\ fd' = fd
      BY <1>3, <2>3, <3>2
    <3>4. ASSUME NEW i \in data[e], MAXFD + i < addr + 1
          PROVE  i \in data[child] \/ i = j
      <4>1. CASE MAXFD + i < call[e].addr
        BY <1>4, <4>1
      <4>2. CASE ~(MAXFD + i < call[e].addr)
        <5>1. MAXFD + i \in call[e].addr .. 2 * MAXFD - 1
          BY <1>5, <2>1, <3>4, <4>2, SizesAssumption
        <5>2. ~(MAXFD + i < MAXFD)
          BY <2>1, SizesAssumption
        <5>3. MAXFD + i \in ToCopy(e)
          BY <5>1, <5>2 DEF ToCopy, Mapped
        <5>4. addr <= MAXFD + i
          BY <1>3, <5>3
        <5> QED
          BY <2>1, <3>1, <3>4, <5>4, SizesAssumption
      <4> QED
        BY <4>1, <4>2
    <3> QED
      BY <1>1, <1>4, <3>2, <3>3, <3>4 DEF TypeOK
  <2> QED
    BY <2>2, <2>3
<1> HIDE DEF child, c
<1>9. TypeOK'
  BY <1>1, <1>2, <1>7, <1>8, SwitchedType DEF TypeOK, pipeVars
<1>10. \A f \in Envs : pc[f] # "idle" => f # child
  BY <1>4
<1>11. OnOpen' /\ RefsCurrent'
  <2>1. \A f \in Envs \ {e} : switched'[f] = TRUE
    BY <1>2 DEF Runs
  <2> QED
    BY <1>2, <1>7, <1>8, <1>10, <2>1, TransfersKept DEF Transferring
<1>12. Paired'
  <2> SUFFICES ASSUME NEW f \in Envs, status[f] = "ENV_RUNNABLE", NEW i \in Fds,
                      fd'[f][i] # NULL
               PROVE  i \in data'[f]
    BY <1>2 DEF Paired, HasPage
  <2>1. f # child
    BY <1>4
  <2>2. fd'[f] = fd[f] /\ data'[f] = data[f]
    BY <1>8, <2>1
  <2> QED
    BY <2>2 DEF PipeInv, Paired, HasPage
<1>13. FreeIsEmpty'
  <2> SUFFICES ASSUME NEW f \in Envs
               PROVE  /\ status[f] = "ENV_FREE" =>
                           data'[f] = {} /\ \A i \in Fds : fd'[f][i] = NULL
                      /\ status[f] # "ENV_RUNNABLE" => pc[f] = "idle"
    BY <1>2 DEF FreeIsEmpty
  <2>1. status[f] = "ENV_FREE" => f # child
    BY <1>4
  <2> QED
    BY <1>8, <2>1 DEF PipeInv, FreeIsEmpty
<1>14. CloseDup'
  <2> SUFFICES ASSUME NEW f \in Envs, pc[f] \in {"close", "dup data", "dup fd"}
               PROVE  /\ pc[f] \in {"close", "dup data"} => fd'[f][call'[f].fdnum] = NULL
                      /\ pc[f] = "dup fd" /\ fd'[f][call'[f].from] # NULL
                           => call'[f].fdnum \in data'[f]
    BY <1>2 DEF CloseDup
  <2>1. f # e /\ f # child
    BY <1>2, <1>10
  <2>2. fd'[f] = fd[f] /\ data'[f] = data[f] /\ call'[f] = call[f]
    BY <1>7, <1>8, <2>1
  <2> QED
    BY <2>2 DEF PipeInv, CloseDup
<1>15. ASSUME NEW f \in Envs, f # e, pc[f] = "fork"
       PROVE  call'[f] = call[f] /\ call[f].child # child
  BY <1>2, <1>7, <1>15 DEF PipeInv, OneParent, child
<1>16. Forking'
  <2> SUFFICES ASSUME NEW f \in Envs, pc[f] = "fork"
               PROVE  LET d == call'[f].child
                      IN  /\ d \in Envs /\ d # f
                          /\ status[d] = "ENV_NOT_RUNNABLE"
                          /\ \A i \in Fds : fd'[d][i] # NULL => fd'[f][i] # NULL
                          /\ \A i \in data'[f] :
                               MAXFD + i < call'[f].addr => i \in data'[d]
    BY <1>2 DEF Forking
  <2>1. CASE f = e
    <3>1. fd'[e] = fd[e] /\ data'[e] = data[e]
      BY <1>4, <1>8
    <3> QED
      BY <1>4, <1>6, <1>7, <1>8, <2>1, <3>1
  <2>2. CASE f # e
    <3> DEFINE d == call[f].child
    <3>1. call'[f] = call[f] /\ d # child
      BY <1>15, <2>2
    <3>2. /\ d \in Envs /\ d # f /\ status[d] = "ENV_NOT_RUNNABLE"
          /\ \A i \in Fds : fd[d][i] # NULL => fd[f][i] # NULL
          /\ \A i \in data[f] : MAXFD + i < call[f].addr => i \in data[d]
      BY DEF PipeInv, Forking
    <3>3. f # child
      BY <1>10
    <3> HIDE DEF d
    <3>4. fd'[f] = fd[f] /\ data'[f] = data[f] /\ fd'[d] = fd[d] /\ data'[d] = data[d]
      BY <1>8, <3>1, <3>2, <3>3
    <3>5. call'[f].child = d
      BY <3>1 DEF d
    <3> QED
      BY <3>1, <3>2, <3>4, <3>5
  <2> QED
    BY <2>1, <2>2
<1>17. OneParent'
  <2> SUFFICES ASSUME NEW f \in Envs, NEW g \in Envs, pc[f] = "fork", pc[g] = "fork",
                      call'[f].child = call'[g].child, f # g
               PROVE  FALSE
    BY <1>2 DEF OneParent
  <2>1. f # e /\ g # e
    BY <1>6, <1>7, <1>15
  <2> QED
    BY <1>15, <2>1 DEF PipeInv, OneParent
<1> QED
  BY <1>9, <1>11, <1>12, <1>13, <1>14, <1>16, <1>17 DEF PipeInv

\* All is copied when the child is made runnable: its pages are paired too.
LEMMA StartChildStep ==
  ASSUME PipeInv, NEW e \in Envs, StartChild(e)
  PROVE  PipeInv'
<1> DEFINE child == call[e].child
<1>1. TypeOK /\ ControlTypes
  BY DEF PipeInv, TypeOK, ControlTypes
<1>2. /\ Runs(e) /\ pc[e] = "fork" /\ status[e] = "ENV_RUNNABLE"
      /\ ToCopy(e) = {}
      /\ status' = [status EXCEPT ![child] = "ENV_RUNNABLE"]
      /\ Return(e, NULL)
      /\ UNCHANGED <<fd, data, pipeVars>>
  BY DEF StartChild, Runs
<1>3. /\ child \in Envs /\ child # e /\ status[child] = "ENV_NOT_RUNNABLE"
      /\ pc[child] = "idle"
      /\ \A i \in Fds : fd[child][i] # NULL => fd[e][i] # NULL
      /\ \A i \in data[e] : MAXFD + i < call[e].addr => i \in data[child]
  BY <1>2 DEF PipeInv, Forking, FreeIsEmpty
<1>4. \A i \in Fds : fd[child][i] # NULL => i \in data[child]
  <2> SUFFICES ASSUME NEW i \in Fds, fd[child][i] # NULL, ~(MAXFD + i < call[e].addr)
               PROVE  FALSE
    BY <1>2, <1>3 DEF PipeInv, Paired, HasPage
  <2>1. i \in data[e]
    BY <1>2, <1>3 DEF PipeInv, Paired, HasPage
  <2>2. call[e].addr \in Nat /\ i \in 0 .. MAXFD - 1
    BY <1>1, SizesAssumption DEF TypeOK, Call, Fds
  <2>3. MAXFD + i \in call[e].addr .. 2 * MAXFD - 1 /\ ~(MAXFD + i < MAXFD)
    BY <2>2, SizesAssumption
  <2>4. MAXFD + i \in ToCopy(e)
    BY <2>1, <2>3 DEF ToCopy, Mapped
  <2> QED
    BY <1>2, <2>4
<1> HIDE DEF child
<1>5. TypeOK'
  <2>1. ControlTypes'
    BY <1>1, <1>2, NoCallType, ControlType DEF Labels
  <2> QED
    BY <1>1, <1>2, <1>3, <2>1, SwitchedType DEF TypeOK, ControlTypes, pipeVars
<1>6. /\ pc'[e] = "idle"
      /\ \A f \in Envs \ {e} : pc'[f] = pc[f] /\ call'[f] = call[f] /\ switched'[f] = TRUE
      /\ status'[child] = "ENV_RUNNABLE"
      /\ \A f \in Envs \ {child} : status'[f] = status[f]
  BY <1>1, <1>2, <1>3 DEF Return, Runs, TypeOK
<1>7. OnOpen' /\ RefsCurrent'
  BY <1>2, <1>6, TransfersKept DEF Transferring
<1>8. Paired'
  <2> SUFFICES ASSUME NEW f \in Envs, status'[f] = "ENV_RUNNABLE", NEW i \in Fds,
                      fd[f][i] # NULL
               PROVE  i \in data[f]
    BY <1>2 DEF Paired, HasPage
  <2>1. CASE f = child
    BY <1>4, <2>1
  <2>2. CASE f # child
    BY <1>6, <2>2 DEF PipeInv, Paired, HasPage
  <2> QED
    BY <2>1, <2>2
<1>9. FreeIsEmpty'
  <2> SUFFICES ASSUME NEW f \in Envs
               PROVE  /\ status'[f] = "ENV_FREE" =>
                           data[f] = {} /\ \A i \in Fds : fd[f][i] = NULL
                      /\ status'[f] # "ENV_RUNNABLE" => pc'[f] = "idle"
    BY <1>2 DEF FreeIsEmpty
  <2>1. CASE f = child
    BY <1>6, <2>1
  <2>2. CASE f # child
    BY <1>6, <2>2 DEF PipeInv, FreeIsEmpty
  <2> QED
    BY <2>1, <2>2
<1>10. CloseDup'
  BY <1>2, <1>6 DEF PipeInv, CloseDup
<1>11. ASSUME NEW f \in Envs, pc'[f] = "fork"
       PROVE  f # e /\ pc[f] = "fork" /\ call'[f] = call[f] /\ call[f].child # child
  BY <1>2, <1>6, <1>11 DEF PipeInv, OneParent, child
<1>12. Forking'
  BY <1>2, <1>6, <1>11 DEF PipeInv, Forking
<1>13. OneParent'
  BY <1>11 DEF PipeInv, OneParent
<1> QED
  BY <1>5, <1>7, <1>8, <1>9, <1>10, <1>12, <1>13 DEF PipeInv

\* What is destroyed was running, and so it was nobody's child in a fork.
LEMMA DestroyStep ==
  ASSUME PipeInv, NEW e \in Envs, Destroy(e)
  PROVE  PipeInv'
<1>1. TypeOK
  BY DEF PipeInv
<1>2. /\ Runs(e) /\ status[e] = "ENV_RUNNABLE"
      /\ status' = [status EXCEPT ![e] = "ENV_FREE"]
      /\ fd' = [fd EXCEPT ![e] = [i \in Fds |-> NULL]]
      /\ data' = [data EXCEPT ![e] = {}]
      /\ pc' = [pc EXCEPT ![e] = "idle"]
      /\ call' = [call EXCEPT ![e] = NoCall]
      /\ closed' = [closed EXCEPT ![e] = NULL]
      /\ UNCHANGED pipeVars
  BY DEF Destroy, Runs
<1>3. TypeOK'
  BY <1>1, <1>2, NoCallType, SwitchedType DEF TypeOK, Labels, pipeVars
<1>4. /\ status'[e] = "ENV_FREE" /\ pc'[e] = "idle" /\ data'[e] = {}
      /\ \A i \in Fds : fd'[e][i] = NULL
      /\ \A f \in Envs \ {e} : switched'[f] = TRUE
  BY <1>1, <1>2 DEF TypeOK, Runs
<1>5. ASSUME NEW f \in Envs, f # e
      PROVE  /\ fd'[f] = fd[f] /\ data'[f] = data[f] /\ status'[f] = status[f]
             /\ pc'[f] = pc[f] /\ call'[f] = call[f]
  BY <1>1, <1>2, <1>5 DEF TypeOK
<1>6. OnOpen' /\ RefsCurrent'
  BY <1>4, <1>5, TransfersKept DEF Transferring
<1>7. Paired'
  BY <1>4, <1>5 DEF PipeInv, Paired, HasPage
<1>8. FreeIsEmpty'
  <2> SUFFICES ASSUME NEW f \in Envs
               PROVE  /\ status'[f] = "ENV_FREE" =>
                           data'[f] = {} /\ \A i \in Fds : fd'[f][i] = NULL
                      /\ status'[f] # "ENV_RUNNABLE" => pc'[f] = "idle"
    BY DEF FreeIsEmpty
  <2>1. CASE f = e
    BY <1>4, <2>1
  <2>2. CASE f # e
    BY <1>5, <2>2 DEF PipeInv, FreeIsEmpty
  <2> QED
    BY <2>1, <2>2
<1>9. CloseDup'
  <2> SUFFICES ASSUME NEW f \in Envs
               PROVE  /\ pc'[f] \in {"close", "dup data"} => fd'[f][call'[f].fdnum] = NULL
                      /\ pc'[f] = "dup fd" /\ fd'[f][call'[f].from] # NULL
                           => call'[f].fdnum \in data'[f]
    BY DEF CloseDup
  <2>1. CASE f = e
    BY <1>4, <2>1
  <2>2. CASE f # e
    BY <1>5, <2>2 DEF PipeInv, CloseDup
  <2> QED
    BY <2>1, <2>2
<1>10. ASSUME NEW f \in Envs, pc'[f] = "fork"
       PROVE  /\ f # e /\ pc[f] = "fork" /\ call'[f] = call[f]
              /\ call[f].child \in Envs /\ call[f].child # e
  <2>1. f # e /\ pc[f] = "fork" /\ call'[f] = call[f]
    BY <1>4, <1>5, <1>10
  <2> QED
    BY <1>2, <2>1 DEF PipeInv, Forking
<1>11. Forking'
  <2> SUFFICES ASSUME NEW f \in Envs, pc'[f] = "fork"
               PROVE  LET d == call'[f].child
                      IN  /\ d \in Envs /\ d # f
                          /\ status'[d] = "ENV_NOT_RUNNABLE"
                          /\ \A i \in Fds : fd'[d][i] # NULL => fd'[f][i] # NULL
                          /\ \A i \in data'[f] :
                               MAXFD + i < call'[f].addr => i \in data'[d]
    BY DEF Forking
  <2> DEFINE d == call[f].child
  <2>1. /\ f # e /\ call'[f] = call[f] /\ d \in Envs /\ d # e
        /\ d # f /\ status[d] = "ENV_NOT_RUNNABLE"
        /\ \A i \in Fds : fd[d][i] # NULL => fd[f][i] # NULL
        /\ \A i \in data[f] : MAXFD + i < call[f].addr => i \in data[d]
    BY <1>10 DEF PipeInv, Forking
  <2>2. call'[f].child = d
    BY <2>1
  <2> HIDE DEF d
  <2>3. /\ fd'[f] = fd[f] /\ data'[f] = data[f]
        /\ fd'[d] = fd[d] /\ data'[d] = data[d] /\ status'[d] = status[d]
    BY <1>5, <2>1
  <2> QED
    BY <2>1, <2>2, <2>3
<1>12. OneParent'
  BY <1>10 DEF PipeInv, OneParent
<1> QED
  BY <1>3, <1>6, <1>7, <1>8, <1>9, <1>11, <1>12 DEF PipeInv

-----------------------------------------------------------------------------
(***************************************************************************)
(* The theorems                                                            *)
(***************************************************************************)

\* The state after pipe().
LEMMA PipeInit ==
  ASSUME Init
  PROVE  PipeInv
<1>1. 0 \in Fds /\ 1 \in Fds
  BY SizesAssumption DEF Fds
<1>2. TypeOK
  BY <1>1, NoCallType, EnvsAssumption, EndsAssumption, SizesAssumption
     DEF Init, TypeOK, Ends, Labels
<1>3. Paired /\ FreeIsEmpty
  BY EnvsAssumption DEF Init, Paired, HasPage, FreeIsEmpty
<1>4. CloseDup /\ Forking /\ OneParent /\ OnOpen /\ RefsCurrent
  BY DEF Init, CloseDup, Forking, OneParent, OnOpen, WellFormed, Transferring, RefsCurrent
<1> QED
  BY <1>2, <1>3, <1>4 DEF PipeInv

\* A step that changes nothing.
LEMMA PipeStutter ==
  ASSUME PipeInv, UNCHANGED vars
  PROVE  PipeInv'
<1>1. \A end : pageref(end)' = pageref(end)
  BY DEF vars, pageVars, FdRefs, pageref
<1>2. TypeOK'
  BY DEF vars, PipeInv, TypeOK
<1>3. Paired' /\ FreeIsEmpty' /\ CloseDup'
  BY DEF vars, PipeInv, Paired, HasPage, FreeIsEmpty, CloseDup
<1>4. Forking' /\ OneParent'
  BY DEF vars, PipeInv, Forking, OneParent
<1>5. OnOpen' /\ RefsCurrent'
  BY <1>1 DEF vars, PipeInv, OnOpen, WellFormed, RefsCurrent
<1> QED
  BY <1>2, <1>3, <1>4, <1>5 DEF PipeInv

\* Every step keeps the invariant.
LEMMA PipeStep ==
  ASSUME PipeInv, [Next]_vars
  PROVE  PipeInv'
<1>1. CASE UNCHANGED vars
  BY <1>1, PipeStutter
<1>2. ASSUME NEW e \in Envs, Proceed(e)
      PROVE  PipeInv'
  BY <1>2, CloseDataStep, DupDataStep, DupFdStep, CopyPageStep, StartChildStep,
     TestStep, MoveStep, AdvanceStep, CheckStep, CompareStep DEF Proceed
<1>3. ASSUME NEW e \in Envs, Transfer(e)
      PROVE  PipeInv'
  <2>1. PICK i \in Fds, n \in 1 .. MaxBytes : Read(e, i, n) \/ Write(e, i, n)
    BY <1>3 DEF Transfer
  <2>2. n \in 0 .. MaxBytes /\ n # 0
    BY SizesAssumption
  <2>3. fd[e][i] # NULL
    BY <2>1, EndsAssumption DEF Read, Write, Ends
  <2>4. PICK name \in {"read", "write"} : Start(e, name, "test", i, n)
    BY <2>1 DEF Read, Write
  <2> QED
    BY <2>2, <2>3, <2>4, StartStep
<1>4. ASSUME NEW e \in Envs, NEW i \in Fds, PipeIsClosed(e, i)
      PROVE  PipeInv'
  <2>1. fd[e][i] # NULL /\ Start(e, "pipeisclosed", "check", i, 0) /\ 0 \in 0 .. MaxBytes
    BY <1>4, SizesAssumption DEF PipeIsClosed
  <2> QED
    BY <2>1, StartStep
<1> QED
  BY <1>1, <1>2, <1>3, <1>4, DestroyStep, CloseStep, DupStep, ForkStep DEF Next

\* The invariant holds in every reachable state.
THEOREM PipeInvariant == Spec => []PipeInv
<1>1. Init => PipeInv
  BY PipeInit
<1>2. PipeInv /\ [Next]_vars => PipeInv'
  BY PipeStep
<1> QED
  BY <1>1, <1>2, PTL DEF Spec

\* lib/pipe.c, lib/fd.c, lib/fork.c: every variable keeps its type.
THEOREM PipeTypeCorrect == Spec => []TypeOK
<1>1. PipeInv => TypeOK
  BY DEF PipeInv
<1> QED
  BY <1>1, PipeInvariant, PTL

\* Unless pages are being copied, references to a descriptor page are matched
\* by as many to the pipe's page, and more of those mean the other end is open.
LEMMA AllTheReferences ==
  ASSUME PipeInv, ~Copying, NEW end \in Ends, pageref(end) = pagerefPipe
  PROVE  ~IsOpen(OtherEnd(end))
<1>1. \A other \in Ends : FdRefs(other) \subseteq DataRefs
  <2> SUFFICES ASSUME NEW other \in Ends, NEW x \in Envs \X Fds, fd[x[1]][x[2]] = other
               PROVE  x[2] \in data[x[1]]
    BY DEF FdRefs, DataRefs
  <2>1. fd[x[1]][x[2]] # NULL
    BY EndsAssumption
  <2>2. status[x[1]] = "ENV_RUNNABLE"
    BY <2>1 DEF PipeInv, TypeOK, FreeIsEmpty, Copying
  <2> QED
    BY <2>1, <2>2 DEF PipeInv, Paired, HasPage
<1>2. FdRefs(end) = DataRefs
  BY <1>1, RefsFinite, FS_Subset DEF pageref, pagerefPipe
<1>3. OtherEnd(end) \in Ends /\ OtherEnd(end) # end
  BY DEF OtherEnd, Ends
<1>4. FdRefs(OtherEnd(end)) \cap FdRefs(end) = {}
  BY <1>3 DEF FdRefs
<1> QED
  BY <1>1, <1>2, <1>3, <1>4 DEF IsOpen

\* lib/pipe.c:59-84: whenever _pipeisclosed says that the other end is closed,
\* it is, or a fork or spawn was copying pages.
THEOREM ClosedCorrect == Spec => ClosedMeansGoneUnlessCopying
<1>1. ASSUME PipeInv, Next, NEW e \in Envs, FindsClosed(e), ~Copying
      PROVE  ~IsOpen(OtherEnd(closed'[e]))
  <2>1. closed[e] = NULL /\ closed'[e] # NULL /\ TypeOK
    BY <1>1 DEF FindsClosed, PipeInv
  <2>2. \A label, c : \A f \in Envs : ~Enter(f, label, c)
    BY <2>1 DEF Enter, TypeOK
  <2>3. \A f \in Envs : ~Return(f, NULL)
    BY <2>1 DEF Return, TypeOK
  <2>4. PICK f \in Envs : Compare(f)
    <3>1. PICK f \in Envs :
            \/ Proceed(f) \/ Destroy(f) \/ Transfer(f)
            \/ \E i \in Fds : Close(f, i) \/ PipeIsClosed(f, i) \/ \E j \in Fds : Dup(f, i, j)
            \/ \E child \in Envs : Fork(f, child)
      BY <1>1 DEF Next
    <3>2. ~Destroy(f)
      BY <2>1 DEF Destroy, TypeOK
    <3>3. ~Transfer(f)
      BY <2>2 DEF Transfer, Read, Write, Start
    <3>4. \A i, j \in Fds : ~Close(f, i) /\ ~PipeIsClosed(f, i) /\ ~Dup(f, i, j)
      BY <2>2 DEF Close, PipeIsClosed, Start, Dup
    <3>5. \A child \in Envs : ~Fork(f, child)
      BY <2>2 DEF Fork
    <3>6. /\ ~CloseData(f) /\ ~DupData(f) /\ ~DupFd(f) /\ ~CopyPage(f) /\ ~StartChild(f)
          /\ ~Test(f) /\ ~Move(f) /\ ~Advance(f) /\ ~Check(f)
      BY <2>1, <2>3 DEF CloseData, DupData, DupFd, CopyPage, StartChild, Test, Move,
                        Advance, Check, GoTo
    <3> QED
      BY <3>1, <3>2, <3>3, <3>4, <3>5, <3>6 DEF Proceed
  <2> DEFINE end == fd[f][call[f].fdnum]
  <2>5. /\ Return(f, end) /\ call[f].refs = pagerefPipe
        /\ ~switched[f] /\ pc[f] = "compare"
        /\ UNCHANGED <<pageVars, pipeVars>>
    BY <2>1, <2>3, <2>4 DEF Compare, GoTo
  <2>6. f = e /\ closed'[e] = end
    BY <2>1, <2>5 DEF Return, TypeOK
  <2>7. end \in Ends
    <3>1. end \in Ends \cup {NULL}
      BY <2>1 DEF TypeOK, Call
    <3> QED
      BY <2>1, <2>6, <3>1
  <2>8. pageref(end) = pagerefPipe
    BY <1>1, <2>5 DEF PipeInv, RefsCurrent
  <2> HIDE DEF end
  <2> QED
    BY <1>1, <2>6, <2>7, <2>8, AllTheReferences
<1>2. PipeInv /\ [Next]_vars =>
        [\A e \in Envs :
           FindsClosed(e) => ~IsOpen(OtherEnd(closed'[e])) \/ Copying]_vars
  BY <1>1
<1> QED
  BY <1>2, PipeInvariant, PTL DEF Spec, ClosedMeansGoneUnlessCopying

-----------------------------------------------------------------------------
(***************************************************************************)
(* The buffer is a channel                                                 *)
(***************************************************************************)

\* read() and write() are each called by one environment at most.
OneEach == (\A e, f \in Readers : e = f) /\ (\A e, f \in Writers : e = f)

\* Where read and write are: what the head of their loop found is still so, and
\* the byte in hand is the next one.
HoldsByte(e) ==
  IF call[e].name = "read"
  THEN /\ pc[e] \in {"move", "advance"} => p_rpos < p_wpos
       /\ pc[e] = "advance" => call[e].byte = p_rpos + 1
  ELSE /\ pc[e] \in {"move", "advance"} => p_wpos < p_rpos + PIPEBUFSIZ
       /\ pc[e] = "advance" => p_buf[p_wpos % PIPEBUFSIZ] = p_wpos + 1

InRole(e) ==
  pc[e] \in Transferring =>
    \/ call[e].name = "read" /\ e \in Readers
    \/ call[e].name = "write" /\ e \in Writers
    \/ call[e].name = "pipeisclosed" /\ pc[e] \in {"check", "compare"}

\* The bytes between the positions are the ones written last.
Ring ==
  /\ p_rpos <= p_wpos /\ p_wpos <= p_rpos + PIPEBUFSIZ
  /\ \A k \in p_rpos .. p_wpos - 1 : p_buf[k % PIPEBUFSIZ] = k + 1

ChannelInv == Ring /\ \A e \in Envs : InRole(e) /\ HoldsByte(e)

\* Quotient and remainder
LEMMA Division ==
  ASSUME NEW S \in Nat, S > 0, NEW i \in Nat
  PROVE  i = S * (i \div S) + (i % S) /\ i \div S \in Int /\ i % S \in 0 .. S - 1
<1>1. i = S * (i \div S) + (i % S)
  BY SMTT(30)
<1>2. i \div S \in Int
  OBVIOUS
<1>3. i % S \in 0 .. S - 1
  OBVIOUS
<1> QED
  BY <1>1, <1>2, <1>3

\* Two places in the ring are different if their positions are less than its
\* size apart.
LEMMA RingPlaces ==
  ASSUME NEW S \in Nat, S > 0, NEW i \in Nat, NEW k \in Nat, i < k, k < i + S
  PROVE  i % S # k % S
<1>1. /\ i = S * (i \div S) + (i % S) /\ i \div S \in Int /\ i % S \in 0 .. S - 1
      /\ k = S * (k \div S) + (k % S) /\ k \div S \in Int
  BY Division
<1> SUFFICES ASSUME i % S = k % S
             PROVE  FALSE
  OBVIOUS
<1> DEFINE d == (k \div S) - (i \div S)
<1>2. d \in Int /\ k - i = S * d
  <2> DEFINE p == i \div S
             q == k \div S
             m == i % S
  <2>1. i = S * p + m /\ k = S * q + m /\ p \in Int /\ q \in Int /\ m \in Int
    BY <1>1
  <2> HIDE DEF p, q, m
  <2>2. k - i = S * (q - p)
    BY <2>1
  <2> QED
    BY <2>1, <2>2 DEF p, q
<1> HIDE DEF d
<1>3. CASE d <= 0
  <2>1. S * d <= 0
    BY <1>2, <1>3
  <2> QED
    BY <1>2, <2>1
<1>4. CASE d >= 1
  <2>1. S * d >= S
    BY <1>2, <1>4
  <2> QED
    BY <1>2, <2>1
<1> QED
  BY <1>2, <1>3, <1>4

\* The sequence r + 1, ..., w
Window(r, w) == [k \in 1 .. w - r |-> r + k]

LEMMA WindowIsQueue ==
  ASSUME NEW r \in Nat, NEW w \in Nat
  PROVE  /\ Window(r, w) \in Seq(Nat)
         /\ r <= w => Len(Window(r, w)) = w - r
         /\ r = w => Window(r, w) = <<>>
         /\ r < w => /\ Window(r, w) # <<>>
                     /\ Head(Window(r, w)) = r + 1
                     /\ Tail(Window(r, w)) = Window(r + 1, w)
         /\ r <= w => Append(Window(r, w), w + 1) = Window(r, w + 1)
<1> DEFINE s == Window(r, w)
<1>1. s \in Seq(Nat)
  BY DEF Window
<1>2. r <= w => Len(s) = w - r
  BY DEF Window
<1>3. r = w => s = <<>>
  BY DEF Window
<1>4. ASSUME r < w
      PROVE  s # <<>> /\ Head(s) = r + 1 /\ Tail(s) = Window(r + 1, w)
  <2>1. Len(s) = w - r /\ s # <<>> /\ Head(s) = s[1]
    BY <1>1, <1>2, <1>4
  <2>2. Head(s) = r + 1
    BY <2>1, <1>4 DEF Window
  <2>3. Tail(s) \in Seq(Nat) /\ Len(Tail(s)) = w - (r + 1)
    BY <1>1, <2>1, HeadTailProperties
  <2>4. Window(r + 1, w) \in Seq(Nat) /\ Len(Window(r + 1, w)) = w - (r + 1)
    BY <1>4 DEF Window
  <2>5. \A k \in 1 .. w - (r + 1) : Tail(s)[k] = s[k + 1]
    BY <1>1, <2>1, <2>3, HeadTailProperties
  <2>6. \A k \in 1 .. w - (r + 1) : s[k + 1] = Window(r + 1, w)[k]
    BY <1>4 DEF Window
  <2> HIDE DEF s
  <2>7. \A k \in 1 .. Len(Tail(s)) : Tail(s)[k] = Window(r + 1, w)[k]
    BY <2>3, <2>5, <2>6
  <2>8. Tail(s) = Window(r + 1, w)
    BY <2>3, <2>4, <2>7, SeqEqual
  <2> QED
    BY <2>1, <2>2, <2>8
<1>5. ASSUME r <= w
      PROVE  Append(s, w + 1) = Window(r, w + 1)
  <2>1. /\ Append(s, w + 1) \in Seq(Nat) /\ Len(Append(s, w + 1)) = w - r + 1
        /\ \A k \in 1 .. w - r : Append(s, w + 1)[k] = s[k]
        /\ Append(s, w + 1)[w - r + 1] = w + 1
    <3>1. w + 1 \in Nat /\ Len(s) = w - r
      BY <1>2, <1>5
    <3> HIDE DEF s
    <3> QED
      BY <1>1, <3>1, AppendProperties
  <2>2. /\ Window(r, w + 1) \in Seq(Nat) /\ Len(Window(r, w + 1)) = w - r + 1
        /\ \A k \in 1 .. w - r : Window(r, w + 1)[k] = s[k]
        /\ Window(r, w + 1)[w - r + 1] = w + 1
    BY <1>5 DEF Window
  <2> HIDE DEF s
  <2>3. \A k \in 1 .. w - r + 1 : Append(s, w + 1)[k] = Window(r, w + 1)[k]
    <3> SUFFICES ASSUME NEW k \in 1 .. w - r + 1
                 PROVE  Append(s, w + 1)[k] = Window(r, w + 1)[k]
      OBVIOUS
    <3>1. k = w - r + 1 \/ k \in 1 .. w - r
      BY <1>5
    <3> QED
      BY <2>1, <2>2, <3>1
  <2> QED
    BY <2>1, <2>2, <2>3, SeqEqual
<1> QED
  BY <1>1, <1>2, <1>3, <1>4, <1>5

\* What the ring holds, read from its oldest byte on
LEMMA RingIsWindow ==
  ASSUME NEW r \in Nat, NEW w \in Nat, NEW b,
         \A k \in r .. w - 1 : b[k % PIPEBUFSIZ] = k + 1
  PROVE  [k \in 1 .. w - r |-> b[(r + k - 1) % PIPEBUFSIZ]] = Window(r, w)
<1>1. \A k \in 1 .. w - r : r + k - 1 \in r .. w - 1 /\ (r + k - 1) + 1 = r + k
  OBVIOUS
<1>2. \A k \in 1 .. w - r : b[(r + k - 1) % PIPEBUFSIZ] = r + k
  BY <1>1
<1> QED
  BY <1>2 DEF Window

-----------------------------------------------------------------------------
\* What e does concerns no other environment.
OthersStay(e) == \A f \in Envs \ {e} : pc'[f] = pc[f] /\ call'[f] = call[f]

\* A step that moves no byte
LEMMA NoByteStep ==
  ASSUME ChannelInv, NEW e \in Envs, OthersStay(e), UNCHANGED pipeVars,
         InRole(e)', HoldsByte(e)'
  PROVE  ChannelInv'
<1>1. Ring'
  BY DEF ChannelInv, Ring, pipeVars
<1>2. ASSUME NEW f \in Envs, f # e
      PROVE  InRole(f)' /\ HoldsByte(f)'
  BY <1>2 DEF ChannelInv, OthersStay, InRole, HoldsByte, pipeVars
<1> QED
  BY <1>1, <1>2 DEF ChannelInv

\* The calls that move no byte
LEMMA PageSteps ==
  ASSUME TypeOK, ChannelInv, NEW e \in Envs,
         \/ CloseData(e) \/ DupData(e) \/ DupFd(e) \/ CopyPage(e) \/ StartChild(e) \/ Destroy(e)
         \/ \E i \in Fds : Close(e, i) \/ \E j \in Fds : Dup(e, i, j)
         \/ \E child \in Envs : Fork(e, child)
  PROVE  ChannelInv'
<1>1. UNCHANGED pipeVars /\ OthersStay(e) /\ pc'[e] \notin Transferring
  <2>0. pc \in [Envs -> Labels] /\ call \in [Envs -> Call]
    BY DEF TypeOK
  <2>1. CASE CloseData(e) \/ DupData(e) \/ DupFd(e) \/ StartChild(e)
    BY <2>0, <2>1 DEF CloseData, DupData, DupFd, StartChild, GoTo, Return, OthersStay, Transferring
  <2>2. CASE CopyPage(e)
    BY <2>0, <2>2 DEF CopyPage, OthersStay, Transferring
  <2>3. CASE Destroy(e)
    BY <2>0, <2>3 DEF Destroy, OthersStay, Transferring
  <2>4. CASE \E i \in Fds : Close(e, i) \/ \E j \in Fds : Dup(e, i, j)
    BY <2>0, <2>4 DEF Close, Dup, Enter, OthersStay, Transferring
  <2>5. CASE \E child \in Envs : Fork(e, child)
    BY <2>0, <2>5 DEF Fork, Enter, OthersStay, Transferring
  <2> QED
    BY <2>1, <2>2, <2>3, <2>4, <2>5
<1>2. InRole(e)' /\ HoldsByte(e)'
  BY <1>1 DEF InRole, HoldsByte, Transferring
<1> QED
  BY <1>1, <1>2, NoByteStep

\* A call begins.
LEMMA BeginSteps ==
  ASSUME TypeOK, ChannelInv, NEW e \in Envs,
         Transfer(e) \/ \E i \in Fds : PipeIsClosed(e, i)
  PROVE  ChannelInv'
<1>1. PICK name \in {"read", "write", "pipeisclosed"}, i \in Fds, n \in 0 .. MaxBytes,
          label \in {"check", "test"} :
        /\ Start(e, name, label, i, n)
        /\ label = IF name = "pipeisclosed" THEN "check" ELSE "test"
        /\ name = "read" => e \in Readers
        /\ name = "write" => e \in Writers
  BY SizesAssumption DEF Transfer, Read, Write, PipeIsClosed
<1>2. /\ UNCHANGED pipeVars /\ OthersStay(e)
      /\ pc'[e] = label /\ call'[e].name = name
  BY <1>1 DEF Start, Enter, NoCall, OthersStay, TypeOK
<1>3. InRole(e)' /\ HoldsByte(e)'
  BY <1>1, <1>2 DEF InRole, HoldsByte
<1> QED
  BY <1>2, <1>3, NoByteStep

\* The tests before a byte is moved
LEMMA TestSteps ==
  ASSUME TypeOK, ChannelInv, NEW e \in Envs, Test(e) \/ Check(e) \/ Compare(e)
  PROVE  ChannelInv'
<1>1. InRole(e) /\ p_rpos <= p_wpos
  BY DEF ChannelInv, Ring
<1>2. pc \in [Envs -> Labels] /\ call \in [Envs -> Call]
  BY DEF TypeOK
<1>3. /\ UNCHANGED pipeVars /\ OthersStay(e)
      /\ pc[e] \in Transferring
      /\ pc'[e] \in {"idle", "move", "check", "compare", "test"}
      /\ pc'[e] = "move" => pc[e] = "test" /\ ~Blocked(e)
      /\ pc'[e] = "test" => call[e].name # "pipeisclosed"
      /\ pc'[e] # "idle" => call'[e].name = call[e].name
  <2>1. CASE Test(e)
    BY <1>2, <2>1 DEF Test, GoTo, Return, OthersStay, Transferring
  <2>2. CASE Check(e)
    BY <1>2, <2>2 DEF Check, Call, OthersStay, Transferring
  <2>3. CASE Compare(e)
    BY <1>2, <2>3 DEF Compare, GoTo, Return, OthersStay, Transferring
  <2> QED
    BY <2>1, <2>2, <2>3
<1>4. InRole(e)'
  BY <1>1, <1>3 DEF InRole, Transferring
<1>5. HoldsByte(e)'
  <2>1. p_rpos \in Nat /\ p_wpos \in Nat /\ PIPEBUFSIZ \in Nat
    BY SizesAssumption DEF TypeOK
  <2>2. pc'[e] # "advance"
    BY <1>3
  <2>3. UNCHANGED <<p_rpos, p_wpos>>
    BY <1>3 DEF pipeVars
  <2>4. CASE pc'[e] = "move"
    <3>1. call'[e].name = call[e].name /\ ~Blocked(e)
      BY <1>3, <2>4
    <3>2. IF call[e].name = "read" THEN p_rpos < p_wpos ELSE p_wpos < p_rpos + PIPEBUFSIZ
      BY <1>1, <2>1, <3>1 DEF Blocked
    <3> QED
      BY <2>2, <2>3, <3>1, <3>2 DEF HoldsByte
  <2>5. CASE pc'[e] # "move"
    BY <2>2, <2>5 DEF HoldsByte
  <2> QED
    BY <2>4, <2>5
<1> QED
  BY <1>3, <1>4, <1>5, NoByteStep

\* A reader takes the oldest byte; a writer stores one beside those that wait.
LEMMA MoveChannel ==
  ASSUME OneEach, TypeOK, ChannelInv, NEW e \in Envs, Move(e)
  PROVE  ChannelInv'
<1>1. /\ pc \in [Envs -> Labels] /\ call \in [Envs -> Call]
      /\ p_rpos \in Nat /\ p_wpos \in Nat /\ PIPEBUFSIZ \in Nat /\ PIPEBUFSIZ > 0
      /\ p_buf \in [0 .. PIPEBUFSIZ - 1 -> Nat]
  BY SizesAssumption DEF TypeOK
<1>2. Ring /\ \A f \in Envs : InRole(f) /\ HoldsByte(f)
  BY DEF ChannelInv
<1>3. /\ pc[e] = "move" /\ pc' = [pc EXCEPT ![e] = "advance"]
      /\ UNCHANGED <<p_rpos, p_wpos>>
      /\ \/ call[e].name = "read" /\ e \in Readers
         \/ call[e].name = "write" /\ e \in Writers
  <2>1. InRole(e)
    BY <1>2
  <2>2. pc[e] = "move" /\ pc' = [pc EXCEPT ![e] = "advance"] /\ UNCHANGED <<p_rpos, p_wpos>>
    BY DEF Move
  <2> QED
    BY <2>1, <2>2 DEF InRole, Transferring
<1>4. CASE call[e].name = "read"
  <2>1. /\ call' = [call EXCEPT ![e].byte = p_buf[p_rpos % PIPEBUFSIZ]]
        /\ p_buf' = p_buf
    BY <1>4 DEF Move
  <2>2. p_rpos \in p_rpos .. p_wpos - 1
    BY <1>1, <1>2, <1>3, <1>4 DEF HoldsByte
  <2>3. p_buf[p_rpos % PIPEBUFSIZ] = p_rpos + 1
    BY <1>2, <2>2 DEF Ring
  <2>4. call'[e].name = call[e].name /\ call'[e].byte = p_rpos + 1
    BY <1>1, <2>1, <2>3 DEF Call
  <2>5. Ring'
    BY <1>2, <1>3, <2>1 DEF Ring
  <2>6. InRole(e)' /\ HoldsByte(e)'
    BY <1>1, <1>2, <1>3, <1>4, <2>2, <2>4 DEF InRole, HoldsByte
  <2>7. ASSUME NEW f \in Envs, f # e
        PROVE  InRole(f)' /\ HoldsByte(f)'
    <3>1. pc'[f] = pc[f] /\ call'[f] = call[f]
      BY <1>1, <1>3, <2>1, <2>7
    <3> QED
      BY <1>2, <1>3, <2>1, <3>1 DEF InRole, HoldsByte
  <2> QED
    BY <2>5, <2>6, <2>7 DEF ChannelInv
<1>5. CASE call[e].name = "write"
  <2>1. /\ p_buf' = [p_buf EXCEPT ![p_wpos % PIPEBUFSIZ] = p_wpos + 1]
        /\ call' = call
    BY <1>5 DEF Move
  <2>2. p_wpos < p_rpos + PIPEBUFSIZ /\ p_wpos % PIPEBUFSIZ \in 0 .. PIPEBUFSIZ - 1
    BY <1>1, <1>2, <1>3, <1>5, Division DEF HoldsByte
  <2>3. p_buf'[p_wpos % PIPEBUFSIZ] = p_wpos + 1
    BY <1>1, <2>1, <2>2
  <2>4. ASSUME NEW k \in p_rpos .. p_wpos - 1
        PROVE  p_buf'[k % PIPEBUFSIZ] = k + 1
    <3>1. k \in Nat /\ k < p_wpos /\ p_wpos < k + PIPEBUFSIZ
      BY <1>1, <2>2
    <3>2. k % PIPEBUFSIZ # p_wpos % PIPEBUFSIZ
      BY <1>1, <3>1, RingPlaces
    <3>3. p_buf[k % PIPEBUFSIZ] = k + 1
      BY <1>2, <2>4 DEF Ring
    <3> QED
      BY <1>1, <2>1, <3>2, <3>3
  <2>5. Ring'
    BY <1>2, <1>3, <2>4 DEF Ring
  <2>6. InRole(e)' /\ HoldsByte(e)'
    BY <1>1, <1>2, <1>3, <1>5, <2>1, <2>2, <2>3 DEF InRole, HoldsByte
  <2>7. ASSUME NEW f \in Envs, f # e
        PROVE  InRole(f)' /\ HoldsByte(f)'
    <3>1. pc'[f] = pc[f] /\ call'[f] = call[f]
      BY <1>1, <1>3, <2>1, <2>7
    <3>2. InRole(f) /\ HoldsByte(f)
      BY <1>2
    <3>3. pc[f] \in {"move", "advance"} => call[f].name = "read"
      BY <1>3, <1>5, <2>7, <3>2 DEF OneEach, InRole, Transferring
    <3> QED
      BY <1>3, <3>1, <3>2, <3>3 DEF InRole, HoldsByte
  <2> QED
    BY <2>5, <2>6, <2>7 DEF ChannelInv
<1> QED
  BY <1>3, <1>4, <1>5

\* The position moves on: the byte leaves, or enters, the channel.
LEMMA AdvanceChannel ==
  ASSUME OneEach, TypeOK, ChannelInv, NEW e \in Envs, Advance(e)
  PROVE  /\ ChannelInv'
         /\ \/ /\ p_rpos < p_wpos /\ p_rpos' = p_rpos + 1 /\ last' = p_rpos + 1
               /\ p_wpos' = p_wpos
            \/ /\ p_wpos < p_rpos + PIPEBUFSIZ /\ p_wpos' = p_wpos + 1
               /\ UNCHANGED <<p_rpos, last>>
<1>1. /\ pc \in [Envs -> Labels] /\ call \in [Envs -> Call]
      /\ p_rpos \in Nat /\ p_wpos \in Nat /\ PIPEBUFSIZ \in Nat
  BY SizesAssumption DEF TypeOK
<1>2. Ring /\ \A f \in Envs : InRole(f) /\ HoldsByte(f)
  BY DEF ChannelInv
<1>3. /\ pc[e] = "advance" /\ p_buf' = p_buf
      /\ \/ call[e].name = "read" /\ e \in Readers
         \/ call[e].name = "write" /\ e \in Writers
  <2>1. InRole(e)
    BY <1>2
  <2>2. pc[e] = "advance" /\ p_buf' = p_buf
    BY DEF Advance
  <2> QED
    BY <2>1, <2>2 DEF InRole, Transferring
<1>4. /\ OthersStay(e)
      /\ \/ pc'[e] = "idle"
         \/ pc'[e] = "test" /\ call'[e].name = call[e].name
  <2>1. CASE call[e].left = 1
    BY <1>1, <2>1 DEF Advance, Return, OthersStay
  <2>2. CASE call[e].left # 1
    <3>1. /\ pc' = [pc EXCEPT ![e] = "test"]
          /\ call' = [call EXCEPT ![e].left = @ - 1, ![e].any = TRUE]
      BY <2>2 DEF Advance
    <3>2. call'[e].name = call[e].name
      BY <1>1, <3>1 DEF Call
    <3> QED
      BY <1>1, <3>1, <3>2 DEF OthersStay
  <2> QED
    BY <2>1, <2>2
<1>5. InRole(e)' /\ HoldsByte(e)'
  BY <1>3, <1>4 DEF InRole, HoldsByte, Transferring
<1>6. CASE call[e].name = "read"
  <2>1. p_rpos' = p_rpos + 1 /\ last' = call[e].byte /\ p_wpos' = p_wpos
    BY <1>6 DEF Advance
  <2>2. p_rpos < p_wpos /\ call[e].byte = p_rpos + 1
    BY <1>2, <1>3, <1>6 DEF HoldsByte
  <2>3. Ring'
    <3>1. \A k \in p_rpos + 1 .. p_wpos - 1 : k \in p_rpos .. p_wpos - 1
      BY <1>1
    <3>2. \A k \in p_rpos + 1 .. p_wpos - 1 : p_buf[k % PIPEBUFSIZ] = k + 1
      BY <1>2, <3>1 DEF Ring
    <3>3. p_rpos + 1 <= p_wpos /\ p_wpos <= (p_rpos + 1) + PIPEBUFSIZ
      BY <1>1, <1>2, <2>2 DEF Ring
    <3> QED
      BY <1>3, <2>1, <3>2, <3>3 DEF Ring
  <2>4. ASSUME NEW f \in Envs, f # e
        PROVE  InRole(f)' /\ HoldsByte(f)'
    <3>1. pc'[f] = pc[f] /\ call'[f] = call[f] /\ InRole(f) /\ HoldsByte(f)
      BY <1>2, <1>4, <2>4 DEF OthersStay
    <3>2. pc[f] \in {"move", "advance"} => call[f].name # "read"
      BY <1>3, <1>6, <2>4, <3>1 DEF OneEach, InRole, Transferring
    <3>3. p_wpos < p_rpos + PIPEBUFSIZ => p_wpos < (p_rpos + 1) + PIPEBUFSIZ
      BY <1>1
    <3> QED
      BY <1>3, <2>1, <3>1, <3>2, <3>3 DEF InRole, HoldsByte
  <2> QED
    BY <1>5, <2>1, <2>2, <2>3, <2>4 DEF ChannelInv
<1>7. CASE call[e].name = "write"
  <2>1. p_wpos' = p_wpos + 1 /\ UNCHANGED <<p_rpos, last>>
    BY <1>7 DEF Advance
  <2>2. p_wpos < p_rpos + PIPEBUFSIZ /\ p_buf[p_wpos % PIPEBUFSIZ] = p_wpos + 1
    BY <1>2, <1>3, <1>7 DEF HoldsByte
  <2>3. Ring'
    <3>1. \A k \in p_rpos .. p_wpos : k = p_wpos \/ k \in p_rpos .. p_wpos - 1
      BY <1>1
    <3>2. \A k \in p_rpos .. p_wpos : p_buf[k % PIPEBUFSIZ] = k + 1
      BY <1>2, <2>2, <3>1 DEF Ring
    <3>3. p_wpos' - 1 = p_wpos /\ p_rpos <= p_wpos + 1 /\ p_wpos + 1 <= p_rpos + PIPEBUFSIZ
      BY <1>1, <1>2, <2>1, <2>2 DEF Ring
    <3> QED
      BY <1>3, <2>1, <3>2, <3>3 DEF Ring
  <2>4. ASSUME NEW f \in Envs, f # e
        PROVE  InRole(f)' /\ HoldsByte(f)'
    <3>1. pc'[f] = pc[f] /\ call'[f] = call[f] /\ InRole(f) /\ HoldsByte(f)
      BY <1>2, <1>4, <2>4 DEF OthersStay
    <3>2. pc[f] \in {"move", "advance"} => call[f].name = "read"
      BY <1>3, <1>7, <2>4, <3>1 DEF OneEach, InRole, Transferring
    <3>3. p_rpos < p_wpos => p_rpos < p_wpos + 1
      BY <1>1
    <3> QED
      BY <1>3, <2>1, <3>1, <3>2, <3>3 DEF InRole, HoldsByte
  <2> QED
    BY <1>5, <2>1, <2>2, <2>3, <2>4 DEF ChannelInv
<1> QED
  BY <1>3, <1>6, <1>7

LEMMA ChannelStart ==
  ASSUME Init
  PROVE  ChannelInv
<1>1. Ring
  BY SizesAssumption DEF Init, Ring
<1>2. ASSUME NEW e \in Envs
      PROVE  InRole(e) /\ HoldsByte(e)
  BY DEF Init, InRole, HoldsByte, Transferring
<1> QED
  BY <1>1, <1>2 DEF ChannelInv

\* Every step keeps the ring, and is one of the channel or none.
LEMMA ChannelStep ==
  ASSUME OneEach, TypeOK, ChannelInv, [Next]_vars
  PROVE  /\ ChannelInv'
         /\ \/ UNCHANGED <<p_rpos, p_wpos, last>>
            \/ /\ p_rpos < p_wpos /\ p_rpos' = p_rpos + 1 /\ last' = p_rpos + 1
               /\ p_wpos' = p_wpos
            \/ /\ p_wpos < p_rpos + PIPEBUFSIZ /\ p_wpos' = p_wpos + 1
               /\ UNCHANGED <<p_rpos, last>>
<1>1. CASE UNCHANGED vars
  BY <1>1 DEF vars, ChannelInv, Ring, InRole, HoldsByte
<1>2. ASSUME NEW e \in Envs,
             \/ CloseData(e) \/ DupData(e) \/ DupFd(e) \/ CopyPage(e) \/ StartChild(e) \/ Destroy(e)
             \/ \E i \in Fds : Close(e, i) \/ \E j \in Fds : Dup(e, i, j)
             \/ \E child \in Envs : Fork(e, child)
      PROVE  ChannelInv' /\ UNCHANGED <<p_rpos, p_wpos, last>>
  <2>1. UNCHANGED pipeVars
    BY <1>2 DEF CloseData, DupData, DupFd, CopyPage, StartChild, Destroy, Close, Dup, Fork
  <2> QED
    BY <1>2, <2>1, PageSteps DEF pipeVars
<1>3. ASSUME NEW e \in Envs, Transfer(e) \/ \E i \in Fds : PipeIsClosed(e, i)
      PROVE  ChannelInv' /\ UNCHANGED <<p_rpos, p_wpos, last>>
  <2>1. UNCHANGED pipeVars
    BY <1>3 DEF Transfer, Read, Write, PipeIsClosed, Start
  <2> QED
    BY <1>3, <2>1, BeginSteps DEF pipeVars
<1>4. ASSUME NEW e \in Envs, Test(e) \/ Check(e) \/ Compare(e)
      PROVE  ChannelInv' /\ UNCHANGED <<p_rpos, p_wpos, last>>
  <2>1. UNCHANGED pipeVars
    BY <1>4 DEF Test, Check, Compare
  <2> QED
    BY <1>4, <2>1, TestSteps DEF pipeVars
<1>5. ASSUME NEW e \in Envs, Move(e)
      PROVE  ChannelInv' /\ UNCHANGED <<p_rpos, p_wpos, last>>
  BY <1>5, MoveChannel DEF Move
<1> QED
  BY <1>1, <1>2, <1>3, <1>4, <1>5, AdvanceChannel DEF Next, Proceed

\* The window of a step
LEMMA BufferedIsWindow ==
  ASSUME TypeOK, ChannelInv
  PROVE  buffered = Window(p_rpos, p_wpos)
BY RingIsWindow DEF TypeOK, ChannelInv, Ring, buffered

\* What a program with one reader and one writer can rely on: the bytes come out
\* of a pipe once each and in the order in which they went in, and at most
\* PIPEBUFSIZ of them wait, however reads, writes, closes, forks and exits
\* interleave (lib/pipe.c, devpipe_read and devpipe_write).
THEOREM PipeIsAChannel == OneEach => (Spec => IsChannel)
<1> SUFFICES ASSUME OneEach
             PROVE  Spec => IsChannel
  OBVIOUS
<1>1. Init => ChannelInv /\ Fifo!Init
  <2> SUFFICES ASSUME Init
               PROVE  Fifo!Init
    BY ChannelStart
  <2>1. p_rpos = 0 /\ p_wpos = 0 /\ last = 0
    BY DEF Init
  <2>2. buffered = <<>>
    BY <2>1 DEF buffered
  <2> QED
    BY <2>1, <2>2 DEF Fifo!Init
<1>2. PipeInv /\ ChannelInv /\ [Next]_vars => ChannelInv'
  BY ChannelStep DEF PipeInv
<1>3. PipeInv /\ PipeInv' /\ ChannelInv /\ ChannelInv' /\ [Next]_vars
        => [Fifo!Next]_<<buffered, p_wpos, last>>
  <2> SUFFICES ASSUME TypeOK, TypeOK', ChannelInv, ChannelInv', [Next]_vars
               PROVE  [Fifo!Next]_<<buffered, p_wpos, last>>
    BY DEF PipeInv
  <2>1. /\ buffered = Window(p_rpos, p_wpos)
        /\ p_rpos \in Nat /\ p_wpos \in Nat /\ p_rpos <= p_wpos
    BY BufferedIsWindow DEF TypeOK, ChannelInv, Ring
  <2>2. buffered' = Window(p_rpos', p_wpos')
    <3>1. p_rpos' \in Nat /\ p_wpos' \in Nat
      BY DEF TypeOK
    <3>2. \A k \in p_rpos' .. p_wpos' - 1 : p_buf'[k % PIPEBUFSIZ] = k + 1
      BY DEF ChannelInv, Ring
    <3> QED
      BY <3>1, <3>2, RingIsWindow DEF buffered
  <2>3. CASE UNCHANGED <<p_rpos, p_wpos, last>>
    BY <2>1, <2>2, <2>3
  <2>4. CASE /\ p_rpos < p_wpos /\ p_rpos' = p_rpos + 1 /\ last' = p_rpos + 1
             /\ p_wpos' = p_wpos
    BY <2>1, <2>2, <2>4, WindowIsQueue DEF Fifo!Next, Fifo!Receive
  <2>5. CASE /\ p_wpos < p_rpos + PIPEBUFSIZ /\ p_wpos' = p_wpos + 1
             /\ UNCHANGED <<p_rpos, last>>
    <3>1. Len(buffered) < PIPEBUFSIZ
      <4>1. Len(buffered) = p_wpos - p_rpos
        BY <2>1, WindowIsQueue
      <4>2. p_wpos - p_rpos < PIPEBUFSIZ
        BY <2>1, <2>5, SizesAssumption
      <4> QED
        BY <4>1, <4>2
    <3>2. buffered' = Append(buffered, p_wpos + 1)
      BY <2>1, <2>2, <2>5, WindowIsQueue
    <3> QED
      BY <2>5, <3>1, <3>2 DEF Fifo!Next, Fifo!Send
  <2> QED
    BY <2>3, <2>4, <2>5, ChannelStep
<1> QED
  BY <1>1, <1>2, <1>3, PipeInvariant, PTL
     DEF Spec, IsChannel, Fifo!Spec, Fifo!channelVars
=============================================================================
