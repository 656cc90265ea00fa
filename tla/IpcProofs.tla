------------------------------ MODULE IpcProofs ------------------------------
(***************************************************************************)
(* Ipc, proved for every value of the constants: it runs the kernel, so    *)
(* that what is proved of Kernel holds under any use of the library;       *)
(* ipc_recv returns one whole message; wait returns only when its          *)
(* environment is gone.                                                    *)
(***************************************************************************)
EXTENDS Ipc, PagesProofs

-----------------------------------------------------------------------------
(***************************************************************************)
(* The inductive invariant                                                 *)
(***************************************************************************)

\* Where a library routine can be, with its locals.
LibStates ==
  {None, [call |-> "new"], [call |-> "panic"]}
  \cup {Recv(pc, from, perm) : pc \in {"from", "perm", "value"},
                               from \in Ids, perm \in SUBSET Flags}
  \cup {Send(to, v, UTOP, {}) : to \in EnvIds \ {Self}, v \in Values}
  \cup {Send(to, v, pg, perm) : to \in EnvIds \ {Self}, v \in Values,
                                pg \in VA, perm \in Perms}
  \cup {Wait(envid, pc) : envid \in EnvIds \ {Self}, pc \in {"id", "status"}}

IpcTypes ==
  /\ lib \in [Envs -> LibStates]
  /\ delivered \in [Envs -> Messages \cup {NULL}]
  /\ env_ipc_value \in [Envs -> Values]
  /\ env_ipc_from \in [Envs -> Ids]
  /\ env_ipc_perm \in [Envs -> SUBSET Flags]

\* A slot in use has an id of its own and is not free; in the library nobody
\* marks a living environment free.
IdsNameSlots ==
  \A e \in Envs :
    /\ env_id[e] \in EnvIds
    /\ env_id[e] # Self => env_id[e][2] = e
    /\ InUse(e) => env_id[e] # Self /\ env_status[e] # "ENV_FREE"

\* The kernel waits for a message only on behalf of ipc_recv, and who waits
\* does not run.
OnlyReceiversWait ==
  \A e \in Envs :
    env_ipc_recving[e] /\ env_status[e] # "ENV_FREE" =>
      lib[e].call = "recv" /\ env_status[e] = "ENV_NOT_RUNNABLE"

\* The message delivered to e is still in its struct Env, and what ipc_recv
\* has read so far comes from it.
Unread(e) ==
  /\ delivered[e] # NULL
  /\ delivered[e].to = env_id[e]
  /\ delivered[e].from = env_ipc_from[e]
  /\ delivered[e].value = env_ipc_value[e]
  /\ delivered[e].perm # {} => env_ipc_perm[e] = delivered[e].perm
  /\ lib[e].pc # "from" => lib[e].from = env_ipc_from[e]
  /\ lib[e].pc = "value" => lib[e].perm = env_ipc_perm[e]

MessagesUnread ==
  \A e \in Envs :
    lib[e].call = "recv" => IF env_ipc_recving[e] THEN lib[e].pc = "from" ELSE Unread(e)

LibInv ==
  /\ IpcTypes
  /\ IdsNameSlots
  /\ OnlyReceiversWait
  /\ MessagesUnread

IpcInv == KernelInv /\ LibInv

-----------------------------------------------------------------------------
(***************************************************************************)
(* Lemmas                                                                  *)
(***************************************************************************)

\* What a routine is in says which locals it has.
LEMMA LibFields ==
  ASSUME NEW l \in LibStates
  PROVE  /\ l.call \in {"none", "new", "recv", "send", "wait", "panic"}
         /\ l.call = "recv" => /\ l = Recv(l.pc, l.from, l.perm)
                               /\ l.pc \in {"from", "perm", "value"}
                               /\ l.from \in Ids /\ l.perm \in SUBSET Flags
         /\ l.call = "send" => /\ l.to \in EnvIds \ {Self} /\ l.value \in Values
                               /\ \/ l.pg = UTOP /\ l.perm = {}
                                  \/ l.pg \in VA /\ l.perm \in Perms
         /\ l.call = "wait" => /\ l = Wait(l.envid, l.pc)
                               /\ l.envid \in EnvIds \ {Self}
                               /\ l.pc \in {"id", "status"}
  BY DEF LibStates, None, Recv, Send, Wait

\* Rescheduling neither frees a slot nor wakes an environment that waits.
LEMMA SchedYieldLife ==
  ASSUME NEW status \in [Envs -> Statuses], NEW cur \in Envs \cup {NULL},
         \A e \in Envs : status[e] = "ENV_RUNNING" => e = cur,
         SchedYield(status, cur), NEW f \in Envs
  PROVE  /\ env_status'[f] = "ENV_FREE" <=> status[f] = "ENV_FREE"
         /\ status[f] = "ENV_NOT_RUNNABLE" => env_status'[f] = "ENV_NOT_RUNNABLE"
<1> DEFINE n == NextToRun(status, cur)
<1>1. EnvRun(status, cur, n)
  BY DEF SchedYield
<1>2. n = f => status[f] \in {"ENV_RUNNABLE", "ENV_RUNNING"}
  <2> SUFFICES ASSUME n = f
               PROVE  status[f] \in {"ENV_RUNNABLE", "ENV_RUNNING"}
    OBVIOUS
  <2>1. f \in Candidates(status, cur)
    BY NextToRunType, NULLAssumption
  <2> QED
    BY <2>1 DEF Candidates
<1> HIDE DEF n
<1> QED
  BY <1>1, <1>2 DEF EnvRun

\* So does the end of trap().
LEMMA ReturnLife ==
  ASSUME NEW status \in [Envs -> Statuses], curenv \in Envs,
         \A e \in Envs : status[e] = "ENV_RUNNING" => e = curenv,
         Return(status), NEW f \in Envs
  PROVE  /\ env_status'[f] = "ENV_FREE" <=> status[f] = "ENV_FREE"
         /\ status[f] = "ENV_NOT_RUNNABLE" => env_status'[f] = "ENV_NOT_RUNNABLE"
  BY SchedYieldLife DEF Return

\* A message is not NULL, and its fields have their types.
LEMMA MessageFields ==
  ASSUME NEW to \in Ids, NEW from \in Ids, NEW v \in Values, NEW perm \in SUBSET Flags
  PROVE  LET m == [to |-> to, from |-> from, value |-> v, perm |-> perm]
         IN  m \in Messages /\ m # NULL
  BY ValuesAssumption DEF Messages

\* The environment on the CPU, in a routine.
LEMMA Caller ==
  ASSUME IpcInv, NEW call, In(call)
  PROVE  /\ curenv \in Envs /\ curenv # NULL
         /\ lib[curenv].call = call /\ lib[curenv] \in LibStates
         /\ InUse(curenv) /\ env_status[curenv] = "ENV_RUNNING"
         /\ ~env_ipc_recving[curenv]
<1>1. curenv \in Envs /\ curenv # NULL /\ lib[curenv].call = call
  BY DEF In, Running, IpcInv, KernelInv, TypeOK
<1>2. env_status[curenv] = "ENV_RUNNING"
  BY <1>1 DEF IpcInv, KernelInv, RunningIsCurrent
<1> QED
  BY <1>1, <1>2 DEF IpcInv, LibInv, IpcTypes, KernelInv, LiveHasDirectory, OnlyReceiversWait

\* envid2env for an id that is not the caller's own short one.
LEMMA NamedSlot ==
  ASSUME NEW id \in EnvIds \ {Self}, NEW check \in BOOLEAN, envid2env(id, check) # NULL
  PROVE  /\ envid2env(id, check) = id[2] /\ id[2] \in Envs
         /\ env_id[id[2]] = id /\ env_status[id[2]] # "ENV_FREE"
<1>1. id[2] \in Envs
  BY DEF EnvIds
<1> QED
  BY <1>1, NULLAssumption DEF envid2env

-----------------------------------------------------------------------------
(***************************************************************************)
(* Every step of Ipc is a step of Kernel, or none                          *)
(***************************************************************************)

LEMMA TrySendIsKernel ==
  ASSUME IpcInv, TrySend
  PROVE  IpcCalls
<1> DEFINE s == lib[curenv]
<1>1. /\ s.to \in EnvIds
      /\ \/ s.pg = UTOP /\ s.perm = {}
         \/ s.pg \in VA /\ s.perm \in Perms
      /\ SysIpcTrySend(s.to, s.pg, s.perm)
  BY Caller, LibFields DEF TrySend
<1>2. CASE s.pg \in VA /\ s.perm \in Perms
  BY <1>1, <1>2 DEF IpcCalls
<1>3. CASE s.pg = UTOP /\ s.perm = {}
  <2>1. PICK perm \in Perms : TRUE
    BY PermsAssumption
  <2> HIDE DEF s
  <2>2. SysIpcTrySend(s.to, UTOP, perm)
    BY <1>1, <1>3 DEF SysIpcTrySend, SendPage
  <2> QED
    BY <1>1, <2>1, <2>2 DEF IpcCalls
<1> QED
  BY <1>1, <1>2, <1>3

LEMMA IpcStepIsKernel ==
  ASSUME IpcInv, IpcNext
  PROVE  [Next]_vars
<1>1. CASE Clock
  BY <1>1 DEF Clock, Next
<1>2. CASE \E pg \in VA \cup {UTOP} : IpcRecv(pg)
  BY <1>2 DEF IpcRecv, IpcCalls, Next
<1>3. CASE Fork
  BY <1>3 DEF Fork, EnvCalls, Next
<1>4. ASSUME NEW e \in Envs, Start(e)
      PROVE  Next
  <2>1. env_id[e] \in EnvIds /\ SysEnvSetStatus(env_id[e], "ENV_RUNNABLE")
    BY <1>4 DEF Start, IpcInv, LibInv, IdsNameSlots
  <2> QED
    BY <2>1 DEF EnvCalls, Next, Statuses
<1>5. ASSUME NEW e \in Envs, Destroy(e)
      PROVE  Next
  <2>1. env_id[e] \in EnvIds /\ SysEnvDestroy(env_id[e])
    BY <1>5 DEF Destroy, IpcInv, LibInv, IdsNameSlots
  <2> QED
    BY <2>1 DEF EnvCalls, Next
<1>6. ASSUME NEW to, NEW v, NEW pg, NEW perm, IpcSend(to, v, pg, perm)
      PROVE  UNCHANGED vars
  BY <1>6 DEF IpcSend
<1>7. ASSUME NEW envid, WaitFor(envid)
      PROVE  UNCHANGED vars
  BY <1>7 DEF WaitFor
<1>8. CASE ReadFrom \/ ReadPerm \/ ReadValue \/ SendFails \/ WaitId
  BY <1>8 DEF ReadFrom, ReadPerm, ReadValue, SendFails, WaitId
<1>9. CASE TrySend
  BY <1>9, TrySendIsKernel DEF Next
<1>10. CASE Retry
  <2>1. Yield
    BY <1>10 DEF Retry, In, Yield
  <2> QED
    BY <2>1 DEF Next
<1>11. CASE WaitStatus
  <2>1. Running /\ UNCHANGED <<mem, slotVars, ipcVars>>
    BY <1>11 DEF WaitStatus, In
  <2>2. UNCHANGED <<env_status, curenv>> \/ SchedYield(env_status, curenv)
    BY <1>11 DEF WaitStatus
  <2> QED
    BY <2>1, <2>2 DEF Yield, Next, vars, slotVars, ipcVars
<1> QED
  BY <1>1, <1>2, <1>3, <1>4, <1>5, <1>6, <1>7, <1>8, <1>9, <1>10, <1>11
  DEF IpcNext, Call, Continue

-----------------------------------------------------------------------------
(***************************************************************************)
(* Every step keeps the invariant                                          *)
(***************************************************************************)

\* A step of the environment on the CPU by itself, in its own memory.
LEMMA LocalKeeps ==
  ASSUME IpcInv, UNCHANGED <<vars, msgVars>>,
         curenv \in Envs, ~env_ipc_recving[curenv],
         NEW l \in LibStates, lib' = [lib EXCEPT ![curenv] = l],
         delivered' \in [Envs -> Messages \cup {NULL}],
         \A e \in Envs : e # curenv => delivered'[e] = delivered[e],
         l.call = "recv" => Unread(curenv)'
  PROVE  LibInv'
<1>1. IpcTypes'
  BY DEF IpcInv, LibInv, IpcTypes, msgVars
<1>2. IdsNameSlots'
  BY DEF IpcInv, LibInv, IdsNameSlots, vars, InUse
<1>3. \A e \in Envs : e # curenv => lib'[e] = lib[e]
  BY DEF IpcInv, LibInv, IpcTypes
<1>4. lib'[curenv] = l
  BY DEF IpcInv, LibInv, IpcTypes
<1>5. OnlyReceiversWait'
  BY <1>3 DEF IpcInv, LibInv, OnlyReceiversWait, vars
<1>6. MessagesUnread'
  <2> SUFFICES ASSUME NEW e \in Envs, lib'[e].call = "recv"
               PROVE  IF env_ipc_recving[e] THEN lib'[e].pc = "from" ELSE Unread(e)'
    BY DEF MessagesUnread, vars
  <2>1. CASE e = curenv
    BY <1>4, <2>1 DEF Unread, vars
  <2>2. CASE e # curenv
    BY <1>3, <2>2 DEF IpcInv, LibInv, MessagesUnread, Unread, vars, msgVars
  <2> QED
    BY <2>1, <2>2
<1> QED
  BY <1>1, <1>2, <1>5, <1>6 DEF LibInv

LEMMA ReadKeeps ==
  ASSUME IpcInv, ReadFrom \/ ReadPerm \/ ReadValue
  PROVE  LibInv'
<1> DEFINE l == lib[curenv]
<1>1. /\ curenv \in Envs /\ l \in LibStates /\ l.call = "recv"
      /\ ~env_ipc_recving[curenv]
      /\ UNCHANGED <<vars, msgVars>>
  BY Caller DEF ReadFrom, ReadPerm, ReadValue
<1>2. /\ l.from \in Ids /\ Unread(curenv)
      /\ delivered \in [Envs -> Messages \cup {NULL}]
      /\ env_ipc_from[curenv] \in Ids /\ env_ipc_perm[curenv] \in SUBSET Flags
      /\ lib \in [Envs -> LibStates]
  BY <1>1, LibFields DEF IpcInv, LibInv, MessagesUnread, IpcTypes
<1>3. CASE ReadFrom
  <2> DEFINE n == Recv("perm", env_ipc_from[curenv], {})
  <2>1. n \in LibStates
    BY <1>2 DEF LibStates
  <2>2. lib' = [lib EXCEPT ![curenv] = n] /\ delivered' = delivered
    BY <1>3 DEF ReadFrom, Goto
  <2>3. Unread(curenv)'
    BY <1>1, <1>2, <2>2 DEF Unread, Recv, vars, msgVars
  <2> QED
    BY <1>1, <1>2, <2>1, <2>2, <2>3, LocalKeeps
<1>4. CASE ReadPerm
  <2> DEFINE n == Recv("value", l.from, env_ipc_perm[curenv])
  <2>1. n \in LibStates
    BY <1>2 DEF LibStates
  <2>2. l.pc = "perm" /\ lib' = [lib EXCEPT ![curenv] = n] /\ delivered' = delivered
    BY <1>4 DEF ReadPerm, Goto
  <2>3. Unread(curenv)'
    BY <1>1, <1>2, <2>2 DEF Unread, Recv, vars, msgVars
  <2> QED
    BY <1>1, <1>2, <2>1, <2>2, <2>3, LocalKeeps
<1>5. CASE ReadValue
  <2>1. lib' = [lib EXCEPT ![curenv] = None]
        /\ delivered' = [delivered EXCEPT ![curenv] = NULL]
    BY <1>5 DEF ReadValue, Goto
  <2>2. None \in LibStates /\ None.call # "recv"
    BY DEF LibStates, None
  <2> QED
    BY <1>1, <1>2, <2>1, <2>2, LocalKeeps
<1> QED
  BY <1>3, <1>4, <1>5

\* ipc_send and wait are called, ipc_send fails, wait finds another id.
LEMMA GotoKeeps ==
  ASSUME IpcInv, UNCHANGED <<vars, msgVars, delivered>>,
         NEW call, In(call), NEW l \in LibStates, l.call # "recv", Goto(l)
  PROVE  LibInv'
<1>1. curenv \in Envs /\ ~env_ipc_recving[curenv]
  BY Caller
<1>2. delivered' \in [Envs -> Messages \cup {NULL}]
  BY DEF IpcInv, LibInv, IpcTypes
<1> QED
  BY <1>1, <1>2, LocalKeeps DEF Goto

\* The CPU goes to another environment: the clock, and the yields of ipc_send
\* and wait.
LEMMA RescheduleLib ==
  ASSUME IpcInv, curenv \in Envs, ~env_ipc_recving[curenv], SchedYield(env_status, curenv),
         UNCHANGED <<mem, slotVars, ipcVars, msgVars, delivered>>,
         NEW l \in LibStates, l.call # "recv",
         lib' = lib \/ lib' = [lib EXCEPT ![curenv] = l]
  PROVE  LibInv'
<1>1. IpcTypes'
  BY DEF IpcInv, LibInv, IpcTypes, msgVars
<1>2. \A f \in Envs :
        /\ env_status'[f] = "ENV_FREE" <=> env_status[f] = "ENV_FREE"
        /\ env_status[f] = "ENV_NOT_RUNNABLE" => env_status'[f] = "ENV_NOT_RUNNABLE"
  BY SchedYieldLife DEF IpcInv, KernelInv, TypeOK, RunningIsCurrent
<1>3. IdsNameSlots'
  BY <1>2 DEF IpcInv, LibInv, IdsNameSlots, slotVars, InUse
<1>4. \A e \in Envs : lib'[e] = lib[e] \/ (e = curenv /\ lib'[e] = l)
  BY DEF IpcInv, LibInv, IpcTypes
<1>5. OnlyReceiversWait'
  BY <1>2, <1>4 DEF IpcInv, LibInv, OnlyReceiversWait, ipcVars
<1>6. MessagesUnread'
  BY <1>4 DEF IpcInv, LibInv, MessagesUnread, Unread, ipcVars, slotVars, msgVars
<1> QED
  BY <1>1, <1>3, <1>5, <1>6 DEF LibInv

\* ipc_recv starts to wait.
LEMMA RecvKeeps ==
  ASSUME IpcInv, NEW pg, IpcRecv(pg)
  PROVE  LibInv'
<1> DEFINE status == [env_status EXCEPT ![curenv] = "ENV_NOT_RUNNABLE"]
           l == Recv("from", Self, {})
<1>1. curenv \in Envs /\ Self \in Ids
  BY Caller, NENVAssumption, GenMaxAssumption DEF IpcRecv, Ids, Self, Envs
<1>2. /\ SchedYield(status, curenv)
      /\ lib' = [lib EXCEPT ![curenv] = l]
      /\ env_ipc_recving' = [env_ipc_recving EXCEPT ![curenv] = TRUE]
      /\ UNCHANGED <<mem, slotVars, msgVars, delivered>>
  BY DEF IpcRecv, SysIpcRecv, Goto
<1>3. /\ status \in [Envs -> Statuses]
      /\ \A e \in Envs : status[e] = "ENV_RUNNING" => e = curenv
      /\ status[curenv] = "ENV_NOT_RUNNABLE"
      /\ \A e \in Envs : e # curenv => status[e] = env_status[e]
      /\ env_status[curenv] = "ENV_RUNNING"
  BY <1>1 DEF IpcInv, KernelInv, TypeOK, RunningIsCurrent, Statuses
<1> HIDE DEF status
<1>4. \A f \in Envs :
        /\ env_status'[f] = "ENV_FREE" <=> env_status[f] = "ENV_FREE"
        /\ f # curenv /\ env_status[f] = "ENV_NOT_RUNNABLE"
             => env_status'[f] = "ENV_NOT_RUNNABLE"
        /\ env_status'[curenv] = "ENV_NOT_RUNNABLE"
  <2>1. \A f \in Envs :
          /\ env_status'[f] = "ENV_FREE" <=> status[f] = "ENV_FREE"
          /\ status[f] = "ENV_NOT_RUNNABLE" => env_status'[f] = "ENV_NOT_RUNNABLE"
    BY <1>1, <1>2, <1>3, SchedYieldLife
  <2>2. env_status'[curenv] = "ENV_NOT_RUNNABLE"
    BY <1>1, <1>3, <2>1
  <2>3. ASSUME NEW f \in Envs, f # curenv
        PROVE  /\ env_status'[f] = "ENV_FREE" <=> env_status[f] = "ENV_FREE"
               /\ env_status[f] = "ENV_NOT_RUNNABLE"
                    => env_status'[f] = "ENV_NOT_RUNNABLE"
    <3>1. status[f] = env_status[f]
      BY <1>3, <2>3
    <3> QED
      BY <2>1, <3>1
  <2>4. env_status'[curenv] = "ENV_FREE" <=> env_status[curenv] = "ENV_FREE"
    BY <1>3, <2>2
  <2> QED
    BY <2>2, <2>3, <2>4
<1>5. l \in LibStates /\ l.call = "recv" /\ l.pc = "from"
  <2>1. {} \in SUBSET Flags
    OBVIOUS
  <2>2. Recv("from", Self, {}) \in LibStates
    BY <1>1, <2>1 DEF LibStates
  <2> QED
    BY <2>2 DEF Recv
<1> HIDE DEF l
<1>6. IpcTypes'
  BY <1>2, <1>5 DEF IpcInv, LibInv, IpcTypes, msgVars
<1>7. IdsNameSlots'
  BY <1>2, <1>4 DEF IpcInv, LibInv, IdsNameSlots, slotVars, InUse
<1>8. /\ lib'[curenv] = l /\ env_ipc_recving'[curenv]
      /\ \A e \in Envs : e # curenv => /\ lib'[e] = lib[e]
                                       /\ env_ipc_recving'[e] = env_ipc_recving[e]
  BY <1>1, <1>2 DEF IpcInv, LibInv, IpcTypes, KernelInv, TypeOK
<1>9. OnlyReceiversWait'
  BY <1>4, <1>5, <1>8 DEF IpcInv, LibInv, OnlyReceiversWait
<1>10. MessagesUnread'
  BY <1>2, <1>5, <1>8 DEF IpcInv, LibInv, MessagesUnread, Unread, slotVars, msgVars
<1> QED
  BY <1>6, <1>7, <1>9, <1>10 DEF LibInv

\* ipc_send gets through: the message reaches an environment that waits for
\* one, and nobody else's message is lost.
LEMMA TrySendKeeps ==
  ASSUME IpcInv, TrySend
  PROVE  LibInv'
<1> DEFINE s == lib[curenv]
           e == envid2env(s.to, FALSE)
           m == [to |-> s.to, from |-> env_id[curenv], value |-> s.value,
                 perm |-> IF s.pg = UTOP \/ env_ipc_dstva[e] = UTOP THEN {} ELSE s.perm]
           p == IF s.pg = UTOP THEN {} ELSE s.perm
           status == [env_status EXCEPT ![e] = "ENV_RUNNABLE"]
<1>1. /\ curenv \in Envs /\ s.call = "send" /\ s \in LibStates
      /\ env_status[curenv] = "ENV_RUNNING"
  BY Caller DEF TrySend
<1>2. /\ s.to \in EnvIds \ {Self} /\ s.value \in Values /\ s.perm \in SUBSET Flags
  BY <1>1, LibFields, PermsAssumption
<1>3. /\ e # NULL /\ env_ipc_recving[e]
      /\ env_ipc_recving' = [env_ipc_recving EXCEPT ![e] = FALSE]
      /\ Return(status)
      /\ UNCHANGED slotVars
      /\ Deliver(e, s)
      /\ delivered' = [delivered EXCEPT ![e] = m]
      /\ lib' = [lib EXCEPT ![curenv] = None]
      /\ SysIpcTrySend(s.to, s.pg, s.perm)
  BY DEF TrySend, SysIpcTrySend, Goto
<1>4. e \in Envs /\ env_id[e] = s.to /\ env_status[e] # "ENV_FREE"
  BY <1>2, <1>3, NamedSlot
<1>5. m \in Messages /\ m # NULL /\ m.to = env_id[e] /\ m.from = env_id[curenv]
      /\ m.value = s.value /\ (m.perm # {} => m.perm = p) /\ p \in SUBSET Flags
      /\ env_id[curenv] \in Ids
  <2>1. env_id[curenv] \in Ids /\ s.to \in Ids
    BY <1>1, <1>4 DEF IpcInv, KernelInv, TypeOK
  <2>2. (IF s.pg = UTOP \/ env_ipc_dstva[e] = UTOP THEN {} ELSE s.perm) \in SUBSET Flags
    BY <1>2
  <2>3. m \in Messages /\ m # NULL
    BY <1>2, <2>1, <2>2, MessageFields
  <2> QED
    BY <1>2, <1>4, <2>1, <2>3
<1>6. e # curenv /\ lib[e].call = "recv" /\ lib[e].pc = "from"
  BY <1>1, <1>3, <1>4 DEF IpcInv, LibInv, OnlyReceiversWait, MessagesUnread
<1>7. mem'.env_pgdir = mem.env_pgdir
  <2>1. CASE s.pg = UTOP
    BY <1>3, <2>1 DEF SysIpcTrySend, SendPage
  <2>2. CASE s.pg \in VA /\ s.perm \in Perms
    <3> HIDE DEF s
    <3> QED
      BY <1>2, <1>3, <2>2, SendFrame DEF IpcInv
  <2> QED
    BY <1>1, <2>1, <2>2, LibFields
<1>8. /\ status \in [Envs -> Statuses]
      /\ \A f \in Envs : status[f] = "ENV_RUNNING" => f = curenv
      /\ \A f \in Envs : f # e => status[f] = env_status[f]
      /\ status[e] = "ENV_RUNNABLE"
  BY <1>1, <1>4, <1>6 DEF IpcInv, KernelInv, TypeOK, RunningIsCurrent, Statuses
<1>9. /\ lib'[curenv] = None /\ delivered'[e] = m
      /\ env_ipc_value'[e] = s.value /\ env_ipc_from'[e] = env_id[curenv]
      /\ env_ipc_perm'[e] = p /\ ~env_ipc_recving'[e]
      /\ \A f \in Envs : f # curenv => lib'[f] = lib[f]
      /\ \A f \in Envs : f # e =>
            /\ delivered'[f] = delivered[f]
            /\ env_ipc_value'[f] = env_ipc_value[f]
            /\ env_ipc_from'[f] = env_ipc_from[f]
            /\ env_ipc_perm'[f] = env_ipc_perm[f]
            /\ env_ipc_recving'[f] = env_ipc_recving[f]
  BY <1>1, <1>3, <1>4 DEF Deliver, IpcInv, LibInv, IpcTypes, KernelInv, TypeOK
<1>10. None \in LibStates /\ None.call # "recv"
  BY DEF LibStates, None
<1>11. IpcTypes'
  <2>1. lib' \in [Envs -> LibStates] /\ delivered' \in [Envs -> Messages \cup {NULL}]
    BY <1>3, <1>5, <1>10 DEF IpcInv, LibInv, IpcTypes
  <2>2. /\ env_ipc_value' \in [Envs -> Values]
        /\ env_ipc_from' \in [Envs -> Ids]
        /\ env_ipc_perm' \in [Envs -> SUBSET Flags]
    BY <1>2, <1>3, <1>5 DEF Deliver, IpcInv, LibInv, IpcTypes
  <2> QED
    BY <2>1, <2>2 DEF IpcTypes
<1> HIDE DEF s, m, p, e, status
<1>12. \A f \in Envs :
         /\ env_status'[f] = "ENV_FREE" <=> env_status[f] = "ENV_FREE"
         /\ f # e /\ env_status[f] = "ENV_NOT_RUNNABLE"
              => env_status'[f] = "ENV_NOT_RUNNABLE"
  <2>1. \A f \in Envs :
          /\ env_status'[f] = "ENV_FREE" <=> status[f] = "ENV_FREE"
          /\ status[f] = "ENV_NOT_RUNNABLE" => env_status'[f] = "ENV_NOT_RUNNABLE"
    BY <1>1, <1>3, <1>8, ReturnLife
  <2> QED
    BY <1>4, <1>8, <2>1
<1>13. IdsNameSlots'
  BY <1>3, <1>7, <1>12 DEF IpcInv, LibInv, IdsNameSlots, slotVars, InUse
<1>14. OnlyReceiversWait'
  <2> SUFFICES ASSUME NEW f \in Envs, env_ipc_recving'[f], env_status'[f] # "ENV_FREE"
               PROVE  lib'[f].call = "recv" /\ env_status'[f] = "ENV_NOT_RUNNABLE"
    BY DEF OnlyReceiversWait
  <2>1. f # e /\ env_ipc_recving[f] /\ env_status[f] # "ENV_FREE"
    BY <1>9, <1>12
  <2>2. lib[f].call = "recv" /\ env_status[f] = "ENV_NOT_RUNNABLE"
    BY <2>1 DEF IpcInv, LibInv, OnlyReceiversWait
  <2> QED
    BY <1>1, <1>9, <1>12, <2>1, <2>2
<1>15. MessagesUnread'
  <2> SUFFICES ASSUME NEW f \in Envs, lib'[f].call = "recv"
               PROVE  IF env_ipc_recving'[f] THEN lib'[f].pc = "from" ELSE Unread(f)'
    BY DEF MessagesUnread
  <2>1. f # curenv /\ lib'[f] = lib[f]
    BY <1>9, <1>10
  <2>2. CASE f = e
    BY <1>3, <1>5, <1>6, <1>9, <2>1, <2>2 DEF Unread, slotVars
  <2>3. CASE f # e
    BY <1>3, <1>9, <2>1, <2>3 DEF IpcInv, LibInv, MessagesUnread, Unread, slotVars
  <2> QED
    BY <2>2, <2>3
<1> QED
  BY <1>11, <1>13, <1>14, <1>15 DEF LibInv

\* A child is born, in a slot that is not in use.
LEMMA ForkKeeps ==
  ASSUME IpcInv, Fork
  PROVE  LibInv'
<1> DEFINE t == env_free_list
           status == [env_status EXCEPT ![t] = "ENV_NOT_RUNNABLE"]
           l == [call |-> "new"]
           id == <<NextGeneration(env_id[t][1]), t>>
<1>1. /\ curenv \in Envs /\ InUse(curenv) /\ t \in Envs /\ ~InUse(t) /\ t # curenv
  BY Caller DEF Fork, IpcInv, KernelInv, TypeOK
<1>2. /\ EnvAlloc(t, env_id[curenv]) /\ Return(status) /\ HasFree(mem)
      /\ lib' = [lib EXCEPT ![t] = l]
      /\ delivered' = [delivered EXCEPT ![t] = NULL]
      /\ UNCHANGED msgVars
  BY DEF Fork, SysExofork
<1>3. l \in LibStates /\ l.call # "recv"
  BY DEF LibStates
<1>4. id \in EnvIds /\ id # Self /\ id[2] = t
  <2>1. env_id[t][1] \in 0 .. GenMax
    BY <1>1 DEF IpcInv, KernelInv, TypeOK, Ids
  <2>2. NextGeneration(env_id[t][1]) \in 1 .. GenMax
    BY <2>1, GenMaxAssumption DEF NextGeneration
  <2> QED
    BY <1>1, <2>2 DEF EnvIds, Self
<1>5. env_id' = [env_id EXCEPT ![t] = id]
      /\ env_ipc_recving' = [env_ipc_recving EXCEPT ![t] = FALSE]
  BY <1>1, <1>2 DEF EnvAlloc, IpcInv, KernelInv, TypeOK
<1>6. \A e \in Envs : e # t /\ mem'.env_pgdir[e] # NULL => InUse(e)
  <2>1. mem \in Memory /\ mem.env_pgdir \in [Envs -> Pages \cup {NULL}]
    BY MemoryFields DEF IpcInv, KernelInv, TypeOK
  <2>2. mem'.env_pgdir = [mem.env_pgdir EXCEPT ![t] = FreePage(mem)]
    BY <1>1, <1>2, <2>1, EnvSetupVmType DEF EnvAlloc
  <2> QED
    BY <1>1, <2>1, <2>2 DEF InUse
<1>7. /\ status \in [Envs -> Statuses]
      /\ \A f \in Envs : status[f] = "ENV_RUNNING" => f = curenv
      /\ \A f \in Envs : f # t => status[f] = env_status[f]
      /\ status[t] = "ENV_NOT_RUNNABLE"
  BY <1>1 DEF IpcInv, KernelInv, TypeOK, RunningIsCurrent, Statuses
<1> HIDE DEF t, status, l, id
<1>8. \A f \in Envs :
        /\ f # t => (env_status'[f] = "ENV_FREE" <=> env_status[f] = "ENV_FREE")
        /\ f # t /\ env_status[f] = "ENV_NOT_RUNNABLE"
             => env_status'[f] = "ENV_NOT_RUNNABLE"
        /\ env_status'[t] # "ENV_FREE"
  <2>1. \A f \in Envs :
          /\ env_status'[f] = "ENV_FREE" <=> status[f] = "ENV_FREE"
          /\ status[f] = "ENV_NOT_RUNNABLE" => env_status'[f] = "ENV_NOT_RUNNABLE"
    BY <1>1, <1>2, <1>7, ReturnLife
  <2> QED
    BY <1>1, <1>7, <2>1
<1>9. IpcTypes'
  BY <1>2, <1>3 DEF IpcInv, LibInv, IpcTypes, msgVars
<1>10. /\ lib'[t] = l /\ env_id'[t] = id /\ ~env_ipc_recving'[t]
       /\ \A f \in Envs : f # t => /\ lib'[f] = lib[f]
                                   /\ delivered'[f] = delivered[f]
                                   /\ env_id'[f] = env_id[f]
                                   /\ env_ipc_recving'[f] = env_ipc_recving[f]
  BY <1>1, <1>2, <1>5 DEF IpcInv, LibInv, IpcTypes, KernelInv, TypeOK
<1>11. IdsNameSlots'
  BY <1>4, <1>6, <1>8, <1>10 DEF IpcInv, LibInv, IdsNameSlots, InUse
<1>12. OnlyReceiversWait'
  BY <1>8, <1>10 DEF IpcInv, LibInv, OnlyReceiversWait
<1>13. MessagesUnread'
  BY <1>2, <1>3, <1>10 DEF IpcInv, LibInv, MessagesUnread, Unread, msgVars
<1> QED
  BY <1>9, <1>11, <1>12, <1>13 DEF LibInv

\* A creator starts its child.
LEMMA StartKeeps ==
  ASSUME IpcInv, NEW e \in Envs, Start(e)
  PROVE  LibInv'
<1> DEFINE t == envid2env(env_id[e], TRUE)
           status == [env_status EXCEPT ![t] = "ENV_RUNNABLE"]
<1>1. /\ curenv \in Envs /\ lib[curenv].call = "none" /\ ~env_ipc_recving[curenv]
      /\ lib[e].call = "new"
  BY Caller DEF Start
<1>2. /\ t # NULL /\ Return(status)
      /\ lib' = [lib EXCEPT ![e] = None]
      /\ UNCHANGED <<mem, slotVars, ipcVars, msgVars, delivered>>
  BY DEF Start, SysEnvSetStatus
<1>3. t = e \/ t = curenv
  <2>1. CASE env_id[e] = Self
    BY <2>1 DEF envid2env
  <2>2. CASE env_id[e] # Self
    BY <1>2, <2>2, NamedSlot DEF IpcInv, LibInv, IdsNameSlots
  <2> QED
    BY <2>1, <2>2
<1>4. t \in Envs /\ env_status[t] # "ENV_FREE" /\ ~env_ipc_recving[t]
  <2>1. env_id[e] \in EnvIds
    BY DEF IpcInv, LibInv, IdsNameSlots
  <2>2. t \in Envs /\ env_status[t] # "ENV_FREE"
    <3>1. KernelInv /\ curenv # NULL /\ TRUE \in BOOLEAN
      BY <1>1, NULLAssumption DEF IpcInv
    <3> QED
      BY <1>2, <2>1, <3>1, Envid2envType
  <2> QED
    BY <1>1, <1>3, <2>2 DEF IpcInv, LibInv, OnlyReceiversWait
<1>5. /\ status \in [Envs -> Statuses]
      /\ \A f \in Envs : status[f] = "ENV_RUNNING" => f = curenv
      /\ \A f \in Envs : f # t => status[f] = env_status[f]
      /\ status[t] = "ENV_RUNNABLE"
  BY <1>4 DEF IpcInv, KernelInv, TypeOK, RunningIsCurrent, Statuses
<1> HIDE DEF t, status
<1>6. \A f \in Envs :
        /\ env_status'[f] = "ENV_FREE" <=> env_status[f] = "ENV_FREE"
        /\ f # t /\ env_status[f] = "ENV_NOT_RUNNABLE"
             => env_status'[f] = "ENV_NOT_RUNNABLE"
  <2>1. \A f \in Envs :
          /\ env_status'[f] = "ENV_FREE" <=> status[f] = "ENV_FREE"
          /\ status[f] = "ENV_NOT_RUNNABLE" => env_status'[f] = "ENV_NOT_RUNNABLE"
    BY <1>1, <1>2, <1>5, ReturnLife
  <2> QED
    BY <1>4, <1>5, <2>1
<1>7. None \in LibStates /\ None.call # "recv"
  BY DEF LibStates, None
<1>8. /\ lib'[e].call # "recv"
      /\ \A f \in Envs : f # e => lib'[f] = lib[f]
  BY <1>2, <1>7 DEF IpcInv, LibInv, IpcTypes
<1>9. IpcTypes'
  BY <1>2, <1>7 DEF IpcInv, LibInv, IpcTypes, msgVars
<1>10. IdsNameSlots'
  BY <1>2, <1>6 DEF IpcInv, LibInv, IdsNameSlots, slotVars, InUse
<1>11. OnlyReceiversWait'
  <2> SUFFICES ASSUME NEW f \in Envs, env_ipc_recving[f], env_status'[f] # "ENV_FREE"
               PROVE  lib'[f].call = "recv" /\ env_status'[f] = "ENV_NOT_RUNNABLE"
    BY <1>2 DEF OnlyReceiversWait, ipcVars
  <2>1. lib[f].call = "recv" /\ env_status[f] = "ENV_NOT_RUNNABLE" /\ f # t
    BY <1>4, <1>6 DEF IpcInv, LibInv, OnlyReceiversWait
  <2> QED
    BY <1>1, <1>6, <1>8, <2>1
<1>12. MessagesUnread'
  BY <1>2, <1>8 DEF IpcInv, LibInv, MessagesUnread, Unread, slotVars, ipcVars, msgVars
<1> QED
  BY <1>9, <1>10, <1>11, <1>12 DEF LibInv

\* An environment exits, or its creator destroys it.
LEMMA DestroyKeeps ==
  ASSUME IpcInv, NEW e \in Envs, Destroy(e)
  PROVE  LibInv' /\ env_status'[e] = "ENV_FREE"
<1> DEFINE t == envid2env(env_id[e], TRUE)
           status == [env_status EXCEPT ![t] = "ENV_FREE"]
<1>1. curenv \in Envs
  BY Caller DEF Destroy
<1>2. /\ t # NULL /\ EnvDestroy(t)
      /\ lib' = [lib EXCEPT ![e] = None]
      /\ delivered' = [delivered EXCEPT ![e] = NULL]
      /\ UNCHANGED msgVars
  BY DEF Destroy, SysEnvDestroy, Forget
<1>3. t \in Envs /\ env_status[t] # "ENV_FREE" /\ (t = e \/ env_id[e] = Self)
  <2>1. env_id[e] \in EnvIds
    BY DEF IpcInv, LibInv, IdsNameSlots
  <2>2. t \in Envs /\ env_status[t] # "ENV_FREE"
    <3>1. KernelInv /\ curenv # NULL /\ TRUE \in BOOLEAN
      BY <1>1, NULLAssumption DEF IpcInv
    <3> QED
      BY <1>2, <2>1, <3>1, Envid2envType
  <2> QED
    BY <1>2, <2>2, NamedSlot DEF IpcInv, LibInv, IdsNameSlots
<1>4. e # t => env_status[e] = "ENV_FREE"
  BY <1>3 DEF IpcInv, LibInv, IdsNameSlots, KernelInv, LiveHasDirectory
<1>5. /\ status \in [Envs -> Statuses]
      /\ \A f \in Envs : status[f] = "ENV_RUNNING" => f = curenv /\ f # t
      /\ \A f \in Envs : f # t => status[f] = env_status[f]
      /\ status[t] = "ENV_FREE"
  BY <1>3 DEF IpcInv, KernelInv, TypeOK, RunningIsCurrent, Statuses
<1>6. /\ IF t = curenv THEN SchedYield(status, NULL) ELSE Return(status)
      /\ mem' = FreeVm(mem, t)
      /\ UNCHANGED <<env_id, ipcVars>>
  BY <1>2 DEF EnvDestroy
<1> HIDE DEF t, status
<1>7. \A f \in Envs :
        /\ env_status'[f] = "ENV_FREE" <=> f = t \/ env_status[f] = "ENV_FREE"
        /\ f # t /\ env_status[f] = "ENV_NOT_RUNNABLE"
             => env_status'[f] = "ENV_NOT_RUNNABLE"
  <2>1. \A f \in Envs :
          /\ env_status'[f] = "ENV_FREE" <=> status[f] = "ENV_FREE"
          /\ status[f] = "ENV_NOT_RUNNABLE" => env_status'[f] = "ENV_NOT_RUNNABLE"
    <3>1. CASE t = curenv
      <4>1. \A f \in Envs : status[f] = "ENV_RUNNING" => f = NULL
        BY <1>5, <3>1
      <4> QED
        BY <1>5, <1>6, <3>1, <4>1, SchedYieldLife
    <3>2. CASE t # curenv
      BY <1>1, <1>5, <1>6, <3>2, ReturnLife
    <3> QED
      BY <3>1, <3>2
  <2> QED
    BY <1>3, <1>5, <2>1
<1>8. \A f \in Envs : mem'.env_pgdir[f] # NULL => f # t /\ InUse(f)
  <2>1. mem \in Memory /\ mem.env_pgdir \in [Envs -> Pages \cup {NULL}]
    BY MemoryFields DEF IpcInv, KernelInv, TypeOK
  <2> QED
    BY <1>3, <1>6, <2>1, FreeVmType DEF InUse
<1>9. None \in LibStates /\ None.call # "recv"
  BY DEF LibStates, None
<1>10. /\ lib'[e].call # "recv"
       /\ \A f \in Envs : f # e => lib'[f] = lib[f] /\ delivered'[f] = delivered[f]
  BY <1>2, <1>9 DEF IpcInv, LibInv, IpcTypes
<1>11. IpcTypes'
  BY <1>2, <1>9 DEF IpcInv, LibInv, IpcTypes, msgVars
<1>12. IdsNameSlots'
  BY <1>6, <1>7, <1>8 DEF IpcInv, LibInv, IdsNameSlots, InUse
<1>13. OnlyReceiversWait'
  <2> SUFFICES ASSUME NEW f \in Envs, env_ipc_recving[f], env_status'[f] # "ENV_FREE"
               PROVE  lib'[f].call = "recv" /\ env_status'[f] = "ENV_NOT_RUNNABLE"
    BY <1>6 DEF OnlyReceiversWait, ipcVars
  <2>1. f # t /\ f # e /\ env_status[f] # "ENV_FREE"
    BY <1>4, <1>7
  <2> QED
    BY <1>7, <1>10, <2>1 DEF IpcInv, LibInv, OnlyReceiversWait
<1>14. MessagesUnread'
  BY <1>2, <1>6, <1>10 DEF IpcInv, LibInv, MessagesUnread, Unread, ipcVars, msgVars
<1> QED
  BY <1>4, <1>7, <1>11, <1>12, <1>13, <1>14 DEF LibInv

\* The environment in wait, and the one in ipc_send that yields.
LEMMA YieldKeeps ==
  ASSUME IpcInv, Clock \/ Retry \/ WaitStatus
  PROVE  LibInv'
<1>1. None \in LibStates /\ None.call # "recv"
  BY DEF LibStates, None
<1>2. CASE Clock
  <2>1. curenv \in Envs /\ env_status[curenv] = "ENV_RUNNING"
    BY <1>2 DEF Clock, Yield, Running, IpcInv, KernelInv, TypeOK, RunningIsCurrent
  <2>2. ~env_ipc_recving[curenv]
    BY <2>1 DEF IpcInv, LibInv, OnlyReceiversWait
  <2> QED
    BY <1>1, <1>2, <2>1, <2>2, RescheduleLib DEF Clock, Yield
<1>3. CASE Retry
  <2>1. curenv \in Envs /\ ~env_ipc_recving[curenv]
    BY <1>3, Caller DEF Retry
  <2> QED
    BY <1>1, <1>3, <2>1, RescheduleLib DEF Retry
<1>4. CASE WaitStatus
  <2> DEFINE w == lib[curenv]
             gone == env_status[w.envid[2]] = "ENV_FREE"
             l == IF gone THEN None ELSE [w EXCEPT !.pc = "id"]
  <2>1. /\ curenv \in Envs /\ ~env_ipc_recving[curenv]
        /\ w \in LibStates /\ w.call = "wait"
    BY <1>4, Caller DEF WaitStatus
  <2>2. w = Wait(w.envid, w.pc) /\ w.envid \in EnvIds \ {Self}
    BY <2>1, LibFields
  <2>3. [w EXCEPT !.pc = "id"] = Wait(w.envid, "id")
    BY <2>2 DEF Wait
  <2>4. l \in LibStates /\ l.call # "recv"
    <3>1. Wait(w.envid, "id") \in LibStates /\ Wait(w.envid, "id").call # "recv"
      BY <2>2 DEF LibStates, Wait
    <3> QED
      BY <1>1, <2>3, <3>1
  <2>5. /\ lib' = [lib EXCEPT ![curenv] = l]
        /\ UNCHANGED <<mem, slotVars, ipcVars, msgVars, delivered>>
        /\ UNCHANGED <<env_status, curenv>> \/ SchedYield(env_status, curenv)
    BY <1>4 DEF WaitStatus, Goto
  <2> HIDE DEF l
  <2>6. CASE SchedYield(env_status, curenv)
    BY <2>1, <2>4, <2>5, <2>6, RescheduleLib
  <2>7. CASE UNCHANGED <<env_status, curenv>>
    <3>1. UNCHANGED <<vars, msgVars>> /\ delivered' = delivered
      BY <2>5, <2>7 DEF vars, slotVars, ipcVars
    <3>2. delivered' \in [Envs -> Messages \cup {NULL}]
      BY <3>1 DEF IpcInv, LibInv, IpcTypes
    <3> QED
      BY <2>1, <2>4, <2>5, <3>1, <3>2, LocalKeeps
  <2> QED
    BY <2>5, <2>6, <2>7
<1> QED
  BY <1>2, <1>3, <1>4

LEMMA IpcStep ==
  ASSUME IpcInv, [IpcNext]_ipcAll
  PROVE  IpcInv' /\ [Next]_vars
<1>1. [Next]_vars
  BY IpcStepIsKernel DEF ipcAll
<1>2. KernelInv'
  BY <1>1, KernelStep DEF IpcInv
<1>3. LibInv'
  <2>1. CASE Clock \/ Retry \/ WaitStatus
    BY <2>1, YieldKeeps
  <2>2. CASE ReadFrom \/ ReadPerm \/ ReadValue
    BY <2>2, ReadKeeps
  <2>3. CASE TrySend
    BY <2>3, TrySendKeeps
  <2>4. CASE SendFails
    <3>1. [call |-> "panic"] \in LibStates /\ [call |-> "panic"].call # "recv"
      BY DEF LibStates
    <3> QED
      BY <2>4, <3>1, GotoKeeps DEF SendFails
  <2>5. CASE WaitId
    <3> DEFINE w == lib[curenv]
               l == IF env_id[w.envid[2]] = w.envid THEN [w EXCEPT !.pc = "status"] ELSE None
    <3>1. In("wait") /\ w \in LibStates /\ w.call = "wait"
      BY <2>5, Caller DEF WaitId
    <3>2. w = Wait(w.envid, w.pc) /\ w.envid \in EnvIds \ {Self}
      BY <3>1, LibFields
    <3>3. [w EXCEPT !.pc = "status"] = Wait(w.envid, "status")
      BY <3>2 DEF Wait
    <3>4. l \in LibStates /\ l.call # "recv"
      BY <3>2, <3>3 DEF LibStates, Wait, None
    <3>5. Goto(l) /\ UNCHANGED <<vars, msgVars, delivered>>
      BY <2>5 DEF WaitId
    <3> HIDE DEF l
    <3> QED
      BY <3>1, <3>4, <3>5, GotoKeeps
  <2>6. ASSUME NEW pg \in VA \cup {UTOP}, IpcRecv(pg)
        PROVE  LibInv'
    BY <2>6, RecvKeeps
  <2>7. ASSUME NEW to \in EnvIds, NEW v \in Values, NEW pg, NEW perm, IpcSend(to, v, pg, perm),
               (pg = UTOP /\ perm = {}) \/ (pg \in VA /\ perm \in Perms)
        PROVE  LibInv'
    <3>1. to \in EnvIds \ {Self}
      BY <2>7 DEF IpcSend
    <3>2. ASSUME pg = UTOP, perm = {}
          PROVE  Send(to, v, pg, perm) \in LibStates
      <4>1. Send(to, v, UTOP, {}) \in LibStates
        BY <3>1 DEF LibStates
      <4> QED
        BY <3>2, <4>1
    <3>3. ASSUME pg \in VA, perm \in Perms
          PROVE  Send(to, v, pg, perm) \in LibStates
      BY <3>1, <3>3 DEF LibStates
    <3>4. Send(to, v, pg, perm) \in LibStates
      BY <2>7, <3>2, <3>3
    <3>5. Send(to, v, pg, perm).call # "recv"
      BY DEF Send
    <3> QED
      BY <2>7, <3>4, <3>5, GotoKeeps DEF IpcSend
  <2>8. ASSUME NEW envid \in EnvIds, WaitFor(envid)
        PROVE  LibInv'
    <3>1. Wait(envid, "id") \in LibStates /\ Wait(envid, "id").call # "recv"
      BY <2>8 DEF WaitFor, LibStates, Wait
    <3> QED
      BY <2>8, <3>1, GotoKeeps DEF WaitFor
  <2>9. CASE Fork
    BY <2>9, ForkKeeps
  <2>10. ASSUME NEW e \in Envs, Start(e) \/ Destroy(e)
         PROVE  LibInv'
    BY <2>10, StartKeeps, DestroyKeeps
  <2>11. CASE UNCHANGED ipcAll
    BY <2>11 DEF ipcAll, vars, msgVars, IpcInv, LibInv, IpcTypes, IdsNameSlots, InUse,
                 OnlyReceiversWait, MessagesUnread, Unread
  <2>12. CASE Call
    BY <2>6, <2>7, <2>8, <2>9, <2>10, <2>12 DEF Call
  <2> QED
    BY <2>1, <2>2, <2>3, <2>4, <2>5, <2>11, <2>12 DEF IpcNext, Continue
<1> QED
  BY <1>1, <1>2, <1>3 DEF IpcInv

LEMMA IpcStart ==
  ASSUME IpcInit
  PROVE  IpcInv
<1>1. KernelInv /\ (\A e \in Envs \ {0, 1} : ~InUse(e))
  BY KernelInit DEF IpcInit
<1>2. IpcTypes
  <2>1. (CHOOSE v \in Values : TRUE) \in Values
    BY ValuesAssumption
  <2>2. Self \in Ids /\ None \in LibStates
    BY NENVAssumption, GenMaxAssumption DEF Ids, Self, Envs, LibStates
  <2> QED
    BY <2>1, <2>2 DEF IpcInit, IpcTypes
<1>3. IdsNameSlots
  <2>1. \A e \in Envs : env_id[e] = IF e \in {0, 1} THEN <<1, e>> ELSE Self
    BY DEF IpcInit, Init, Self
  <2>2. \A e \in Envs : e \in {0, 1} => env_status[e] # "ENV_FREE"
    BY DEF IpcInit, Init
  <2>3. \A e \in Envs : <<1, e>> \in EnvIds /\ <<1, e>> # Self /\ <<1, e>>[2] = e
    BY GenMaxAssumption DEF EnvIds, Self
  <2>4. Self \in EnvIds
    BY DEF EnvIds
  <2> QED
    BY <1>1, <2>1, <2>2, <2>3, <2>4 DEF IdsNameSlots
<1>4. OnlyReceiversWait
  BY DEF IpcInit, Init, OnlyReceiversWait
<1>5. MessagesUnread
  BY DEF IpcInit, MessagesUnread, None
<1> QED
  BY <1>1, <1>2, <1>3, <1>4, <1>5 DEF IpcInv, LibInv

-----------------------------------------------------------------------------
(***************************************************************************)
(* Theorems                                                                *)
(***************************************************************************)

\* The invariant of the library routines and the kernel below them: what is
\* delivered to a receiver stays in its struct Env until it has read it.
THEOREM IpcInvariant == IpcSpec => []IpcInv
<1>1. IpcInit => IpcInv
  BY IpcStart
<1>2. IpcInv /\ [IpcNext]_ipcAll => IpcInv'
  BY IpcStep
<1> QED
  BY <1>1, <1>2, PTL DEF IpcSpec

\* The library only does what the kernel allows: every behaviour of Ipc is one
\* of Kernel, so that all theorems about the kernel hold of it.
THEOREM IpcRunsTheKernel == IpcSpec => Spec
<1>1. IpcInit => Init /\ IpcInv
  BY IpcStart DEF IpcInit
<1>2. IpcInv /\ [IpcNext]_ipcAll => IpcInv' /\ [Next]_vars
  BY IpcStep
<1> QED
  BY <1>1, <1>2, PTL DEF IpcSpec, Spec

\* ipc_recv returns one message, the one that was sent to it, although it
\* reads it piece by piece.
THEOREM MessagesAreWhole == IpcSpec => []IpcOK
<1>1. IpcInv => IpcOK
  <2> SUFFICES ASSUME IpcInv
               PROVE  IpcTypeOK /\ OneMessage
    BY DEF IpcOK
  <2>1. IpcTypeOK
    BY LibFields DEF IpcInv, LibInv, IpcTypes, IpcTypeOK
  <2>2. OneMessage
    BY DEF IpcInv, LibInv, MessagesUnread, Unread, OneMessage, Result
  <2> QED
    BY <2>1, <2>2
<1> QED
  BY <1>1, IpcInvariant, PTL

\* wait returns only when the environment it waits for is gone.
THEOREM WaitIsRight == IpcSpec => WaitMeansGone
<1>1. IpcInv /\ [IpcNext]_ipcAll
      => [\A e \in Envs :
            /\ lib[e].call = "wait"
            /\ lib'[e].call = "none"
            /\ env_id'[e] = env_id[e] /\ env_status'[e] # "ENV_FREE"
            => \A f \in Envs : env_id[f] = lib[e].envid => ~InUse(f)]_ipcAll
  <2> SUFFICES ASSUME IpcInv, IpcNext, NEW e \in Envs,
                      lib[e].call = "wait", lib'[e].call = "none",
                      env_status'[e] # "ENV_FREE",
                      NEW f \in Envs, env_id[f] = lib[e].envid, InUse(f)
               PROVE  FALSE
    BY DEF ipcAll
  <2>1. /\ lib[e] \in LibStates /\ lib[e].envid # Self
        /\ lib[e].envid[2] = f /\ env_status[f] # "ENV_FREE"
        /\ env_id[lib[e].envid[2]] = lib[e].envid
    BY LibFields DEF IpcInv, LibInv, IpcTypes, IdsNameSlots
  <2>2. lib'[e] # lib[e]
    OBVIOUS
  <2>3. lib[e] = Wait(lib[e].envid, lib[e].pc)
    BY <2>1, LibFields
  <2>4. \A l : Goto(l) => e = curenv /\ l.call = "none"
    BY <2>2 DEF Goto, IpcInv, LibInv, IpcTypes
  <2>5. ASSUME NEW call, In(call), e = curenv
        PROVE  call = "wait"
    BY <2>5 DEF In
  <2>6. CASE WaitId
    <3>1. Goto([lib[e] EXCEPT !.pc = "status"]) /\ e = curenv
      BY <2>1, <2>4, <2>6 DEF WaitId
    <3>2. [lib[e] EXCEPT !.pc = "status"].call = "wait"
      BY <2>3 DEF Wait
    <3> QED
      BY <2>4, <3>1, <3>2
  <2>7. CASE WaitStatus
    <3>1. Goto([lib[e] EXCEPT !.pc = "id"]) /\ e = curenv
      BY <2>1, <2>4, <2>7 DEF WaitStatus
    <3>2. [lib[e] EXCEPT !.pc = "id"].call = "wait"
      BY <2>3 DEF Wait
    <3> QED
      BY <2>4, <3>1, <3>2
  <2>8. CASE Fork
    BY <2>2, <2>8 DEF Fork, IpcInv, LibInv, IpcTypes
  <2>9. ASSUME NEW g \in Envs, Start(g)
        PROVE  FALSE
    BY <2>2, <2>9 DEF Start, IpcInv, LibInv, IpcTypes
  <2>10. ASSUME NEW g \in Envs, Destroy(g)
         PROVE  FALSE
    <3>1. g # e
      BY <2>10, DestroyKeeps
    <3> QED
      BY <2>2, <2>10, <3>1 DEF Destroy, Forget, IpcInv, LibInv, IpcTypes
  <2>11. CASE Clock \/ Retry
    BY <2>2, <2>11 DEF Clock, Retry
  <2>12. CASE ReadFrom \/ ReadPerm \/ ReadValue \/ TrySend \/ SendFails
    BY <2>4, <2>5, <2>12 DEF ReadFrom, ReadPerm, ReadValue, TrySend, SendFails
  <2>13. ASSUME NEW pg, IpcRecv(pg)
         PROVE  FALSE
    BY <2>4, <2>5, <2>13 DEF IpcRecv
  <2>14. ASSUME NEW to, NEW v, NEW pg, NEW perm, IpcSend(to, v, pg, perm)
         PROVE  FALSE
    BY <2>4, <2>5, <2>14 DEF IpcSend
  <2>15. ASSUME NEW envid, WaitFor(envid)
         PROVE  FALSE
    BY <2>4, <2>5, <2>15 DEF WaitFor
  <2>16. CASE Call
    BY <2>8, <2>9, <2>10, <2>13, <2>14, <2>15, <2>16 DEF Call
  <2> QED
    BY <2>6, <2>7, <2>11, <2>12, <2>16 DEF IpcNext, Continue
<1> QED
  BY <1>1, IpcInvariant, PTL DEF IpcSpec, WaitMeansGone

\* Under any use of the library the count of every page is the number of
\* pointers to it.
THEOREM MessagesKeepTheBooks == IpcSpec /\ []CountsFit => []RefCountExact
<1>1. PagesExact => RefCountExact
  BY DEF PagesExact
<1> QED
  BY <1>1, IpcRunsTheKernel, PagesAreExact, PTL
=============================================================================
