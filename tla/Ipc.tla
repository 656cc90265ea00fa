--------------------------------- MODULE Ipc ---------------------------------
(***************************************************************************)
(* Messages between environments: the value, sender and permission that    *)
(* sys_ipc_try_send leaves in struct Env, and the library routines that    *)
(* use the kernel's rendezvous: ipc_send and ipc_recv (lib/ipc.c), wait    *)
(* (lib/wait.c), exit, and the user panic.                                 *)
(*                                                                         *)
(* A routine is a sequence of steps of its environment, one system call or *)
(* one read of the shared envs[] array each; the clock interrupts between  *)
(* any two of them.  lib[e] is where the environment in slot e is.         *)
(***************************************************************************)
EXTENDS Kernel

CONSTANT Values     \* what a message may say

\* What is delivered to a receiver
Messages == [to : Ids, from : Ids, value : Values, perm : SUBSET Flags]

ASSUME ValuesAssumption == Values # {} /\ NULL \notin Messages

VARIABLES
  env_ipc_value, env_ipc_from, env_ipc_perm,    \* more fields of envs[]
  lib,           \* the library routine each environment is in
  delivered      \* history: the message an environment has not read yet

msgVars == <<env_ipc_value, env_ipc_from, env_ipc_perm>>
ipcAll == <<vars, msgVars, lib, delivered>>

None == [call |-> "none"]
Recv(pc, from, perm) == [call |-> "recv", pc |-> pc, from |-> from, perm |-> perm]
Send(to, value, pg, perm) ==
  [call |-> "send", to |-> to, value |-> value, pg |-> pg, perm |-> perm]
Wait(envid, pc) == [call |-> "wait", envid |-> envid, pc |-> pc]

\* A user panic runs int3, which puts the whole machine into the monitor.
InMonitor == \E e \in Envs : lib[e].call = "panic"

\* The environment on the CPU is in this routine.
In(call) == Running /\ ~InMonitor /\ lib[curenv].call = call

Goto(l) == lib' = [lib EXCEPT ![curenv] = l]

IpcInit ==
  /\ Init
  /\ env_ipc_value \in [Envs -> {CHOOSE v \in Values : TRUE}]
  /\ env_ipc_from = [e \in Envs |-> Self]
  /\ env_ipc_perm = [e \in Envs |-> {}]
  /\ lib = [e \in Envs |-> None]
  /\ delivered = [e \in Envs |-> NULL]

-----------------------------------------------------------------------------
\* ipc_recv: an address that is no address below UTOP asks for no page.  The
\* three fields are read one at a time once the system call has returned.

IpcRecv(pg) ==
  /\ In("none")
  /\ SysIpcRecv(pg)
  /\ Goto(Recv("from", Self, {}))
  /\ UNCHANGED <<msgVars, delivered>>

ReadFrom ==
  /\ In("recv")
  /\ lib[curenv].pc = "from"
  /\ Goto(Recv("perm", env_ipc_from[curenv], {}))
  /\ UNCHANGED <<vars, msgVars, delivered>>

ReadPerm ==
  /\ In("recv")
  /\ lib[curenv].pc = "perm"
  /\ Goto(Recv("value", lib[curenv].from, env_ipc_perm[curenv]))
  /\ UNCHANGED <<vars, msgVars, delivered>>

\* What ipc_recv returns in its three results
Result(e) == [from  |-> lib[e].from,
              perm  |-> lib[e].perm,
              value |-> env_ipc_value[e]]

ReadValue ==
  /\ In("recv")
  /\ lib[curenv].pc = "value"
  /\ Goto(None)
  /\ delivered' = [delivered EXCEPT ![curenv] = NULL]
  /\ UNCHANGED <<vars, msgVars>>

-----------------------------------------------------------------------------
\* ipc_send: the same system call again and again, with a yield in between,
\* as long as the receiver does not wait.

IpcSend(to, value, pg, perm) ==
  /\ In("none")
  /\ to # Self /\ to # env_id[curenv]
  /\ Goto(Send(to, value, pg, perm))
  /\ UNCHANGED <<vars, msgVars, delivered>>

\* What sys_ipc_try_send writes into the receiver's struct Env
Deliver_NoFrom(e, s) ==
  /\ env_ipc_value' = [env_ipc_value EXCEPT ![e] = s.value]
  /\ env_ipc_perm' = [env_ipc_perm EXCEPT ![e] = IF s.pg = UTOP THEN {} ELSE s.perm]
  /\ UNCHANGED env_ipc_from
Deliver(e, s) ==
  /\ env_ipc_value' = [env_ipc_value EXCEPT ![e] = s.value]
  /\ env_ipc_from' = [env_ipc_from EXCEPT ![e] = env_id[curenv]]
  /\ env_ipc_perm' = [env_ipc_perm EXCEPT ![e] = IF s.pg = UTOP THEN {} ELSE s.perm]

TrySend ==
  LET s == lib[curenv]
      e == envid2env(s.to, FALSE)
  IN  /\ In("send")
      /\ SysIpcTrySend(s.to, s.pg, s.perm)
      /\ Deliver(e, s)
      /\ delivered' = [delivered EXCEPT ![e] =
           [to    |-> s.to,
            from  |-> env_id[curenv],
            value |-> s.value,
            perm  |-> IF s.pg = UTOP \/ env_ipc_dstva[e] = UTOP THEN {} ELSE s.perm]]
      /\ Goto(None)

\* -E_IPC_NOT_RECV: yield, then try again.
NotReceiving(to) ==
  envid2env(to, FALSE) # NULL /\ ~env_ipc_recving[envid2env(to, FALSE)]

Retry ==
  /\ In("send")
  /\ NotReceiving(lib[curenv].to)
  /\ SchedYield(env_status, curenv)
  /\ UNCHANGED <<mem, slotVars, ipcVars, msgVars, lib, delivered>>

\* Any other error: the receiver is gone, the page cannot be passed on, or
\* there is no memory for the receiver's page table.
SendFails ==
  LET s == lib[curenv]
      e == envid2env(s.to, FALSE)
  IN  /\ In("send")
      /\ ~NotReceiving(s.to)
      /\ \/ e = NULL
         \/ /\ e # NULL /\ s.pg # UTOP
            /\ \/ ~CanPass(curenv, s.pg, s.perm)
               \/ env_ipc_dstva[e] # UTOP /\ ~CanWalk(mem, e, env_ipc_dstva[e])
      /\ Goto([call |-> "panic"])
      /\ UNCHANGED <<vars, msgVars, delivered>>

-----------------------------------------------------------------------------
\* wait: two reads of the slot's fields, then a yield.

WaitFor(envid) ==
  /\ In("none")
  /\ envid # Self
  /\ Goto(Wait(envid, "id"))
  /\ UNCHANGED <<vars, msgVars, delivered>>

WaitId_SlotOnly ==
  /\ In("wait")
  /\ lib[curenv].pc = "id"
  /\ Goto([lib[curenv] EXCEPT !.pc = "status"])
  /\ UNCHANGED <<vars, msgVars, delivered>>
WaitId ==
  LET w == lib[curenv]
  IN  /\ In("wait")
      /\ w.pc = "id"
      /\ Goto(IF env_id[w.envid[2]] = w.envid THEN [w EXCEPT !.pc = "status"] ELSE None)
      /\ UNCHANGED <<vars, msgVars, delivered>>

\* Sees the slot free, or yields and starts over.
WaitStatus_Stopped ==
  LET w == lib[curenv]
      gone == env_status[w.envid[2]] \in {"ENV_FREE", "ENV_NOT_RUNNABLE"}
  IN  /\ In("wait")
      /\ w.pc = "status"
      /\ Goto(IF gone THEN None ELSE [w EXCEPT !.pc = "id"])
      /\ IF gone THEN UNCHANGED <<env_status, curenv>>
                 ELSE SchedYield(env_status, curenv)
      /\ UNCHANGED <<mem, slotVars, ipcVars, msgVars, delivered>>
WaitStatus ==
  LET w == lib[curenv]
      gone == env_status[w.envid[2]] = "ENV_FREE"
  IN  /\ In("wait")
      /\ w.pc = "status"
      /\ Goto(IF gone THEN None ELSE [w EXCEPT !.pc = "id"])
      /\ IF gone THEN UNCHANGED <<env_status, curenv>>
                 ELSE SchedYield(env_status, curenv)
      /\ UNCHANGED <<mem, slotVars, ipcVars, msgVars, delivered>>

-----------------------------------------------------------------------------
\* Processes come and go.  A child starts when its creator says so, which the
\* library does once, at the end of fork and of spawn.

Forget(e) ==
  /\ lib' = [lib EXCEPT ![e] = None]
  /\ delivered' = [delivered EXCEPT ![e] = NULL]

Fork ==
  /\ In("none")
  /\ ~InUse(env_free_list)
  /\ NextGeneration(env_id[env_free_list][1]) > env_id[env_free_list][1]
  /\ SysExofork
  /\ lib' = [lib EXCEPT ![env_free_list] = [call |-> "new"]]
  /\ delivered' = [delivered EXCEPT ![env_free_list] = NULL]
  /\ UNCHANGED msgVars

Start(e) ==
  /\ In("none")
  /\ lib[e].call = "new"
  /\ SysEnvSetStatus(env_id[e], "ENV_RUNNABLE")
  /\ lib' = [lib EXCEPT ![e] = None]
  /\ UNCHANGED <<msgVars, delivered>>

\* exit, and a creator that gives its child up, whatever the child is doing
Destroy(e) ==
  /\ In("none")
  /\ SysEnvDestroy(env_id[e])
  /\ Forget(e)
  /\ UNCHANGED msgVars

Clock ==
  /\ ~InMonitor
  /\ Yield
  /\ UNCHANGED <<msgVars, lib, delivered>>

\* What a routine does once it has been called
Continue(e) ==
  /\ curenv = e
  /\ \/ ReadFrom \/ ReadPerm \/ ReadValue
     \/ TrySend \/ Retry \/ SendFails
     \/ WaitId \/ WaitStatus

\* What a program may call
Call ==
  \/ \E pg \in VA \cup {UTOP} : IpcRecv(pg)
  \/ \E to \in EnvIds, v \in Values :
       \/ IpcSend(to, v, UTOP, {})
       \/ \E pg \in VA, perm \in Perms : IpcSend(to, v, pg, perm)
  \/ \E envid \in EnvIds : WaitFor(envid)
  \/ Fork
  \/ \E e \in Envs : Start(e) \/ Destroy(e)

IpcNext == Clock \/ Call \/ \E e \in Envs : Continue(e)

\* The clock ticks, and an environment that gets the CPU again and again gets
\* on with the routine it is in: a time slice is longer than one step.
IpcSpec ==
  /\ IpcInit /\ [][IpcNext]_ipcAll
  /\ WF_ipcAll(Clock)
  /\ \A e \in Envs : SF_ipcAll(Continue(e))

-----------------------------------------------------------------------------
(***************************************************************************)
(* Properties                                                              *)
(***************************************************************************)

\* The type invariant of what this module adds.
IpcTypeOK ==
  /\ env_ipc_value \in [Envs -> Values]
  /\ env_ipc_from \in [Envs -> Ids]
  /\ env_ipc_perm \in [Envs -> SUBSET Flags]
  /\ \A e \in Envs : lib[e].call \in {"none", "new", "recv", "send", "wait", "panic"}

\* ipc_recv returns the sender, the permission and the value of one message,
\* the one addressed to it, although it reads them one by one while others
\* keep sending: a second message never gets in before the first is read, and
\* a message for a dead environment never reaches the next one in its slot.
\* (The permission is also set when no page was asked for, against what
\* lib/ipc.c:12 says.)
OneMessage ==
  \A e \in Envs :
    /\ lib[e].call = "recv" /\ ~env_ipc_recving[e] => delivered[e] # NULL
    /\ lib[e].call = "recv" /\ lib[e].pc = "value" =>
         /\ delivered[e].to = env_id[e]
         /\ Result(e).from = delivered[e].from
         /\ Result(e).value = delivered[e].value
         /\ delivered[e].perm # {} => Result(e).perm = delivered[e].perm

\* Every receiver gets one whole message, its own, and the fields that carry it
\* have their types.
IpcOK == IpcTypeOK /\ OneMessage

\* wait returns only when the environment is gone, even when its slot was
\* taken by another one between the two reads.
WaitMeansGone ==
  [][\A e \in Envs :
       /\ lib[e].call = "wait"
       /\ lib'[e].call = "none"
       /\ env_id'[e] = env_id[e] /\ env_status'[e] # "ENV_FREE"
       => \A f \in Envs : env_id[f] = lib[e].envid => ~InUse(f)]_ipcAll

\* wait does return when the environment dies.
Gone(envid) == env_id[envid[2]] # envid \/ env_status[envid[2]] = "ENV_FREE"
WaitEnds(e) ==
  (lib[e].call = "wait" /\ Gone(lib[e].envid)) ~> lib[e].call # "wait" \/ InMonitor

\* An environment does not stay in ipc_recv while another one is in ipc_send
\* to it: the retries and the receiver's block cannot miss each other for ever.
Sends(f, e) == lib[f].call = "send" /\ lib[f].to = env_id[e]
Rendezvous(e, f) ==
  (lib[e].call = "recv" /\ Sends(f, e))
    ~> lib[e].call # "recv" \/ ~Sends(f, e) \/ InMonitor
=============================================================================
