------------------------------ MODULE MCKernel ------------------------------
(***************************************************************************)
(* Two small instances of Kernel for TLC, told apart by mode, which the    *)
(* initial state chooses:                                                  *)
(*   memory   two environments, two pages of memory in a table each        *)
(*   life     three environments, one page each                            *)
(***************************************************************************)
EXTENDS Kernel

VARIABLE mode

MCVars == <<vars, mode>>

\* Every address in a page table of its own.
TwoTables == [va \in VA |-> va]

UserPerms == {{"P", "U"}, {"P", "U", "W"}}

\* memory: without messages and without sys_env_set_status, and two slots of the
\* three.  Id 0 names the caller, as its own id does.
Slots == {0, 1}
Others == {id \in EnvIds \ {Self} : id[2] \in Slots}
MemoryNext ==
  \/ Yield
  \/ env_free_list \in Slots /\ SysExofork
  \/ \E envid \in Others :
       \/ SysEnvDestroy(envid)
       \/ \E va \in VA :
            \/ SysPageUnmap(envid, va)
            \/ \E perm \in Perms :
                 \/ SysPageAlloc(envid, va, perm)
                 \/ \E dstenvid \in Others, dstva \in VA :
                      SysPageMap(envid, va, dstenvid, dstva, perm)

\* life: no page is passed around.
LifeNext ==
  \/ Yield
  \/ SysExofork
  \/ SysIpcRecv(UTOP)
  \/ \E envid \in EnvIds \ {Self} :
       \/ SysEnvDestroy(envid)
       \/ \E status \in Statuses : SysEnvSetStatus(envid, status)
       \/ SysIpcTrySend(envid, UTOP, {})

MCInit == mode \in {"memory", "life"} /\ Init

MCNext ==
  /\ UNCHANGED mode
  /\ \/ mode = "memory" /\ MemoryNext
     \/ mode = "life" /\ LifeNext

\* The clock interrupts whatever environment runs.
MCSpec == MCInit /\ [][MCNext]_MCVars /\ WF_vars(Yield)

\* The life of environments alone, also after a slot in use is handed out.
LifeSpec == mode = "life" /\ Init /\ [][LifeNext /\ UNCHANGED mode]_MCVars

\* No slot in use has been handed out again.
NotClobbered == ~clobbered
=============================================================================
