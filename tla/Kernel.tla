------------------------------- MODULE Kernel -------------------------------
(***************************************************************************)
(* The kernel: environments and their system calls (kern/env.c,            *)
(* kern/syscall.c, kern/trap.c) and the scheduler (kern/sched.c) over the  *)
(* memory of Pmap.                                                         *)
(*                                                                         *)
(* The kernel runs on one CPU with interrupts off, so one system call,     *)
(* fault or clock interrupt of the running environment, up to the return   *)
(* to user mode, is one step.  A call that fails changes no state and is a *)
(* stuttering step, except where an action says otherwise.                 *)
(***************************************************************************)
EXTENDS Pmap

CONSTANTS
  UTOP,      \* stands for every address that is not below UTOP
  UStack,    \* the page load_icode maps in an environment created at boot
  GenMax,    \* the largest generation of an environment id, 2^19 - 1
  Perms      \* the permission arguments of the system calls

ASSUME UTOPAssumption == UTOP \notin VA /\ UStack \in VA
ASSUME GenMaxAssumption == GenMax \in Nat \ {0}
ASSUME PermsAssumption == Perms \subseteq SUBSET Flags /\ Perms # {}

VARIABLES
  mem,              \* pages, envs[].env_pgdir and the page tables
  env_status, env_id, env_parent_id, env_link,    \* fields of envs[]
  env_ipc_recving, env_ipc_dstva,
  env_free_list,    \* head of the list of free slots
  curenv,           \* NULL when the CPU is in the monitor, for good
  clobbered,        \* history: env_alloc has reused a slot in use
  orphans           \* history: slots whose creator is gone

vars == <<mem, env_status, env_id, env_parent_id, env_link, env_ipc_recving,
          env_ipc_dstva, env_free_list, curenv, clobbered, orphans>>
slotVars == <<env_id, env_parent_id, env_link, env_free_list, clobbered, orphans>>
ipcVars == <<env_ipc_recving, env_ipc_dstva>>

Statuses == {"ENV_FREE", "ENV_RUNNABLE", "ENV_RUNNING", "ENV_NOT_RUNNABLE"}

\* An id is a generation and the slot in envs[]; id 0 names the caller.
Ids == (0 .. GenMax) \X Envs
Self == <<0, 0>>
EnvIds == {Self} \cup (1 .. GenMax) \X Envs

-----------------------------------------------------------------------------
\* sched_yield

\* How many slots the search passes before it looks at e, starting after c.
Distance(c, e) == IF e > c THEN e - c ELSE e - c + NENV

\* curenv == NULL starts the search at the first slot.
SearchFrom_First(cur) == IF cur = NULL THEN 0 ELSE cur
SearchFrom(cur) == IF cur = NULL THEN NENV - 1 ELSE cur

Candidates(status, cur) ==
  {e \in Envs : \/ status[e] = "ENV_RUNNABLE"
                \/ e = SearchFrom(cur) /\ status[e] = "ENV_RUNNING"}

NextToRun(status, cur) ==
  IF Candidates(status, cur) = {}
  THEN NULL
  ELSE CHOOSE e \in Candidates(status, cur) :
         \A f \in Candidates(status, cur) :
           Distance(SearchFrom(cur), e) <= Distance(SearchFrom(cur), f)

\* env_run(e), and sched_halt when there is nothing to run
EnvRun_KeepsStatus(status, cur, e) ==
  /\ curenv' = e
  /\ env_status' = [f \in Envs |-> IF f = e THEN "ENV_RUNNING" ELSE status[f]]
EnvRun(status, cur, e) ==
  /\ curenv' = e
  /\ env_status' =
       [f \in Envs |->
          IF f = e THEN "ENV_RUNNING"
          ELSE IF e # NULL /\ f = cur /\ status[f] = "ENV_RUNNING" THEN "ENV_RUNNABLE"
          ELSE status[f]]

SchedYield(status, cur) == EnvRun(status, cur, NextToRun(status, cur))

\* The end of trap(): go on with curenv if it may run, else reschedule.
Return(status) ==
  IF status[curenv] = "ENV_RUNNING"
  THEN curenv' = curenv /\ env_status' = status
  ELSE SchedYield(status, curenv)

-----------------------------------------------------------------------------
\* envid2env: the slot an id names, or NULL for -E_BAD_ENV
envid2env_Freed(envid, checkperm) ==
  LET e == envid[2]
  IN  IF envid = Self
      THEN curenv
      ELSE IF \/ env_id[e] # envid
              \/ checkperm /\ e # curenv /\ env_parent_id[e] # env_id[curenv]
           THEN NULL
           ELSE e
envid2env(envid, checkperm) ==
  LET e == envid[2]
  IN  IF envid = Self
      THEN curenv
      ELSE IF \/ env_status[e] = "ENV_FREE"
              \/ env_id[e] # envid
              \/ checkperm /\ e # curenv /\ env_parent_id[e] # env_id[curenv]
           THEN NULL
           ELSE e

InUse(e) == mem.env_pgdir[e] # NULL

\* Live slots created by the environment now in slot e
Children(e) == {f \in Envs \ {e} : InUse(f) /\ env_parent_id[f] = env_id[e]}

NextGeneration_Unbounded(g) == g + 1
NextGeneration_Same(g) == IF g = 0 THEN 1 ELSE g
NextGeneration(g) == IF g = GenMax THEN 1 ELSE g + 1

\* env_alloc for slot e, except its status
EnvAlloc(e, parent) ==
  /\ mem' = EnvSetupVm(mem, e)
  /\ env_id' = [env_id EXCEPT ![e] = <<NextGeneration(@[1]), e>>]
  /\ env_parent_id' = [env_parent_id EXCEPT ![e] = parent]
  /\ env_ipc_recving' = [env_ipc_recving EXCEPT ![e] = FALSE]
  /\ env_free_list' = env_link[e]
  /\ clobbered' = (clobbered \/ InUse(e))
  /\ orphans' = (orphans \cup (IF InUse(e) THEN Children(e) ELSE {})) \ {e}
  /\ UNCHANGED <<env_link, env_ipc_dstva>>

\* The slot becomes the head of the list.
PushFree_Unlinked(e) == env_free_list' = e /\ UNCHANGED env_link
PushFree(e) == /\ env_link' = [env_link EXCEPT ![e] = env_free_list]
               /\ env_free_list' = e

\* env_destroy(e): env_free(e), then another environment if e was running
EnvDestroy(e) ==
  LET status == [env_status EXCEPT ![e] = "ENV_FREE"]
  IN  /\ mem' = FreeVm(mem, e)
      /\ PushFree(e)
      /\ orphans' = (orphans \cup Children(e)) \ {e}
      /\ IF e = curenv THEN SchedYield(status, NULL) ELSE Return(status)
      /\ UNCHANGED <<env_id, env_parent_id, clobbered, ipcVars>>

-----------------------------------------------------------------------------
\* Boot: i386_init creates the file server and one user environment, then
\* calls sched_yield.

RegionAlloc(m, e, va) == PageInsert(PageAlloc(m), e, FreePage(m), va, {"U", "W"})

EnvCreate(m, e) == RegionAlloc(EnvSetupVm(m, e), e, UStack)

Init ==
  /\ mem = EnvCreate(EnvCreate(PageInit, 0), 1)
  /\ env_status = [e \in Envs |-> IF e = 0 THEN "ENV_RUNNING"
                                  ELSE IF e = 1 THEN "ENV_RUNNABLE" ELSE "ENV_FREE"]
  /\ env_id = [e \in Envs |-> IF e \in {0, 1} THEN <<1, e>> ELSE <<0, 0>>]
  /\ env_parent_id = [e \in Envs |-> <<0, 0>>]
  /\ env_link = [e \in Envs |-> IF e = NENV - 1 THEN 0 ELSE e + 1]
  /\ env_free_list = IF NENV = 2 THEN 0 ELSE 2
  /\ env_ipc_recving = [e \in Envs |-> FALSE]
  /\ env_ipc_dstva = [e \in Envs |-> UTOP]
  /\ curenv = 0
  /\ clobbered = FALSE
  /\ orphans = {}

-----------------------------------------------------------------------------
\* What the running environment may ask of the kernel

Running == curenv # NULL /\ mem.panic = "no"

\* sys_yield and the clock interrupt
Yield ==
  /\ Running
  /\ SchedYield(env_status, curenv)
  /\ UNCHANGED <<mem, slotVars, ipcVars>>

SysExofork ==
  /\ Running
  /\ HasFree(mem)
  /\ EnvAlloc(env_free_list, env_id[curenv])
  /\ Return([env_status EXCEPT ![env_free_list] = "ENV_NOT_RUNNABLE"])

SysEnvDestroy(envid) ==
  /\ Running
  /\ envid2env(envid, TRUE) # NULL
  /\ EnvDestroy(envid2env(envid, TRUE))

\* A trap nobody handles: a page fault without an upcall or with a bad
\* exception stack, an unknown trap, a bad pointer passed to sys_cputs.
Fault ==
  /\ Running
  /\ EnvDestroy(curenv)

\* user_mem_assert looks tf up in the address space of the target, and destroys
\* the target when it is not there; the kernel then reads *tf through the
\* address space of the caller.  The registers themselves are not modelled.
SysEnvSetTrapframe(envid, tf) ==
  LET e == envid2env(envid, TRUE)
  IN  /\ Running
      /\ e # NULL
      /\ \/ /\ PageLookup(mem, curenv, tf) # NULL \/ e = curenv
            /\ PageLookup(mem, e, tf) = NULL
            /\ EnvDestroy(e)
         \/ /\ PageLookup(mem, curenv, tf) = NULL
            /\ e # curenv
            /\ mem' = [mem EXCEPT !.panic = "page fault"]
            /\ UNCHANGED <<env_status, curenv, slotVars, ipcVars>>

\* syscall's default case: a number that is no system call
SysUnknown ==
  /\ Running
  /\ mem' = [mem EXCEPT !.panic = "syscall"]
  /\ UNCHANGED <<env_status, curenv, slotVars, ipcVars>>

SysEnvSetStatus(envid, status) ==
  LET e == envid2env(envid, TRUE)
  IN  /\ Running
      /\ e # NULL
      /\ status \in {"ENV_FREE", "ENV_RUNNABLE", "ENV_NOT_RUNNABLE"}
      /\ Return([env_status EXCEPT ![e] = status])
      /\ UNCHANGED <<mem, slotVars, ipcVars>>

ValidPerm(perm) == {"P", "U"} \subseteq perm /\ perm \subseteq PTE_SYSCALL

\* The page at va in slot e may be mapped elsewhere with these permissions.
CanPass_ReadOnly(e, va, perm) == ValidPerm(perm) /\ PageLookup(mem, e, va) # NULL
CanPass(e, va, perm) ==
  /\ ValidPerm(perm)
  /\ PageLookup(mem, e, va) # NULL
  /\ "W" \in perm => Writable(mem, e, va)

\* The page is taken first and given back when no page table can be had.
SysPageAlloc(envid, va, perm) ==
  LET e == envid2env(envid, TRUE)
      pg == FreePage(mem)
      taken == PageAlloc(mem)
  IN  /\ Running
      /\ e # NULL
      /\ ValidPerm(perm)
      /\ HasFree(mem)
      /\ mem' = IF CanWalk(taken, e, va)
                THEN PageInsert(taken, e, pg, va, perm)
                ELSE PageFree(taken, pg)
      /\ UNCHANGED <<env_status, curenv, slotVars, ipcVars>>

SysPageMap(srcenvid, srcva, dstenvid, dstva, perm) ==
  LET src == envid2env(srcenvid, TRUE)
      dst == envid2env(dstenvid, TRUE)
  IN  /\ Running
      /\ src # NULL /\ dst # NULL
      /\ CanPass(src, srcva, perm)
      /\ CanWalk(mem, dst, dstva)
      /\ mem' = PageInsert(mem, dst, PageLookup(mem, src, srcva), dstva, perm)
      /\ UNCHANGED <<env_status, curenv, slotVars, ipcVars>>

SysPageUnmap(envid, va) ==
  LET e == envid2env(envid, TRUE)
  IN  /\ Running
      /\ e # NULL
      /\ mem' = PageRemove(mem, e, va)
      /\ UNCHANGED <<env_status, curenv, slotVars, ipcVars>>

SysIpcRecv(dstva) ==
  /\ Running
  /\ env_ipc_dstva' = [env_ipc_dstva EXCEPT ![curenv] = dstva]
  /\ env_ipc_recving' = [env_ipc_recving EXCEPT ![curenv] = TRUE]
  /\ SchedYield([env_status EXCEPT ![curenv] = "ENV_NOT_RUNNABLE"], curenv)
  /\ UNCHANGED <<mem, slotVars>>

\* The page part of a send, when srcva < UTOP: the page is mapped when the
\* receiver asked for one too.
SendPage_Uncounted(e, srcva, perm) ==
  IF srcva = UTOP \/ env_ipc_dstva[e] = UTOP
  THEN UNCHANGED mem
  ELSE mem' = [mem EXCEPT !.pte[e][env_ipc_dstva[e]] =
                 [page |-> PageLookup(mem, curenv, srcva), perm |-> perm]]
SendPage(e, srcva, perm) ==
  IF srcva = UTOP \/ env_ipc_dstva[e] = UTOP
  THEN UNCHANGED mem
  ELSE /\ CanWalk(mem, e, env_ipc_dstva[e])
       /\ mem' = PageInsert(mem, e, PageLookup(mem, curenv, srcva),
                            env_ipc_dstva[e], perm)

SysIpcTrySend_Blocked(envid, srcva, perm) ==
  LET e == envid2env(envid, FALSE)
  IN  /\ Running
      /\ e # NULL
      /\ env_ipc_recving[e]
      /\ srcva # UTOP => CanPass(curenv, srcva, perm)
      /\ SendPage(e, srcva, perm)
      /\ env_ipc_recving' = [env_ipc_recving EXCEPT ![e] = FALSE]
      /\ Return(env_status)
      /\ UNCHANGED <<slotVars, env_ipc_dstva>>
SysIpcTrySend(envid, srcva, perm) ==
  LET e == envid2env(envid, FALSE)
  IN  /\ Running
      /\ e # NULL
      /\ env_ipc_recving[e]
      /\ srcva # UTOP => CanPass(curenv, srcva, perm)
      /\ SendPage(e, srcva, perm)
      /\ env_ipc_recving' = [env_ipc_recving EXCEPT ![e] = FALSE]
      /\ Return([env_status EXCEPT ![e] = "ENV_RUNNABLE"])
      /\ UNCHANGED <<slotVars, env_ipc_dstva>>

EnvCalls ==
  \/ SysExofork
  \/ Fault
  \/ \E envid \in EnvIds :
       \/ SysEnvDestroy(envid)
       \/ \E tf \in VA : SysEnvSetTrapframe(envid, tf)
       \/ \E status \in Statuses : SysEnvSetStatus(envid, status)

PageCalls ==
  \E envid \in EnvIds, va \in VA :
    \/ SysPageUnmap(envid, va)
    \/ \E perm \in Perms :
         \/ SysPageAlloc(envid, va, perm)
         \/ \E dstenvid \in EnvIds, dstva \in VA :
              SysPageMap(envid, va, dstenvid, dstva, perm)

IpcCalls ==
  \/ \E dstva \in VA \cup {UTOP} : SysIpcRecv(dstva)
  \/ \E envid \in EnvIds, srcva \in VA \cup {UTOP}, perm \in Perms :
       SysIpcTrySend(envid, srcva, perm)

Next == Yield \/ EnvCalls \/ PageCalls \/ IpcCalls \/ SysUnknown

Spec == Init /\ [][Next]_vars

\* The clock interrupts whatever environment runs.
FairSpec == Spec /\ WF_vars(Yield)

-----------------------------------------------------------------------------
(***************************************************************************)
(* Properties                                                              *)
(***************************************************************************)

\* The type invariant.
TypeOK ==
  /\ mem \in Memory
  /\ env_status \in [Envs -> Statuses]
  /\ env_id \in [Envs -> Ids]
  /\ env_parent_id \in [Envs -> Ids]
  /\ env_link \in [Envs -> Envs]
  /\ env_ipc_recving \in [Envs -> BOOLEAN]
  /\ env_ipc_dstva \in [Envs -> VA \cup {UTOP}]
  /\ env_free_list \in Envs
  /\ curenv \in Envs \cup {NULL}
  /\ clobbered \in BOOLEAN
  /\ orphans \subseteq Envs

\* An environment is marked running exactly when it is the one on the CPU,
\* through every way out of a trap: env_run, the epilogue of trap(), and the
\* rescheduling inside env_destroy and sys_ipc_recv.
RunningIsCurrent == \A e \in Envs : env_status[e] = "ENV_RUNNING" <=> curenv = e

\* The CPU is parked in the monitor only when nothing could run.
ParkedOnlyWhenIdle ==
  curenv = NULL => \A e \in Envs : env_status[e] \notin {"ENV_RUNNABLE", "ENV_RUNNING"}

\* The scheduler leaves exactly one environment running, the current one, or
\* none when none can run.
SchedulerConsistent == RunningIsCurrent /\ ParkedOnlyWhenIdle

\* The scheduler never loads the page directory of a slot without one
\* (env_run, lcr3), and only a free slot is without one.
LiveHasDirectory == \A e \in Envs : env_status[e] # "ENV_FREE" => InUse(e)

\* The reference count of a page never falls short of the pointers to it, so
\* no page is freed while some address space still reaches it.
NoDanglingPointer == \A p \in Pages : mem.pp_ref[p] >= Pointers(mem, p)

\* As long as no slot in use was handed out again, the count is exactly the
\* number of pointers (inc/memlayout.h, pp_ref): no page leaks either.
RefCountExact ==
  ~clobbered => \A p \in Pages : mem.pp_ref[p] = Pointers(mem, p)

\* A page is on the free list exactly when its count is 0; also right after
\* a call that failed half way.
FreeListExact == \A p \in Pages : p \in mem.page_free_list <=> mem.pp_ref[p] = 0

\* A page that holds a directory or a page table is reached from nowhere
\* else: no user mapping can be used to write it.
TablesArePrivate ==
  \A p \in Pages :
    DirRefs(mem, p) # {} \/ PdeRefs(mem, p) # {} => Pointers(mem, p) = 1

\* The books of the memory are right in every state the kernel returns to: no
\* page is leaked, freed early, on the free list twice or used twice.
PagesExact == RefCountExact /\ FreeListExact /\ TablesArePrivate

\* page_free never meets a page in use or a page already free.  (This is not
\* the only panic of the kernel: any program can make it take a page fault with
\* sys_env_set_trapframe, and panic with an unknown system call.)
NoPanicInPageFree == mem.panic # "page_free"

\* The k-th slot on the ring of free slots.
NthFree[k \in 0 .. NENV] == IF k = 0 THEN env_free_list ELSE env_link[NthFree[k - 1]]

\* The ring of slots passes every slot that is not in use before it comes to
\* one that is: env_alloc takes a slot in use only when all of them are.
FreeSlotsFirst ==
  LET unused == {e \in Envs : ~InUse(e)}
  IN  {NthFree[k] : k \in 0 .. Cardinality(unused) - 1} = unused

\* Dropping all references of a slot at once, as FreeVm does, leaves the memory
\* that env_free leaves page by page.
FreeVmIsEnvFree ==
  \A e \in Envs : InUse(e) => FreeVm(mem, e) = EnvFreeByPage(mem, e)

\* No step gives a writable mapping to a page that is mapped read-only
\* wherever it is mapped (sys_page_map, sys_ipc_try_send): a page the file
\* server hands out read-only stays read-only through every hand-over.
ReadOnlyStays ==
  \A p \in Pages :
    /\ PteRefs(mem, p) # {}
    /\ \A x \in PteRefs(mem, p) : ~Writable(mem, x[1], x[2])
    => \A x \in PteRefs(mem, p)' : ~Writable(mem', x[1], x[2])

NoWriteFromNothing == [][ReadOnlyStays]_vars

\* An environment whose creator is gone is out of everybody's reach, also
\* when the creator's slot is in use again: only itself, and an IPC it waits
\* for, change its mappings, and only itself can stop or destroy it (as long
\* as no slot in use is handed out again).
OrphansStay ==
  \A e \in orphans :
    e # curenv /\ ~clobbered' =>
      /\ env_ipc_recving[e] \/ mem'.pte[e] = mem.pte[e]
      /\ \/ env_status'[e] = env_status[e]
         \/ env_status[e] = "ENV_RUNNABLE" /\ env_status'[e] = "ENV_RUNNING"
         \/ env_ipc_recving[e] /\ env_status'[e] \in {"ENV_RUNNABLE", "ENV_RUNNING"}

OrphansAreSafe == [][OrphansStay]_vars

\* The file server, in the first slot, always gets the CPU again: no pattern
\* of forks, exits, yields and messages of the others keeps it waiting.
FileServerRuns ==
  env_status[0] = "ENV_RUNNABLE" ~> mem.panic # "no" \/ env_status[0] # "ENV_RUNNABLE"

\* kern/env.c:213: env_alloc fails when all slots are in use.
NeverReusesLiveSlot == ~clobbered
=============================================================================
