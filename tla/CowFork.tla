------------------------------- MODULE CowFork -------------------------------
(***************************************************************************)
(* fork and the page fault handler in user space (lib/fork.c,              *)
(* lib/pgfault.c), and the copying fork of user/dumbfork.c, with the       *)
(* contents of pages.                                                      *)
(*                                                                         *)
(* A step is one system call, or one access to user memory; between two    *)
(* steps anybody else may run, and a forking environment keeps writing to  *)
(* the stack it runs on.  Of the kernel only the mappings are kept: that a *)
(* page is free exactly when nobody maps it is shown for Pmap.  Memory may *)
(* run out at any call that needs a page, and come back: others hold pages *)
(* too.  A page is named after the slot and the address it is meant for.   *)
(***************************************************************************)
EXTENDS Integers, FiniteSets

CONSTANTS
  Envs,             \* slots in envs[]; 0 is the first program
  VA,               \* page-aligned user addresses, in their order
  UTEMP, PFTEMP,    \* scratch addresses of dumbfork and of the fault handler
  Stack,            \* the page of the user stack
  UXStack,          \* the page of the exception stack, above the user stack
  Text,             \* addresses mapped read-only
  Shared,           \* addresses mapped with PTE_SHARE
  Data,             \* what a page may hold; 0 is a cleared page
  PDX,              \* the page table an address is in
  MaxForks,         \* bound: how often environments fork in a run
  NULL

\* Places a program reads and writes
Image == VA \ {UTEMP, PFTEMP, UXStack}

\* The user addresses begin with UTEMP; the pages that are read-only or
\* shared lie apart from the stack and from each other.
ASSUME PlacesAssumption ==
  /\ VA \subseteq Nat /\ IsFiniteSet(VA)
  /\ {UTEMP, PFTEMP, UXStack} \subseteq VA /\ Cardinality({UTEMP, PFTEMP, UXStack}) = 3
  /\ \A va \in VA : UTEMP <= va
  /\ Stack \in Image
  /\ Text \subseteq Image \ {Stack} /\ Shared \subseteq Image \ {Stack}
  /\ Text \cap Shared = {}
  /\ PDX \in [VA -> Nat]
ASSUME ProgramsAssumption ==
  IsFiniteSet(Envs) /\ 0 \in Envs \cap Data /\ MaxForks \in Nat

VARIABLES
  pte,       \* the page and the permissions each slot maps at an address
  data,      \* the contents of the pages in use
  prog,      \* where in its fork an environment is
  fault,     \* where in the page fault handler it is
  forks,     \* how many forks there have been
  panic      \* a user panic stops the machine in the monitor

vars == <<pte, data, prog, fault, forks, panic>>

\* One name more for the pages of a place than can be in use
Frames == Envs \X VA \X (0 .. Cardinality(Envs \X VA))

ASSUME NULLAssumption == NULL \notin Frames \cup Envs \cup VA \cup Data

Unmapped == [page |-> NULL, perm |-> {}]
NoSpace == [va \in VA |-> Unmapped]

Prog(pc, child, va) == [pc |-> pc, child |-> child, va |-> va]
Idle == Prog("run", NULL, NULL)
New == Prog("new", NULL, NULL)
Unused == Prog("unused", NULL, NULL)
Fault(pc, va) == [pc |-> pc, va |-> va]
NoFault == Fault("none", NULL)

Page(e, va) == pte[e][va].page
Perm(e, va) == pte[e][va].perm
Writable(e, va) == "W" \in Perm(e, va)
Alive(e) == prog[e].pc \notin {"unused", "new"}

\* The environment takes a step of its own: no panic, no handler in its way.
At(e, pc) == ~panic /\ prog[e].pc = pc /\ fault[e] = NoFault
Goto(e, p) == prog' = [prog EXCEPT ![e] = p]
Panic == panic' = TRUE

\* The pages in use
InUse(table) == {table[x[1]][x[2]].page : x \in Envs \X VA} \ {NULL}

\* The page table for an address may be missing, and a mapping there take a
\* page.  (A table that has become empty stays; that it fails for a new one
\* matters only in a child, which has never unmapped anything.)
NoTable(e, va) == \A x \in VA : PDX[x] = PDX[va] => Page(e, x) = NULL

\* sys_page_map, sys_page_unmap and sys_page_alloc; a page nobody maps any
\* more is free and has no contents.
Mapped(e, va, pg, perm) == [pte EXCEPT ![e][va] = [page |-> pg, perm |-> perm]]
Kept(table, contents) == [p \in InUse(table) |-> contents[p]]
Remap(table) == pte' = table /\ data' = Kept(table, data)

NewPage(e, va) ==
  <<e, va, CHOOSE n \in 0 .. Cardinality(Envs \X VA) : <<e, va, n>> \notin InUse(pte)>>

Alloc(e, va, for) ==
  LET pg == NewPage(e, for)
  IN  /\ pte' = Mapped(e, va, pg, {"W"})
      /\ data' = Kept(pte', [p \in InUse(pte) \cup {pg} |-> IF p = pg THEN 0 ELSE data[p]])

BootPerm(va) == IF va \in Text THEN {} ELSE IF va \in Shared THEN {"W", "SHARE"} ELSE {"W"}

Init ==
  /\ pte = [e \in Envs |-> [va \in VA |->
       IF e = 0 /\ va \in Image THEN [page |-> <<0, va, 0>>, perm |-> BootPerm(va)]
                                ELSE Unmapped]]
  /\ data = [p \in {<<0, va, 0>> : va \in Image} |-> 0]
  /\ prog = [e \in Envs |-> IF e = 0 THEN Idle ELSE Unused]
  /\ fault = [e \in Envs |-> NoFault]
  /\ forks = 0
  /\ panic = FALSE

-----------------------------------------------------------------------------
\* pgfault: copy the page to a new one at PFTEMP, put that in the old place.

InHandler(e, pc) == ~panic /\ fault[e].pc = pc
Handle(e, pc) == fault' = [fault EXCEPT ![e].pc = pc]

PgAlloc(e) ==
  /\ InHandler(e, "alloc")
  /\ Alloc(e, PFTEMP, fault[e].va)
  /\ Handle(e, "copy")
  /\ UNCHANGED <<prog, forks, panic>>

PgCopy(e) ==
  /\ InHandler(e, "copy")
  /\ data' = [data EXCEPT ![Page(e, PFTEMP)] = data[Page(e, fault[e].va)]]
  /\ Handle(e, "map")
  /\ UNCHANGED <<pte, prog, forks, panic>>

PgMap(e) ==
  /\ InHandler(e, "map")
  /\ Remap(Mapped(e, fault[e].va, Page(e, PFTEMP), {"W"}))
  /\ Handle(e, "unmap")
  /\ UNCHANGED <<prog, forks, panic>>

PgUnmap(e) ==
  /\ InHandler(e, "unmap")
  /\ Remap([pte EXCEPT ![e][PFTEMP] = Unmapped])
  /\ fault' = [fault EXCEPT ![e] = NoFault]
  /\ UNCHANGED <<prog, forks, panic>>

\* A program writes anywhere; inside fork it writes to its stack.  A page
\* that is not writable faults: pgfault takes copy-on-write pages only.
Store(e, va, v) ==
  /\ ~panic /\ Alive(e) /\ fault[e] = NoFault
  /\ prog[e] = Idle \/ va = Stack
  /\ Page(e, va) # NULL
  /\ \/ /\ Writable(e, va)
        /\ data' = [data EXCEPT ![Page(e, va)] = v]
        /\ UNCHANGED fault
     \/ /\ ~Writable(e, va) /\ "COW" \in Perm(e, va)
        /\ fault' = [fault EXCEPT ![e] = Fault("alloc", va)]
        /\ UNCHANGED data
  /\ UNCHANGED <<pte, prog, forks, panic>>

-----------------------------------------------------------------------------
\* fork

\* The loop over the pages below USTACKTOP passes those that are not mapped.
From(e, va) == {x \in VA \ {UXStack} : x >= va /\ Page(e, x) # NULL}
First(S) == CHOOSE x \in S : \A y \in S : x <= y

\* set_pgfault_handler, which allocates an exception stack the first time
SetHandler(e) ==
  /\ At(e, "run")
  /\ IF Page(e, UXStack) = NULL THEN Alloc(e, UXStack, UXStack) ELSE UNCHANGED <<pte, data>>
  /\ Goto(e, Prog("exofork", NULL, NULL))
  /\ UNCHANGED <<fault, forks, panic>>

\* dumbfork has no handler: its program never uses fork before.
DumbFork(e) ==
  /\ At(e, "run")
  /\ Page(e, UXStack) = NULL
  /\ Goto(e, Prog("dumb", NULL, NULL))
  /\ UNCHANGED <<pte, data, fault, forks, panic>>

\* sys_exofork, where there is a page for the child's directory
Exofork(e, c) ==
  /\ At(e, "exofork") \/ At(e, "dumb")
  /\ prog[c] = Unused
  /\ forks < MaxForks
  /\ forks' = forks + 1
  /\ prog' = [prog EXCEPT ![c] = New,
       ![e] = IF prog[e].pc = "dumb"
              THEN Prog("dalloc", c, First(From(e, UTEMP) \ Shared))
              ELSE Prog("dup", c, First(From(e, UTEMP)))]
  /\ UNCHANGED <<pte, data, fault, panic>>

NextPage(e) ==
  LET rest == From(e, prog[e].va + 1)
  IN  IF rest = {} THEN Prog("xstack", prog[e].child, NULL)
      ELSE Prog("dup", prog[e].child, First(rest))

\* duppage: the child's mapping first, then one's own.  The page is passed on
\* without a write permission that anybody keeps.  When a page table for the
\* child cannot be had duppage panics, see NoMemory, but for a read-only page,
\* without which fork just goes on.
DupPerm(e, va) ==
  IF "SHARE" \in Perm(e, va) THEN Perm(e, va)
  ELSE IF Perm(e, va) \cap {"W", "COW"} # {} THEN {"COW"}
  ELSE {}

\* Who gets the mapping first, and who second
DupOrder_OwnFirst(e) == <<e, prog[e].child>>
DupOrder(e) == <<prog[e].child, e>>

DupPage(e) ==
  LET va == prog[e].va
      cow == "COW" \in DupPerm(e, va)
  IN  /\ At(e, "dup")
      /\ \/ Remap(Mapped(IF cow THEN DupOrder(e)[1] ELSE prog[e].child, va,
                         Page(e, va), DupPerm(e, va)))
         \/ DupPerm(e, va) = {} /\ NoTable(prog[e].child, va) /\ UNCHANGED <<pte, data>>
      /\ Goto(e, IF cow THEN [prog[e] EXCEPT !.pc = "own"] ELSE NextPage(e))
      /\ UNCHANGED <<fault, forks, panic>>

DupOwn(e) ==
  /\ At(e, "own")
  /\ Remap(Mapped(DupOrder(e)[2], prog[e].va, Page(e, prog[e].va), {"COW"}))
  /\ Goto(e, NextPage(e))
  /\ UNCHANGED <<fault, forks, panic>>

GiveStack(e) ==
  /\ At(e, "xstack")
  /\ Alloc(prog[e].child, UXStack, UXStack)
  /\ Goto(e, [prog[e] EXCEPT !.pc = "start"])
  /\ UNCHANGED <<fault, forks, panic>>

Start(e) ==
  /\ At(e, "start")
  /\ prog' = [prog EXCEPT ![e] = Idle, ![prog[e].child] = Idle]
  /\ UNCHANGED <<pte, data, fault, forks, panic>>

\* A page, a directory or a page table cannot be had.
NoMemory(e) ==
  /\ \/ InHandler(e, "alloc") \/ At(e, "xstack") \/ At(e, "dalloc")
     \/ At(e, "run") /\ Page(e, UXStack) = NULL
     \/ At(e, "exofork") \/ At(e, "dumb")
     \/ At(e, "dup") /\ DupPerm(e, prog[e].va) # {} /\ NoTable(prog[e].child, prog[e].va)
     \/ At(e, "dmap") /\ NoTable(e, UTEMP)
  /\ Panic
  /\ UNCHANGED <<pte, data, prog, fault, forks>>

-----------------------------------------------------------------------------
\* dumbfork's duppage: a page in the child, mapped at UTEMP and filled.

DumbAlloc(e) ==
  /\ At(e, "dalloc")
  /\ Alloc(prog[e].child, prog[e].va, prog[e].va)
  /\ Goto(e, [prog[e] EXCEPT !.pc = "dmap"])
  /\ UNCHANGED <<fault, forks, panic>>

DumbMap(e) ==
  /\ At(e, "dmap")
  /\ Remap(Mapped(e, UTEMP, Page(prog[e].child, prog[e].va), {"W"}))
  /\ Goto(e, [prog[e] EXCEPT !.pc = "dcopy"])
  /\ UNCHANGED <<fault, forks, panic>>

DumbCopy(e) ==
  /\ At(e, "dcopy")
  /\ data' = [data EXCEPT ![Page(e, UTEMP)] = data[Page(e, prog[e].va)]]
  /\ Goto(e, [prog[e] EXCEPT !.pc = "dunmap"])
  /\ UNCHANGED <<pte, fault, forks, panic>>

\* The program and its stack are copied, shared pages are not.
DumbNext(e) ==
  LET rest == From(e, prog[e].va + 1) \ Shared
  IN  IF rest = {} THEN Prog("start", prog[e].child, NULL)
      ELSE Prog("dalloc", prog[e].child, First(rest))

DumbUnmap_Not(e) ==
  /\ At(e, "dunmap")
  /\ Goto(e, DumbNext(e))
  /\ UNCHANGED <<pte, data, fault, forks, panic>>
DumbUnmap(e) ==
  /\ At(e, "dunmap")
  /\ Remap([pte EXCEPT ![e][UTEMP] = Unmapped])
  /\ Goto(e, DumbNext(e))
  /\ UNCHANGED <<fault, forks, panic>>

-----------------------------------------------------------------------------
\* exit, from the program
Exit(e) ==
  /\ At(e, "run")
  /\ Remap([pte EXCEPT ![e] = NoSpace])
  /\ Goto(e, Unused)
  /\ UNCHANGED <<fault, forks, panic>>

Handler(e) == PgAlloc(e) \/ PgCopy(e) \/ PgMap(e) \/ PgUnmap(e)

CowStep(e) ==
  SetHandler(e) \/ DupPage(e) \/ DupOwn(e) \/ GiveStack(e) \/ Start(e) \/ NoMemory(e)

DumbStep(e) == DumbFork(e) \/ DumbAlloc(e) \/ DumbMap(e) \/ DumbCopy(e) \/ DumbUnmap(e)

Next ==
  \E e \in Envs :
    \/ Handler(e) \/ CowStep(e) \/ DumbStep(e) \/ Exit(e)
    \/ \E c \in Envs : Exofork(e, c)
    \/ \E va \in Image \ Text, v \in Data \ {0} : Store(e, va, v)

Spec == Init /\ [][Next]_vars

-----------------------------------------------------------------------------
(***************************************************************************)
(* Properties                                                              *)
(***************************************************************************)

\* The type invariant.
TypeOK ==
  /\ \A e \in Envs, va \in VA :
       /\ Page(e, va) \in Frames \cup {NULL}
       /\ Perm(e, va) \subseteq {"W", "COW", "SHARE"}
  /\ data \in [InUse(pte) -> Data]
  /\ \A e \in Envs : /\ prog[e].pc \in {"unused", "new", "run", "exofork", "dup", "own",
                            "xstack", "start", "dumb", "dalloc", "dmap", "dcopy", "dunmap"}
                     /\ fault[e].pc \in {"none", "alloc", "copy", "map", "unmap"}
  /\ forks \in 0 .. MaxForks
  /\ panic \in BOOLEAN

\* What a program in slot e reads
View(e) == [va \in Image |-> IF Alive(e) /\ Page(e, va) # NULL THEN data[Page(e, va)] ELSE NULL]
Living == {e \in Envs : Alive(e)}

\* fork as a program sees it: the child has the parent's memory, and no write
\* of the one is ever read by the other, however the page faults, the forks of
\* parents and children and the writes to the stack of a forking environment
\* interleave.  (The child may lack read-only pages, when memory runs out and
\* comes back: those that precede all others the parent has in their table.)
Below(a) == {b \in Image : b <= a /\ PDX[b] = PDX[a]}
Private == INSTANCE PrivateMemory WITH
  Procs <- Envs, Places <- Image, Common <- Shared,
  ReadOnly <- Text, Along <- [a \in Image |-> Below(a)],
  live <- Living, value <- [e \in Envs |-> View(e)]

ForksAreCopies ==
  /\ Private!Start(0, [va \in Image |-> 0])
  /\ [][Private!Step]_<<Living, [e \in Envs |-> View(e)]>>

\* A page that an environment may write at a private address is nobody
\* else's, except while duppage or dumbfork pass it on; this is what lets the
\* handler leave the old page to the others without counting them.
Passing(f, va) ==
  \/ prog[f].pc = "own" /\ prog[f].va = va
  \/ prog[f].pc \in {"dmap", "dcopy", "dunmap"} /\ va \in {prog[f].va, UTEMP}
WritableIsMine ==
  \A e \in Envs, va \in VA \ Shared : Page(e, va) # NULL /\ Writable(e, va) =>
    \A f \in Envs \ {e}, vb \in VA \ Shared :
      Page(f, vb) = Page(e, va) => Passing(e, va) \/ Passing(f, vb)

\* What the library's page fault handler relies on: mappings have their types,
\* and a page it leaves writable is nobody else's.
PagesOK == TypeOK /\ WritableIsMine
=============================================================================
