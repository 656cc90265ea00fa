-------------------------------- MODULE Pmap --------------------------------
(***************************************************************************)
(* Physical pages and address spaces: kern/pmap.c, and the parts of        *)
(* kern/env.c that build an address space and tear it down.                *)
(*                                                                         *)
(* The module has no variables.  A memory is a record m with the fields    *)
(*   pp_ref          the 16-bit reference count of every physical page     *)
(*   page_free_list  the pages on the free list, as a set: the LIFO order  *)
(*                   only decides which free page is handed out next       *)
(*   env_pgdir       the page holding the page directory of each envs[]    *)
(*                   slot, or NULL                                         *)
(*   pde             the page tables a directory points to, below UTOP     *)
(*   pte             the entries of those page tables                      *)
(*   panic           what made the kernel call panic(), or "no"            *)
(* and each function of the code is an operator from a memory to the       *)
(* memory the function leaves.                                             *)
(*                                                                         *)
(* An operator named X_Y is X with a slip a programmer could make; TLC     *)
(* finds the properties that break when it stands in for X.                *)
(***************************************************************************)
EXTENDS Integers, FiniteSets, FiniteSetsExt

CONSTANTS
  NENV,      \* inc/env.h: slots in envs[]
  Pages,     \* physical pages that mem_init leaves on the free list
  VA,        \* page-aligned user addresses, all below UTOP
  PDE,       \* indices into a page directory, below PDX(UTOP)
  PDX,       \* the directory index of an address
  RefMax,    \* the largest value of pp_ref, a uint16_t
  NULL

ASSUME NENVAssumption == NENV \in Nat /\ NENV >= 2
ASSUME PagesAssumption == IsFiniteSet(Pages) /\ Cardinality(Pages) >= 6
ASSUME VAAssumption == IsFiniteSet(VA) /\ IsFiniteSet(PDE) /\ PDX \in [VA -> PDE]
ASSUME RefMaxAssumption == RefMax \in Nat \ {0}

Envs == 0 .. NENV - 1

ASSUME NULLAssumption == NULL \notin Pages /\ NULL \notin Envs

\* Permission bits of a page table entry; SHARE and COW are two of the bits
\* left to the environments (PTE_AVAIL).
Flags == {"P", "W", "U", "SHARE", "COW", "other"}
PTE_SYSCALL == {"P", "W", "U", "SHARE", "COW"}

Unmapped == [page |-> NULL, perm |-> {}]
PTE == [page : Pages \cup {NULL}, perm : SUBSET Flags]

\* Where a trap of a program can meet panic(): page_free, a page fault of the
\* kernel itself, and the default case of syscall.
Panics == {"no", "page_free", "page fault", "syscall"}

Memory == [pp_ref         : [Pages -> 0 .. RefMax],
           page_free_list : SUBSET Pages,
           env_pgdir      : [Envs -> Pages \cup {NULL}],
           pde            : [Envs -> [PDE -> Pages \cup {NULL}]],
           pte            : [Envs -> [VA -> PTE]],
           panic          : Panics]

-----------------------------------------------------------------------------
\* The page allocator.

\* page_init: every usable page is free, no address space exists.
PageInit == [pp_ref         |-> [p \in Pages |-> 0],
             page_free_list |-> Pages,
             env_pgdir      |-> [e \in Envs |-> NULL],
             pde            |-> [e \in Envs |-> [d \in PDE |-> NULL]],
             pte            |-> [e \in Envs |-> [va \in VA |-> Unmapped]],
             panic          |-> "no"]

HasFree(m) == m.page_free_list # {}

\* page_alloc, split in the page it returns and the memory it leaves.
FreePage(m) == CHOOSE p \in m.page_free_list : TRUE
PageAlloc(m) == [m EXCEPT !.page_free_list = @ \ {FreePage(m)}]

\* page_free panics on a referenced page and on a page already on the list.
PageFree(m, pg) ==
  IF m.pp_ref[pg] # 0 \/ pg \in m.page_free_list
  THEN [m EXCEPT !.panic = "page_free"]
  ELSE [m EXCEPT !.page_free_list = @ \cup {pg}]

\* pp->pp_ref++ on a uint16_t
Incref(m, pg) == [m EXCEPT !.pp_ref[pg] = IF @ = RefMax THEN 0 ELSE @ + 1]

\* --pp->pp_ref on a uint16_t
Decref(m, pg) == [m EXCEPT !.pp_ref[pg] = IF @ = 0 THEN RefMax ELSE @ - 1]

PageDecref_Early(m, pg) ==
  LET d == Decref(m, pg)
  IN  IF d.pp_ref[pg] <= 1 THEN PageFree(d, pg) ELSE d
PageDecref(m, pg) ==
  LET d == Decref(m, pg)
  IN  IF d.pp_ref[pg] = 0 THEN PageFree(d, pg) ELSE d

-----------------------------------------------------------------------------
\* Address spaces.

\* pgdir_walk(pgdir, va, 1) returns an entry
CanWalk(m, e, va) == m.pde[e][PDX[va]] # NULL \/ HasFree(m)

\* ... and this is the memory it leaves; a new page table is all zeroes.
PgdirWalk(m, e, va) ==
  IF m.pde[e][PDX[va]] # NULL
  THEN m
  ELSE LET pg == FreePage(m)
       IN  [Incref(PageAlloc(m), pg) EXCEPT !.pde[e][PDX[va]] = pg]

PageLookup(m, e, va) ==
  IF m.pde[e][PDX[va]] = NULL THEN NULL ELSE m.pte[e][va].page

Writable(m, e, va) == "W" \in m.pte[e][va].perm

PageRemove(m, e, va) ==
  LET pg == PageLookup(m, e, va)
  IN  IF pg = NULL
      THEN m
      ELSE [PageDecref(m, pg) EXCEPT !.pte[e][va] = Unmapped]

\* page_insert where pgdir_walk succeeds: the count goes up before the old
\* mapping is removed, so that re-inserting the same page does not free it.
PageInsert_NoRemove(m, e, pg, va, perm) ==
  [Incref(PgdirWalk(m, e, va), pg)
    EXCEPT !.pte[e][va] = [page |-> pg, perm |-> perm \cup {"P"}]]
PageInsert(m, e, pg, va, perm) ==
  LET counted == Incref(PgdirWalk(m, e, va), pg)
  IN  [PageRemove(counted, e, va)
        EXCEPT !.pte[e][va] = [page |-> pg, perm |-> perm \cup {"P"}]]

\* env_setup_vm where page_alloc succeeds: a new directory, empty below UTOP,
\* whatever slot e pointed to before.
EnvSetupVm_Uncounted(m, e) ==
  [PageAlloc(m) EXCEPT !.env_pgdir[e] = FreePage(m),
                       !.pde[e] = [d \in PDE |-> NULL],
                       !.pte[e] = [va \in VA |-> Unmapped]]
EnvSetupVm(m, e) ==
  LET pg == FreePage(m)
  IN  [Incref(PageAlloc(m), pg)
        EXCEPT !.env_pgdir[e] = pg,
               !.pde[e] = [d \in PDE |-> NULL],
               !.pte[e] = [va \in VA |-> Unmapped]]

\* The references to page pg that slot e holds.
Held_NoTables(m, e, pg) ==
    Cardinality({va \in VA : m.pte[e][va].page = pg})
  + (IF m.env_pgdir[e] = pg THEN 1 ELSE 0)
Held(m, e, pg) ==
    Cardinality({va \in VA : m.pte[e][va].page = pg})
  + Cardinality({d \in PDE : m.pde[e][d] = pg})
  + (IF m.env_pgdir[e] = pg THEN 1 ELSE 0)

\* The memory part of env_free.  The code drops the references of slot e one
\* by one, entries first, then their page table, the directory last; here all
\* at once.  FreeVmIsEnvFree of Kernel says that the two agree.
FreeVm(m, e) ==
  LET freed == {p \in Pages : m.pp_ref[p] > 0 /\ m.pp_ref[p] <= Held(m, e, p)}
  IN  [m EXCEPT
        !.pp_ref = [p \in Pages |->
           IF m.pp_ref[p] >= Held(m, e, p)
           THEN m.pp_ref[p] - Held(m, e, p)
           ELSE (m.pp_ref[p] - Held(m, e, p)) % (RefMax + 1)],
        !.page_free_list = @ \cup freed,
        !.env_pgdir[e] = NULL,
        !.pde[e] = [d \in PDE |-> NULL],
        !.pte[e] = [va \in VA |-> Unmapped],
        !.panic = IF freed \cap m.page_free_list # {} THEN "page_free" ELSE @]

\* env_free as the code does it: page by page, each entry with page_remove,
\* then the page table, then the next page table, and the directory last.
DropEntries(m, e, addresses) ==
  FoldSet(LAMBDA va, n : PageRemove(n, e, va), m, addresses)

DropTable(m, e, d) ==
  IF m.pde[e][d] = NULL
  THEN m
  ELSE LET unmapped == DropEntries(m, e, {va \in VA : PDX[va] = d})
       IN  PageDecref([unmapped EXCEPT !.pde[e][d] = NULL], m.pde[e][d])

DropTables(m, e) == FoldSet(LAMBDA d, n : DropTable(n, e, d), m, PDE)

EnvFreeByPage(m, e) ==
  PageDecref([DropTables(m, e) EXCEPT !.env_pgdir[e] = NULL], m.env_pgdir[e])

-----------------------------------------------------------------------------
\* The pointers to a page: directories of slots, page tables of directories,
\* and entries of page tables.
DirRefs(m, pg) == {e \in Envs : m.env_pgdir[e] = pg}
PdeRefs(m, pg) == {x \in Envs \X PDE : m.pde[x[1]][x[2]] = pg}
PteRefs(m, pg) == {x \in Envs \X VA : m.pte[x[1]][x[2]].page = pg}

Pointers(m, pg) == Cardinality(DirRefs(m, pg))
                 + Cardinality(PdeRefs(m, pg))
                 + Cardinality(PteRefs(m, pg))
=============================================================================
