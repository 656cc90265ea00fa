---------------------------- MODULE KernelProofs ----------------------------
(***************************************************************************)
(* What the operators of Pmap return, and invariants of the kernel, proved *)
(* for every value of the constants.                                       *)
(***************************************************************************)
EXTENDS Kernel, FiniteSetTheorems, WellFoundedInduction, TLAPS

-----------------------------------------------------------------------------
(***************************************************************************)
(* Types                                                                   *)
(***************************************************************************)

\* A field of a memory may be replaced by one of its type.
LEMMA MemoryFields ==
  ASSUME NEW m \in Memory
  PROVE  /\ m.pp_ref \in [Pages -> 0 .. RefMax]
         /\ m.page_free_list \subseteq Pages
         /\ m.env_pgdir \in [Envs -> Pages \cup {NULL}]
         /\ m.pde \in [Envs -> [PDE -> Pages \cup {NULL}]]
         /\ m.pte \in [Envs -> [VA -> PTE]]
         /\ m.panic \in Panics
  BY DEF Memory

\* page_init leaves a memory.
LEMMA PageInitType == PageInit \in Memory
  BY RefMaxAssumption DEF PageInit, Memory, Panics, PTE, Unmapped

\* page_alloc returns a page of the free list.
LEMMA FreePageType ==
  ASSUME NEW m \in Memory, HasFree(m)
  PROVE  FreePage(m) \in m.page_free_list /\ FreePage(m) \in Pages
  BY DEF Memory, HasFree, FreePage

\* page_alloc yields a memory.
LEMMA PageAllocType ==
  ASSUME NEW m \in Memory
  PROVE  PageAlloc(m) \in Memory
  BY DEF Memory, PageAlloc

\* page_free yields a memory.
LEMMA PageFreeType ==
  ASSUME NEW m \in Memory, NEW pg \in Pages
  PROVE  PageFree(m, pg) \in Memory
  BY DEF Memory, Panics, PageFree

\* Counting a reference up yields a memory.
LEMMA IncrefType ==
  ASSUME NEW m \in Memory, NEW pg \in Pages
  PROVE  Incref(m, pg) \in Memory
<1> DEFINE c == IF m.pp_ref[pg] = RefMax THEN 0 ELSE m.pp_ref[pg] + 1
<1>1. m.pp_ref[pg] \in 0 .. RefMax
  BY DEF Memory
<1>2. c \in 0 .. RefMax
  BY <1>1, RefMaxAssumption
<1>3. Incref(m, pg) = [m EXCEPT !.pp_ref = [m.pp_ref EXCEPT ![pg] = c]]
  BY DEF Incref, Memory
<1> HIDE DEF c
<1> QED
  BY <1>2, <1>3 DEF Memory

\* Counting a reference down yields a memory.
LEMMA DecrefType ==
  ASSUME NEW m \in Memory, NEW pg \in Pages
  PROVE  Decref(m, pg) \in Memory
<1> DEFINE c == IF m.pp_ref[pg] = 0 THEN RefMax ELSE m.pp_ref[pg] - 1
<1>1. m.pp_ref[pg] \in 0 .. RefMax
  BY DEF Memory
<1>2. c \in 0 .. RefMax
  BY <1>1, RefMaxAssumption
<1>3. Decref(m, pg) = [m EXCEPT !.pp_ref = [m.pp_ref EXCEPT ![pg] = c]]
  BY DEF Decref, Memory
<1> HIDE DEF c
<1> QED
  BY <1>2, <1>3 DEF Memory

\* page_decref yields a memory.
LEMMA PageDecrefType ==
  ASSUME NEW m \in Memory, NEW pg \in Pages
  PROVE  PageDecref(m, pg) \in Memory
  BY DecrefType, PageFreeType DEF PageDecref

\* pgdir_walk yields a memory when the table is there or can be made.
LEMMA PgdirWalkType ==
  ASSUME NEW m \in Memory, NEW e \in Envs, NEW va \in VA, CanWalk(m, e, va)
  PROVE  PgdirWalk(m, e, va) \in Memory
<1>1. CASE m.pde[e][PDX[va]] # NULL
  BY <1>1 DEF PgdirWalk
<1>2. CASE m.pde[e][PDX[va]] = NULL
  <2>1. FreePage(m) \in Pages
    BY <1>2, FreePageType DEF CanWalk
  <2>2. Incref(PageAlloc(m), FreePage(m)) \in Memory
    BY <2>1, PageAllocType, IncrefType
  <2>3. PDX[va] \in PDE
    BY VAAssumption
  <2> QED
    BY <1>2, <2>1, <2>2, <2>3 DEF PgdirWalk, Memory
<1> QED
  BY <1>1, <1>2

\* page_lookup finds a page or nothing.
LEMMA PageLookupType ==
  ASSUME NEW m \in Memory, NEW e \in Envs, NEW va \in VA
  PROVE  PageLookup(m, e, va) \in Pages \cup {NULL}
  BY DEF Memory, PTE, PageLookup

\* page_remove yields a memory.
LEMMA PageRemoveType ==
  ASSUME NEW m \in Memory, NEW e \in Envs, NEW va \in VA
  PROVE  PageRemove(m, e, va) \in Memory
<1> DEFINE pg == PageLookup(m, e, va)
<1>1. CASE pg = NULL
  BY <1>1 DEF PageRemove
<1>2. CASE pg # NULL
  <2>1. PageDecref(m, pg) \in Memory
    BY <1>2, PageLookupType, PageDecrefType
  <2>2. Unmapped \in PTE
    BY DEF Unmapped, PTE
  <2> QED
    BY <1>2, <2>1, <2>2 DEF PageRemove, Memory
<1> QED
  BY <1>1, <1>2

\* page_insert yields a memory.
LEMMA PageInsertType ==
  ASSUME NEW m \in Memory, NEW e \in Envs, NEW pg \in Pages, NEW va \in VA,
         NEW perm \in SUBSET Flags, CanWalk(m, e, va)
  PROVE  PageInsert(m, e, pg, va, perm) \in Memory
<1> DEFINE r == PageRemove(Incref(PgdirWalk(m, e, va), pg), e, va)
           entry == [page |-> pg, perm |-> perm \cup {"P"}]
<1>1. r \in Memory
  BY PgdirWalkType, IncrefType, PageRemoveType
<1>2. entry \in PTE
  BY DEF PTE, Flags
<1>3. PageInsert(m, e, pg, va, perm) = [r EXCEPT !.pte[e][va] = entry]
  BY DEF PageInsert
<1> HIDE DEF r, entry
<1>4. [r.pte EXCEPT ![e][va] = entry] \in [Envs -> [VA -> PTE]]
  BY <1>1, <1>2 DEF Memory
<1>5. PageInsert(m, e, pg, va, perm)
        = [r EXCEPT !.pte = [r.pte EXCEPT ![e][va] = entry]]
  BY <1>1, <1>3 DEF Memory
<1> QED
  BY <1>1, <1>4, <1>5 DEF Memory

\* env_setup_vm yields a memory in which the slot has a directory.
LEMMA EnvSetupVmType ==
  ASSUME NEW m \in Memory, NEW e \in Envs, HasFree(m)
  PROVE  /\ EnvSetupVm(m, e) \in Memory
         /\ EnvSetupVm(m, e).env_pgdir
              = [m.env_pgdir EXCEPT ![e] = FreePage(m)]
         /\ EnvSetupVm(m, e).page_free_list = m.page_free_list \ {FreePage(m)}
<1> DEFINE i == Incref(PageAlloc(m), FreePage(m))
<1>1. FreePage(m) \in Pages /\ i \in Memory
  BY FreePageType, PageAllocType, IncrefType
<1>2. /\ i.env_pgdir = m.env_pgdir
      /\ i.page_free_list = m.page_free_list \ {FreePage(m)}
  BY DEF Incref, PageAlloc, Memory
<1>3. [d \in PDE |-> NULL] \in [PDE -> Pages \cup {NULL}]
  OBVIOUS
<1>4. [va \in VA |-> Unmapped] \in [VA -> PTE]
  BY DEF Unmapped, PTE
<1>5. EnvSetupVm(m, e) = [i EXCEPT !.env_pgdir[e] = FreePage(m),
                                   !.pde[e] = [d \in PDE |-> NULL],
                                   !.pte[e] = [va \in VA |-> Unmapped]]
  BY DEF EnvSetupVm
<1> HIDE DEF i
<1>6. EnvSetupVm(m, e)
        = [pp_ref         |-> i.pp_ref,
           page_free_list |-> i.page_free_list,
           env_pgdir      |-> [i.env_pgdir EXCEPT ![e] = FreePage(m)],
           pde            |-> [i.pde EXCEPT ![e] = [d \in PDE |-> NULL]],
           pte            |-> [i.pte EXCEPT ![e] = [va \in VA |-> Unmapped]],
           panic          |-> i.panic]
  BY <1>1, <1>5 DEF Memory
<1>7. /\ [i.env_pgdir EXCEPT ![e] = FreePage(m)] \in [Envs -> Pages \cup {NULL}]
      /\ [i.pde EXCEPT ![e] = [d \in PDE |-> NULL]]
           \in [Envs -> [PDE -> Pages \cup {NULL}]]
      /\ [i.pte EXCEPT ![e] = [va \in VA |-> Unmapped]] \in [Envs -> [VA -> PTE]]
  BY <1>1, <1>3, <1>4 DEF Memory
<1> QED
  BY <1>1, <1>2, <1>6, <1>7 DEF Memory

\* The references a slot holds to a page are a number.
LEMMA HeldType ==
  ASSUME NEW m, NEW e, NEW pg
  PROVE  Held(m, e, pg) \in Nat
<1>1. IsFiniteSet({va \in VA : m.pte[e][va].page = pg})
  BY VAAssumption, FS_Subset
<1>2. IsFiniteSet({d \in PDE : m.pde[e][d] = pg})
  BY VAAssumption, FS_Subset
<1> QED
  BY <1>1, <1>2, FS_CardinalityType DEF Held

\* env_free yields a memory in which the slot has no directory.
LEMMA FreeVmType ==
  ASSUME NEW m \in Memory, NEW e \in Envs
  PROVE  /\ FreeVm(m, e) \in Memory
         /\ FreeVm(m, e).env_pgdir = [m.env_pgdir EXCEPT ![e] = NULL]
<1>1. \A p \in Pages : Held(m, e, p) \in Nat
  BY HeldType
<1> DEFINE left(p) == IF m.pp_ref[p] >= Held(m, e, p)
                      THEN m.pp_ref[p] - Held(m, e, p)
                      ELSE (m.pp_ref[p] - Held(m, e, p)) % (RefMax + 1)
<1>2. ASSUME NEW p \in Pages
      PROVE  left(p) \in 0 .. RefMax
  <2>1. m.pp_ref[p] \in 0 .. RefMax /\ Held(m, e, p) \in Nat
    BY <1>1 DEF Memory
  <2>2. \A x \in Int : x % (RefMax + 1) \in 0 .. RefMax
    BY RefMaxAssumption
  <2>3. CASE m.pp_ref[p] >= Held(m, e, p)
    BY <2>1, <2>3, RefMaxAssumption
  <2>4. CASE ~(m.pp_ref[p] >= Held(m, e, p))
    <3>1. m.pp_ref[p] - Held(m, e, p) \in Int
      BY <2>1, RefMaxAssumption
    <3> QED
      BY <2>2, <2>4, <3>1
  <2> QED
    BY <2>3, <2>4
<1>3. [d \in PDE |-> NULL] \in [PDE -> Pages \cup {NULL}]
  OBVIOUS
<1>4. [va \in VA |-> Unmapped] \in [VA -> PTE]
  BY DEF Unmapped, PTE
<1> QED
  BY <1>2, <1>3, <1>4 DEF FreeVm, Memory, Panics

-----------------------------------------------------------------------------
(***************************************************************************)
(* What the operations on one mapping leave alone                          *)
(***************************************************************************)

\* Taking a page off the list, giving one back, and counting a reference.
LEMMA PageOpsFrame ==
  ASSUME NEW m \in Memory, NEW pg \in Pages
  PROVE  /\ PageAlloc(m).page_free_list = m.page_free_list \ {FreePage(m)}
         /\ PageAlloc(m).env_pgdir = m.env_pgdir
         /\ Incref(m, pg).page_free_list = m.page_free_list
         /\ Incref(m, pg).env_pgdir = m.env_pgdir
         /\ m.page_free_list \subseteq PageDecref(m, pg).page_free_list
         /\ PageDecref(m, pg).env_pgdir = m.env_pgdir
<1>1. /\ PageAlloc(m).page_free_list = m.page_free_list \ {FreePage(m)}
      /\ PageAlloc(m).env_pgdir = m.env_pgdir
  BY DEF PageAlloc, Memory
<1>2. /\ Incref(m, pg).page_free_list = m.page_free_list
      /\ Incref(m, pg).env_pgdir = m.env_pgdir
  BY DEF Incref, Memory
<1>3. /\ Decref(m, pg).page_free_list = m.page_free_list
      /\ Decref(m, pg).env_pgdir = m.env_pgdir
      /\ Decref(m, pg) \in Memory
  BY DecrefType DEF Decref, Memory
<1>4. ASSUME NEW d \in Memory
      PROVE  /\ d.page_free_list \subseteq PageFree(d, pg).page_free_list
             /\ PageFree(d, pg).env_pgdir = d.env_pgdir
  BY DEF PageFree, Memory
<1> QED
  BY <1>1, <1>2, <1>3, <1>4 DEF PageDecref

\* page_remove frees pages, it never takes one.
LEMMA PageRemoveFrame ==
  ASSUME NEW m \in Memory, NEW e \in Envs, NEW va \in VA
  PROVE  /\ m.page_free_list \subseteq PageRemove(m, e, va).page_free_list
         /\ PageRemove(m, e, va).env_pgdir = m.env_pgdir
<1> DEFINE pg == PageLookup(m, e, va)
<1>1. CASE pg = NULL
  BY <1>1 DEF PageRemove
<1>2. CASE pg # NULL
  <2>1. pg \in Pages
    BY <1>2, PageLookupType
  <2>2. PageDecref(m, pg) \in Memory
    BY <2>1, PageDecrefType
  <2>3. PageRemove(m, e, va) = [PageDecref(m, pg) EXCEPT !.pte[e][va] = Unmapped]
    BY <1>2 DEF PageRemove
  <2>4. /\ PageRemove(m, e, va).page_free_list = PageDecref(m, pg).page_free_list
        /\ PageRemove(m, e, va).env_pgdir = PageDecref(m, pg).env_pgdir
    BY <2>2, <2>3 DEF Memory
  <2> QED
    BY <2>1, <2>4, PageOpsFrame
<1> QED
  BY <1>1, <1>2

\* page_insert takes at most one page, for a page table.
LEMMA PageInsertFrame ==
  ASSUME NEW m \in Memory, NEW e \in Envs, NEW pg \in Pages, NEW va \in VA,
         NEW perm \in SUBSET Flags, CanWalk(m, e, va)
  PROVE  /\ m.page_free_list \ {FreePage(m)}
              \subseteq PageInsert(m, e, pg, va, perm).page_free_list
         /\ PageInsert(m, e, pg, va, perm).env_pgdir = m.env_pgdir
<1> DEFINE w == PgdirWalk(m, e, va)
           c == Incref(w, pg)
           r == PageRemove(c, e, va)
<1>1. w \in Memory /\ c \in Memory /\ r \in Memory
  BY PgdirWalkType, IncrefType, PageRemoveType
<1>2. /\ m.page_free_list \ {FreePage(m)} \subseteq w.page_free_list
      /\ w.env_pgdir = m.env_pgdir
  <2>1. CASE m.pde[e][PDX[va]] # NULL
    BY <2>1 DEF PgdirWalk
  <2>2. CASE m.pde[e][PDX[va]] = NULL
    <3> DEFINE a == Incref(PageAlloc(m), FreePage(m))
    <3>1. FreePage(m) \in Pages /\ PageAlloc(m) \in Memory
      BY <2>2, FreePageType, PageAllocType DEF CanWalk
    <3>2. /\ a.page_free_list = m.page_free_list \ {FreePage(m)}
          /\ a.env_pgdir = m.env_pgdir
          /\ a \in Memory
      BY <3>1, PageOpsFrame, IncrefType
    <3>3. w = [a EXCEPT !.pde[e][PDX[va]] = FreePage(m)]
      BY <2>2 DEF PgdirWalk
    <3> HIDE DEF a, w
    <3>4. w.page_free_list = a.page_free_list /\ w.env_pgdir = a.env_pgdir
      BY <3>2, <3>3 DEF Memory
    <3> QED
      BY <3>2, <3>4
  <2> QED
    BY <2>1, <2>2
<1>3. /\ w.page_free_list \subseteq r.page_free_list
      /\ r.env_pgdir = w.env_pgdir
  <2>1. /\ c.page_free_list = w.page_free_list
        /\ c.env_pgdir = w.env_pgdir
    BY <1>1, PageOpsFrame
  <2>2. /\ c.page_free_list \subseteq r.page_free_list
        /\ r.env_pgdir = c.env_pgdir
    BY <1>1, PageRemoveFrame
  <2> QED
    BY <2>1, <2>2
<1>4. PageInsert(m, e, pg, va, perm)
        = [r EXCEPT !.pte[e][va] = [page |-> pg, perm |-> perm \cup {"P"}]]
  BY DEF PageInsert
<1> HIDE DEF r
<1>5. /\ PageInsert(m, e, pg, va, perm).page_free_list = r.page_free_list
      /\ PageInsert(m, e, pg, va, perm).env_pgdir = r.env_pgdir
  BY <1>1, <1>4 DEF Memory
<1> QED
  BY <1>2, <1>3, <1>5

-----------------------------------------------------------------------------
(***************************************************************************)
(* Which entries of the page tables the operations write                   *)
(***************************************************************************)

\* The page allocator and the reference counts write none.
LEMMA PageOpsEntries ==
  ASSUME NEW m \in Memory, NEW pg \in Pages
  PROVE  /\ PageAlloc(m).pte = m.pte
         /\ PageFree(m, pg).pte = m.pte
         /\ Incref(m, pg).pte = m.pte
         /\ PageDecref(m, pg).pte = m.pte
<1>1. PageAlloc(m).pte = m.pte /\ Incref(m, pg).pte = m.pte
  BY DEF PageAlloc, Incref, Memory
<1>2. Decref(m, pg) \in Memory /\ Decref(m, pg).pte = m.pte
  BY DecrefType DEF Decref, Memory
<1>3. ASSUME NEW d \in Memory
      PROVE  PageFree(d, pg).pte = d.pte
  BY DEF PageFree, Memory
<1> QED
  BY <1>1, <1>2, <1>3 DEF PageDecref

\* page_remove clears at most the one it was asked to.
LEMMA PageRemoveEntries ==
  ASSUME NEW m \in Memory, NEW e \in Envs, NEW va \in VA
  PROVE  \/ PageRemove(m, e, va).pte = m.pte
         \/ PageRemove(m, e, va).pte = [m.pte EXCEPT ![e][va] = Unmapped]
<1> DEFINE pg == PageLookup(m, e, va)
           d == PageDecref(m, pg)
<1>1. CASE pg = NULL
  BY <1>1 DEF PageRemove
<1>2. CASE pg # NULL
  <2>1. pg \in Pages
    BY <1>2, PageLookupType
  <2>2. d \in Memory /\ d.pte = m.pte
    BY <2>1, PageDecrefType, PageOpsEntries
  <2>3. PageRemove(m, e, va) = [d EXCEPT !.pte[e][va] = Unmapped]
    BY <1>2 DEF PageRemove
  <2> HIDE DEF d
  <2> QED
    BY <2>2, <2>3 DEF Memory
<1> QED
  BY <1>1, <1>2

\* page_insert writes the one it was asked to.
LEMMA PageInsertEntries ==
  ASSUME NEW m \in Memory, NEW e \in Envs, NEW pg \in Pages, NEW va \in VA,
         NEW perm \in SUBSET Flags, CanWalk(m, e, va)
  PROVE  PageInsert(m, e, pg, va, perm).pte
           = [m.pte EXCEPT ![e][va] = [page |-> pg, perm |-> perm \cup {"P"}]]
<1> DEFINE w == PgdirWalk(m, e, va)
           c == Incref(w, pg)
           r == PageRemove(c, e, va)
           entry == [page |-> pg, perm |-> perm \cup {"P"}]
<1>1. w \in Memory /\ c \in Memory /\ r \in Memory
  BY PgdirWalkType, IncrefType, PageRemoveType
<1>2. w.pte = m.pte
  <2>1. CASE m.pde[e][PDX[va]] # NULL
    BY <2>1 DEF PgdirWalk
  <2>2. CASE m.pde[e][PDX[va]] = NULL
    <3> DEFINE i == Incref(PageAlloc(m), FreePage(m))
    <3>1. FreePage(m) \in Pages /\ PageAlloc(m) \in Memory
      BY <2>2, FreePageType, PageAllocType DEF CanWalk
    <3>2. i \in Memory /\ i.pte = m.pte
      BY <3>1, PageOpsEntries, IncrefType
    <3>3. w = [i EXCEPT !.pde[e][PDX[va]] = FreePage(m)]
      BY <2>2 DEF PgdirWalk
    <3> HIDE DEF i, w
    <3> QED
      BY <3>2, <3>3 DEF Memory
  <2> QED
    BY <2>1, <2>2
<1>3. c.pte = m.pte
  BY <1>1, <1>2, PageOpsEntries
<1>4. r.pte = m.pte \/ r.pte = [m.pte EXCEPT ![e][va] = Unmapped]
  BY <1>1, <1>3, PageRemoveEntries
<1>5. PageInsert(m, e, pg, va, perm) = [r EXCEPT !.pte[e][va] = entry]
  BY DEF PageInsert
<1>6. m.pte \in [Envs -> [VA -> PTE]]
  BY MemoryFields
<1> HIDE DEF r, entry
<1>7. PageInsert(m, e, pg, va, perm).pte = [r.pte EXCEPT ![e][va] = entry]
  BY <1>1, <1>5 DEF Memory
<1>8. [r.pte EXCEPT ![e][va] = entry] = [m.pte EXCEPT ![e][va] = entry]
  BY <1>4, <1>6
<1> QED
  BY <1>7, <1>8 DEF entry

\* env_setup_vm clears all of a slot and leaves the others alone.
LEMMA SetupEntries ==
  ASSUME NEW m \in Memory, NEW e \in Envs, HasFree(m)
  PROVE  /\ \A va \in VA : EnvSetupVm(m, e).pte[e][va] = Unmapped
         /\ \A f \in Envs \ {e} : EnvSetupVm(m, e).pte[f] = m.pte[f]
<1> DEFINE i == Incref(PageAlloc(m), FreePage(m))
           n == EnvSetupVm(m, e)
<1>1. i \in Memory /\ i.pte = m.pte /\ m.pte \in [Envs -> [VA -> PTE]]
  BY FreePageType, PageAllocType, IncrefType, PageOpsEntries, MemoryFields
<1>2. n = [i EXCEPT !.env_pgdir[e] = FreePage(m),
                    !.pde[e] = [d \in PDE |-> NULL],
                    !.pte[e] = [va \in VA |-> Unmapped]]
  BY DEF EnvSetupVm
<1> HIDE DEF i, n
<1>3. n.pte = [m.pte EXCEPT ![e] = [va \in VA |-> Unmapped]]
  BY <1>1, <1>2 DEF Memory
<1> QED
  BY <1>1, <1>3 DEF n

\* env_free too.
LEMMA FreeVmEntries ==
  ASSUME NEW m \in Memory, NEW e \in Envs
  PROVE  /\ \A va \in VA : FreeVm(m, e).pte[e][va] = Unmapped
         /\ \A f \in Envs \ {e} : FreeVm(m, e).pte[f] = m.pte[f]
<1>1. FreeVm(m, e).pte = [m.pte EXCEPT ![e] = [va \in VA |-> Unmapped]]
  BY DEF FreeVm, Memory
<1> QED
  BY <1>1, MemoryFields

-----------------------------------------------------------------------------
(***************************************************************************)
(* The scheduler                                                           *)
(***************************************************************************)

\* A set of natural numbers has a least element.
LEMMA LeastNumber ==
  ASSUME NEW T, T \subseteq Nat, T # {}
  PROVE  \E x \in T : \A y \in T : x <= y
<1>1. \E x \in T : \A y \in T : ~ (<<y, x>> \in OpToRel(<, Nat))
  BY NatLessThanWellFounded, WFMin
<1>2. PICK x \in T : \A y \in T : ~ (<<y, x>> \in OpToRel(<, Nat))
  BY <1>1
<1>3. ASSUME NEW y \in T
      PROVE  x <= y
  <2>1. ~ (<<y, x>> \in OpToRel(<, Nat))
    BY <1>2
  <2>2. ~ (y < x)
    BY <2>1 DEF OpToRel
  <2> QED
    BY <2>2
<1> QED
  BY <1>3

\* sched_yield picks a candidate when there is one.
LEMMA NextToRunType ==
  ASSUME NEW status, NEW cur \in Envs \cup {NULL}
  PROVE  \/ NextToRun(status, cur) \in Candidates(status, cur)
         \/ NextToRun(status, cur) = NULL /\ Candidates(status, cur) = {}
<1> DEFINE C == Candidates(status, cur)
           D(e) == Distance(SearchFrom(cur), e)
<1>1. CASE C = {}
  BY <1>1 DEF NextToRun
<1>2. CASE C # {}
  <2>1. SearchFrom(cur) \in Envs
    BY NENVAssumption DEF SearchFrom, Envs
  <2>2. C \subseteq Envs
    BY DEF Candidates
  <2>3. \A e \in C : D(e) \in Nat
    BY <2>1, <2>2, NENVAssumption DEF Distance, Envs
  <2>4. {D(e) : e \in C} \subseteq Nat /\ {D(e) : e \in C} # {}
    BY <1>2, <2>3
  <2>5. PICK d \in {D(e) : e \in C} : \A y \in {D(e) : e \in C} : d <= y
    BY <2>4, LeastNumber
  <2>6. \E e \in C : \A f \in C : D(e) <= D(f)
    BY <2>5
  <2> QED
    BY <1>2, <2>6 DEF NextToRun
<1> QED
  BY <1>1, <1>2

\* What rescheduling establishes, whatever became of the environment cur that
\* was running: one environment runs, or none when none can, and no free slot
\* comes alive.
LEMMA SchedYieldCorrect ==
  ASSUME NEW status \in [Envs -> Statuses], NEW cur \in Envs \cup {NULL},
         \A e \in Envs : status[e] = "ENV_RUNNING" => e = cur,
         SchedYield(status, cur)
  PROVE  /\ curenv' \in Envs \cup {NULL}
         /\ env_status' \in [Envs -> Statuses]
         /\ RunningIsCurrent'
         /\ ParkedOnlyWhenIdle'
         /\ \A e \in Envs : env_status'[e] # "ENV_FREE" => status[e] # "ENV_FREE"
<1> DEFINE n == NextToRun(status, cur)
<1>1. EnvRun(status, cur, n)
  BY DEF SchedYield
<1>2. CASE n = NULL
  <2>1. Candidates(status, cur) = {} /\ \A e \in Envs : e # NULL
    BY <1>2, NextToRunType, NULLAssumption DEF Candidates
  <2>2. \A e \in Envs : status[e] # "ENV_RUNNABLE"
    BY <2>1 DEF Candidates
  <2>3. \A e \in Envs : status[e] # "ENV_RUNNING"
    BY <2>1 DEF Candidates, SearchFrom
  <2>4. curenv' = NULL /\ env_status' = status
    BY <1>1, <1>2, <2>1 DEF EnvRun
  <2> QED
    BY <2>1, <2>2, <2>3, <2>4 DEF RunningIsCurrent, ParkedOnlyWhenIdle
<1>3. CASE n # NULL
  <2>1. n \in Candidates(status, cur)
    BY <1>3, NextToRunType
  <2>2. n \in Envs /\ status[n] # "ENV_FREE"
    BY <2>1 DEF Candidates
  <2> HIDE DEF n
  <2>3. /\ curenv' = n
        /\ env_status' =
             [f \in Envs |->
                IF f = n THEN "ENV_RUNNING"
                ELSE IF f = cur /\ status[f] = "ENV_RUNNING" THEN "ENV_RUNNABLE"
                ELSE status[f]]
    BY <1>1, <1>3 DEF EnvRun
  <2>4. env_status' \in [Envs -> Statuses]
    BY <2>3 DEF Statuses
  <2>5. RunningIsCurrent'
    BY <2>2, <2>3 DEF RunningIsCurrent
  <2>6. ParkedOnlyWhenIdle'
    BY <1>3, <2>3 DEF ParkedOnlyWhenIdle
  <2>7. \A e \in Envs : env_status'[e] # "ENV_FREE" => status[e] # "ENV_FREE"
    BY <2>2, <2>3
  <2> QED
    BY <2>2, <2>3, <2>4, <2>5, <2>6, <2>7
<1> QED
  BY <1>2, <1>3

\* The same for the end of trap().
LEMMA ReturnCorrect ==
  ASSUME NEW status \in [Envs -> Statuses], curenv \in Envs,
         \A e \in Envs : status[e] = "ENV_RUNNING" => e = curenv,
         Return(status)
  PROVE  /\ curenv' \in Envs \cup {NULL}
         /\ env_status' \in [Envs -> Statuses]
         /\ RunningIsCurrent'
         /\ ParkedOnlyWhenIdle'
         /\ \A e \in Envs : env_status'[e] # "ENV_FREE" => status[e] # "ENV_FREE"
<1>1. CASE status[curenv] = "ENV_RUNNING"
  <2>1. curenv' = curenv /\ env_status' = status
    BY <1>1 DEF Return
  <2> QED
    BY <1>1, <2>1, NULLAssumption DEF RunningIsCurrent, ParkedOnlyWhenIdle
<1>2. CASE status[curenv] # "ENV_RUNNING"
  BY <1>2, SchedYieldCorrect DEF Return
<1> QED
  BY <1>1, <1>2

-----------------------------------------------------------------------------
(***************************************************************************)
(* The inductive invariant                                                 *)
(***************************************************************************)

\* What a trap may rely on: the types, and that envid 0 names an environment
\* that runs, hence has a directory.
KernelInv ==
  /\ TypeOK
  /\ RunningIsCurrent
  /\ ParkedOnlyWhenIdle
  /\ LiveHasDirectory

\* envid2env names live slots only.
LEMMA Envid2envType ==
  ASSUME KernelInv, curenv # NULL, NEW envid \in EnvIds, NEW checkperm \in BOOLEAN,
         envid2env(envid, checkperm) # NULL
  PROVE  /\ envid2env(envid, checkperm) \in Envs
         /\ env_status[envid2env(envid, checkperm)] # "ENV_FREE"
<1>1. curenv \in Envs /\ env_status[curenv] = "ENV_RUNNING"
  BY DEF KernelInv, TypeOK, RunningIsCurrent
<1>2. CASE envid = Self
  BY <1>1, <1>2 DEF envid2env
<1>3. CASE envid # Self
  <2>1. envid[2] \in Envs
    BY <1>3 DEF EnvIds
  <2> QED
    BY <1>3, <2>1 DEF envid2env
<1> QED
  BY <1>2, <1>3

\* An id with the next generation is an id.
LEMMA NextIdType ==
  ASSUME NEW id \in Ids, NEW e \in Envs
  PROVE  <<NextGeneration(id[1]), e>> \in Ids
  BY GenMaxAssumption DEF Ids, NextGeneration

\* A step that reschedules and leaves the directories alone.
LEMMA RescheduleStep ==
  ASSUME KernelInv, UNCHANGED slotVars,
         mem' \in Memory, mem'.env_pgdir = mem.env_pgdir,
         env_ipc_recving' \in [Envs -> BOOLEAN],
         env_ipc_dstva' \in [Envs -> VA \cup {UTOP}],
         NEW status \in [Envs -> Statuses],
         curenv \in Envs,
         \A e \in Envs : status[e] = "ENV_RUNNING" => e = curenv,
         \A e \in Envs : status[e] # "ENV_FREE" => env_status[e] # "ENV_FREE",
         SchedYield(status, curenv) \/ Return(status)
  PROVE  KernelInv'
<1>1. /\ curenv' \in Envs \cup {NULL}
      /\ env_status' \in [Envs -> Statuses]
      /\ RunningIsCurrent'
      /\ ParkedOnlyWhenIdle'
      /\ \A e \in Envs : env_status'[e] # "ENV_FREE" => status[e] # "ENV_FREE"
  <2>1. CASE SchedYield(status, curenv)
    BY <2>1, SchedYieldCorrect
  <2>2. CASE Return(status)
    BY <2>2, ReturnCorrect
  <2> QED
    BY <2>1, <2>2
<1>2. TypeOK'
  BY <1>1 DEF KernelInv, TypeOK, slotVars
<1>3. LiveHasDirectory'
  BY <1>1 DEF KernelInv, LiveHasDirectory, InUse
<1> QED
  BY <1>1, <1>2, <1>3 DEF KernelInv

\* A step that only changes mappings.
LEMMA MappingStep ==
  ASSUME KernelInv, UNCHANGED <<env_status, curenv, slotVars, ipcVars>>,
         mem' \in Memory, mem'.env_pgdir = mem.env_pgdir
  PROVE  KernelInv'
<1>1. TypeOK'
  BY DEF KernelInv, TypeOK, slotVars, ipcVars
<1>2. RunningIsCurrent' /\ ParkedOnlyWhenIdle' /\ LiveHasDirectory'
  BY DEF KernelInv, RunningIsCurrent, ParkedOnlyWhenIdle, LiveHasDirectory, InUse
<1> QED
  BY <1>1, <1>2 DEF KernelInv

\* env_destroy, of the environment that runs or of another one.
LEMMA EnvDestroyStep ==
  ASSUME KernelInv, curenv # NULL, NEW e \in Envs, EnvDestroy(e)
  PROVE  KernelInv'
<1> DEFINE status == [env_status EXCEPT ![e] = "ENV_FREE"]
<1>1. /\ curenv \in Envs
      /\ status \in [Envs -> Statuses]
      /\ \A f \in Envs : status[f] = "ENV_RUNNING" => f = curenv /\ f # e
      /\ \A f \in Envs : status[f] # "ENV_FREE" => f # e /\ InUse(f)
  BY DEF KernelInv, TypeOK, RunningIsCurrent, LiveHasDirectory, Statuses
<1>2. /\ curenv' \in Envs \cup {NULL}
      /\ env_status' \in [Envs -> Statuses]
      /\ RunningIsCurrent'
      /\ ParkedOnlyWhenIdle'
      /\ \A f \in Envs : env_status'[f] # "ENV_FREE" => status[f] # "ENV_FREE"
  <2>1. CASE e = curenv
    <3>1. SchedYield(status, NULL)
      BY <2>1 DEF EnvDestroy
    <3> HIDE DEF status
    <3>2. \A f \in Envs : status[f] = "ENV_RUNNING" => f = NULL
      BY <1>1, <2>1
    <3> QED
      BY <1>1, <3>1, <3>2, SchedYieldCorrect
  <2>2. CASE e # curenv
    <3>1. Return(status)
      BY <2>2 DEF EnvDestroy
    <3> HIDE DEF status
    <3> QED
      BY <1>1, <3>1, ReturnCorrect
  <2> QED
    BY <2>1, <2>2
<1> HIDE DEF status
<1>3. mem' \in Memory /\ mem'.env_pgdir = [mem.env_pgdir EXCEPT ![e] = NULL]
  BY FreeVmType DEF EnvDestroy, KernelInv, TypeOK
<1>4. /\ env_link' \in [Envs -> Envs]
      /\ env_free_list' \in Envs
      /\ orphans' \subseteq Envs
  BY DEF EnvDestroy, PushFree, Children, KernelInv, TypeOK
<1>5. TypeOK'
  BY <1>2, <1>3, <1>4 DEF KernelInv, TypeOK, EnvDestroy, ipcVars
<1>6. LiveHasDirectory'
  <2> SUFFICES ASSUME NEW f \in Envs, env_status'[f] # "ENV_FREE"
               PROVE  mem'.env_pgdir[f] # NULL
    BY DEF LiveHasDirectory, InUse
  <2>1. f # e /\ InUse(f)
    BY <1>1, <1>2
  <2>2. mem.env_pgdir \in [Envs -> Pages \cup {NULL}]
    BY MemoryFields DEF KernelInv, TypeOK
  <2> QED
    BY <1>3, <2>1, <2>2 DEF InUse
<1> QED
  BY <1>2, <1>5, <1>6 DEF KernelInv

\* sys_exofork, on a free slot or on one in use.
LEMMA ExoforkStep ==
  ASSUME KernelInv, SysExofork
  PROVE  KernelInv'
<1> DEFINE e == env_free_list
           status == [env_status EXCEPT ![e] = "ENV_NOT_RUNNABLE"]
<1>1. /\ curenv \in Envs /\ e \in Envs
      /\ EnvAlloc(e, env_id[curenv])
      /\ Return(status)
      /\ HasFree(mem)
  BY DEF SysExofork, Running, KernelInv, TypeOK
<1>2. /\ status \in [Envs -> Statuses]
      /\ \A f \in Envs : status[f] = "ENV_RUNNING" => f = curenv
      /\ \A f \in Envs : status[f] # "ENV_FREE" => f = e \/ InUse(f)
  BY DEF KernelInv, TypeOK, RunningIsCurrent, LiveHasDirectory, Statuses
<1> HIDE DEF status, e
<1>3. /\ curenv' \in Envs \cup {NULL}
      /\ env_status' \in [Envs -> Statuses]
      /\ RunningIsCurrent'
      /\ ParkedOnlyWhenIdle'
      /\ \A f \in Envs : env_status'[f] # "ENV_FREE" => status[f] # "ENV_FREE"
  BY <1>1, <1>2, ReturnCorrect
<1>4. /\ mem \in Memory
      /\ mem' \in Memory
      /\ mem'.env_pgdir = [mem.env_pgdir EXCEPT ![e] = FreePage(mem)]
      /\ FreePage(mem) # NULL
  <2>1. mem \in Memory
    BY DEF KernelInv, TypeOK
  <2> QED
    BY <1>1, <2>1, EnvSetupVmType, FreePageType, NULLAssumption DEF EnvAlloc
<1>5. /\ env_id' \in [Envs -> Ids]
      /\ env_parent_id' \in [Envs -> Ids]
  BY <1>1, NextIdType DEF EnvAlloc, KernelInv, TypeOK
<1>6. /\ env_link' \in [Envs -> Envs]
      /\ env_free_list' \in Envs
      /\ clobbered' \in BOOLEAN
      /\ orphans' \subseteq Envs
      /\ env_ipc_recving' \in [Envs -> BOOLEAN]
      /\ env_ipc_dstva' \in [Envs -> VA \cup {UTOP}]
  BY <1>1 DEF EnvAlloc, Children, KernelInv, TypeOK, InUse
<1>7. TypeOK'
  BY <1>3, <1>4, <1>5, <1>6 DEF TypeOK
<1>8. LiveHasDirectory'
  <2> SUFFICES ASSUME NEW f \in Envs, env_status'[f] # "ENV_FREE"
               PROVE  mem'.env_pgdir[f] # NULL
    BY DEF LiveHasDirectory, InUse
  <2>1. f = e \/ InUse(f)
    BY <1>2, <1>3
  <2>2. mem.env_pgdir \in [Envs -> Pages \cup {NULL}]
    BY <1>4, MemoryFields
  <2> QED
    BY <1>1, <1>4, <2>1, <2>2 DEF InUse
<1> QED
  BY <1>3, <1>7, <1>8 DEF KernelInv

\* sys_page_alloc maps in the environment it names, and moves no directory, also
\* when there is no page for the page table.
LEMMA PageAllocFrame ==
  ASSUME KernelInv, NEW envid \in EnvIds, NEW va \in VA, NEW perm \in Perms,
         SysPageAlloc(envid, va, perm)
  PROVE  /\ mem' \in Memory /\ mem'.env_pgdir = mem.env_pgdir
         /\ \A f \in Envs : f # envid2env(envid, TRUE) => mem'.pte[f] = mem.pte[f]
<1> DEFINE e == envid2env(envid, TRUE)
           pg == FreePage(mem)
           taken == PageAlloc(mem)
<1>1. e \in Envs
  BY Envid2envType DEF SysPageAlloc, Running
<1>2. mem \in Memory /\ taken \in Memory /\ pg \in Pages /\ perm \in SUBSET Flags
  BY PageAllocType, FreePageType, PermsAssumption DEF SysPageAlloc, KernelInv, TypeOK
<1>3. /\ taken.env_pgdir = mem.env_pgdir
      /\ taken.pte = mem.pte
      /\ mem.pte \in [Envs -> [VA -> PTE]]
  BY <1>2, PageOpsFrame, PageOpsEntries, MemoryFields
<1>4. mem' = IF CanWalk(taken, e, va)
             THEN PageInsert(taken, e, pg, va, perm)
             ELSE PageFree(taken, pg)
  BY DEF SysPageAlloc
<1> HIDE DEF e, pg, taken
<1>5. CASE CanWalk(taken, e, va)
  <2>1. mem' \in Memory /\ mem'.env_pgdir = taken.env_pgdir
    BY <1>1, <1>2, <1>4, <1>5, PageInsertType, PageInsertFrame
  <2>2. mem'.pte = [taken.pte EXCEPT ![e][va] = [page |-> pg, perm |-> perm \cup {"P"}]]
    BY <1>1, <1>2, <1>4, <1>5, PageInsertEntries
  <2> QED
    BY <1>3, <2>1, <2>2 DEF e
<1>6. CASE ~CanWalk(taken, e, va)
  <2>1. PageFree(taken, pg).env_pgdir = taken.env_pgdir
    BY <1>2 DEF PageFree, Memory
  <2> QED
    BY <1>2, <1>3, <1>4, <1>6, <2>1, PageFreeType, PageOpsEntries
<1> QED
  BY <1>5, <1>6

\* sys_page_map maps in its destination.
LEMMA PageMapFrame ==
  ASSUME KernelInv, NEW srcenvid \in EnvIds, NEW srcva \in VA,
         NEW dstenvid \in EnvIds, NEW dstva \in VA, NEW perm \in Perms,
         SysPageMap(srcenvid, srcva, dstenvid, dstva, perm)
  PROVE  /\ mem' \in Memory /\ mem'.env_pgdir = mem.env_pgdir
         /\ \A f \in Envs : f # envid2env(dstenvid, TRUE) => mem'.pte[f] = mem.pte[f]
<1> DEFINE src == envid2env(srcenvid, TRUE)
           dst == envid2env(dstenvid, TRUE)
           pg == PageLookup(mem, src, srcva)
<1>1. src \in Envs /\ dst \in Envs
  BY Envid2envType DEF SysPageMap, Running
<1>2. perm \in SUBSET Flags /\ mem \in Memory /\ mem.pte \in [Envs -> [VA -> PTE]]
  BY PermsAssumption, MemoryFields DEF KernelInv, TypeOK
<1>3. pg \in Pages
  BY <1>1, <1>2, PageLookupType DEF SysPageMap, CanPass
<1>4. CanWalk(mem, dst, dstva) /\ mem' = PageInsert(mem, dst, pg, dstva, perm)
  BY DEF SysPageMap
<1> HIDE DEF src, dst, pg
<1>5. mem' \in Memory /\ mem'.env_pgdir = mem.env_pgdir
  BY <1>1, <1>2, <1>3, <1>4, PageInsertType, PageInsertFrame
<1>6. mem'.pte = [mem.pte EXCEPT ![dst][dstva] = [page |-> pg, perm |-> perm \cup {"P"}]]
  BY <1>1, <1>2, <1>3, <1>4, PageInsertEntries
<1> QED
  BY <1>2, <1>5, <1>6 DEF dst

\* sys_page_unmap clears in the environment it names.
LEMMA PageUnmapFrame ==
  ASSUME KernelInv, NEW envid \in EnvIds, NEW va \in VA, SysPageUnmap(envid, va)
  PROVE  /\ mem' \in Memory /\ mem'.env_pgdir = mem.env_pgdir
         /\ \A f \in Envs : f # envid2env(envid, TRUE) => mem'.pte[f] = mem.pte[f]
<1> DEFINE e == envid2env(envid, TRUE)
<1>1. e \in Envs
  BY Envid2envType DEF SysPageUnmap, Running
<1>2. mem' = PageRemove(mem, e, va)
  BY DEF SysPageUnmap
<1>3. mem \in Memory /\ mem.pte \in [Envs -> [VA -> PTE]]
  BY MemoryFields DEF KernelInv, TypeOK
<1> HIDE DEF e
<1>4. mem' \in Memory /\ mem'.env_pgdir = mem.env_pgdir
  BY <1>1, <1>2, <1>3, PageRemoveType, PageRemoveFrame
<1>5. mem'.pte = mem.pte \/ mem'.pte = [mem.pte EXCEPT ![e][va] = Unmapped]
  BY <1>1, <1>2, <1>3, PageRemoveEntries
<1> QED
  BY <1>3, <1>4, <1>5 DEF e

\* sys_ipc_try_send maps in the receiver, if anywhere.
LEMMA SendFrame ==
  ASSUME KernelInv, NEW envid \in EnvIds, NEW srcva \in VA \cup {UTOP},
         NEW perm \in Perms, SysIpcTrySend(envid, srcva, perm)
  PROVE  /\ mem' \in Memory /\ mem'.env_pgdir = mem.env_pgdir
         /\ \A f \in Envs : f # envid2env(envid, FALSE) => mem'.pte[f] = mem.pte[f]
<1> DEFINE e == envid2env(envid, FALSE)
           va == env_ipc_dstva[e]
           pg == PageLookup(mem, curenv, srcva)
<1>1. /\ curenv \in Envs /\ e \in Envs
      /\ mem \in Memory /\ mem.pte \in [Envs -> [VA -> PTE]]
      /\ va \in VA \cup {UTOP}
  BY Envid2envType, MemoryFields DEF SysIpcTrySend, Running, KernelInv, TypeOK
<1>2. /\ srcva # UTOP => CanPass(curenv, srcva, perm)
      /\ SendPage(e, srcva, perm)
  BY DEF SysIpcTrySend
<1>3. CASE srcva = UTOP \/ va = UTOP
  BY <1>1, <1>2, <1>3 DEF SendPage
<1>4. CASE srcva # UTOP /\ va # UTOP
  <2>1. pg \in Pages /\ va \in VA /\ perm \in SUBSET Flags
    BY <1>1, <1>2, <1>4, PageLookupType, PermsAssumption DEF CanPass
  <2>2. CanWalk(mem, e, va) /\ mem' = PageInsert(mem, e, pg, va, perm)
    BY <1>2, <1>4 DEF SendPage
  <2> HIDE DEF e, va, pg
  <2>3. mem' \in Memory /\ mem'.env_pgdir = mem.env_pgdir
    BY <1>1, <2>1, <2>2, PageInsertType, PageInsertFrame
  <2>4. mem'.pte = [mem.pte EXCEPT ![e][va] = [page |-> pg, perm |-> perm \cup {"P"}]]
    BY <1>1, <2>1, <2>2, PageInsertEntries
  <2> QED
    BY <1>1, <2>3, <2>4 DEF e
<1> QED
  BY <1>3, <1>4

\* sys_yield and the clock interrupt.
LEMMA YieldStep ==
  ASSUME KernelInv, Yield
  PROVE  KernelInv'
<1>1. /\ curenv \in Envs
      /\ env_status \in [Envs -> Statuses]
      /\ \A e \in Envs : env_status[e] = "ENV_RUNNING" => e = curenv
      /\ UNCHANGED slotVars
      /\ mem' \in Memory /\ mem'.env_pgdir = mem.env_pgdir
      /\ env_ipc_recving' \in [Envs -> BOOLEAN]
      /\ env_ipc_dstva' \in [Envs -> VA \cup {UTOP}]
      /\ SchedYield(env_status, curenv)
  BY DEF Yield, Running, KernelInv, TypeOK, RunningIsCurrent, ipcVars
<1> QED
  BY <1>1, RescheduleStep

\* sys_env_set_status, of the caller or of a child.
LEMMA SetStatusStep ==
  ASSUME KernelInv, NEW envid \in EnvIds, NEW st \in Statuses,
         SysEnvSetStatus(envid, st)
  PROVE  KernelInv'
<1> DEFINE e == envid2env(envid, TRUE)
           status == [env_status EXCEPT ![e] = st]
<1>1. curenv \in Envs /\ e \in Envs /\ env_status[e] # "ENV_FREE"
  BY Envid2envType DEF SysEnvSetStatus, Running, KernelInv, TypeOK
<1>2. /\ st # "ENV_RUNNING"
      /\ Return(status)
      /\ UNCHANGED slotVars
      /\ mem' \in Memory /\ mem'.env_pgdir = mem.env_pgdir
      /\ env_ipc_recving' \in [Envs -> BOOLEAN]
      /\ env_ipc_dstva' \in [Envs -> VA \cup {UTOP}]
  BY DEF SysEnvSetStatus, KernelInv, TypeOK, ipcVars
<1> HIDE DEF e
<1>3. /\ status \in [Envs -> Statuses]
      /\ \A f \in Envs : status[f] = "ENV_RUNNING" => f = curenv
      /\ \A f \in Envs : status[f] # "ENV_FREE" => env_status[f] # "ENV_FREE"
  BY <1>1, <1>2 DEF KernelInv, TypeOK, RunningIsCurrent
<1> HIDE DEF status
<1> QED
  BY <1>1, <1>2, <1>3, RescheduleStep

\* sys_ipc_recv.
LEMMA IpcRecvStep ==
  ASSUME KernelInv, NEW dstva \in VA \cup {UTOP}, SysIpcRecv(dstva)
  PROVE  KernelInv'
<1> DEFINE status == [env_status EXCEPT ![curenv] = "ENV_NOT_RUNNABLE"]
<1>1. /\ curenv \in Envs
      /\ env_status[curenv] = "ENV_RUNNING"
      /\ SchedYield(status, curenv)
      /\ UNCHANGED slotVars
      /\ mem' \in Memory /\ mem'.env_pgdir = mem.env_pgdir
      /\ env_ipc_recving' \in [Envs -> BOOLEAN]
      /\ env_ipc_dstva' \in [Envs -> VA \cup {UTOP}]
  BY DEF SysIpcRecv, Running, KernelInv, TypeOK, RunningIsCurrent
<1>2. /\ status \in [Envs -> Statuses]
      /\ \A f \in Envs : status[f] = "ENV_RUNNING" => f = curenv
      /\ \A f \in Envs : status[f] # "ENV_FREE" => env_status[f] # "ENV_FREE"
  BY <1>1 DEF KernelInv, TypeOK, RunningIsCurrent, Statuses
<1> HIDE DEF status
<1> QED
  BY <1>1, <1>2, RescheduleStep

\* sys_ipc_try_send, with or without a page.
LEMMA IpcTrySendStep ==
  ASSUME KernelInv, NEW envid \in EnvIds, NEW srcva \in VA \cup {UTOP},
         NEW perm \in Perms, SysIpcTrySend(envid, srcva, perm)
  PROVE  KernelInv'
<1> DEFINE e == envid2env(envid, FALSE)
           status == [env_status EXCEPT ![e] = "ENV_RUNNABLE"]
<1>1. curenv \in Envs /\ e \in Envs /\ env_status[e] # "ENV_FREE"
  BY Envid2envType DEF SysIpcTrySend, Running, KernelInv, TypeOK
<1>2. /\ Return(status)
      /\ UNCHANGED slotVars
      /\ env_ipc_recving' \in [Envs -> BOOLEAN]
      /\ env_ipc_dstva' \in [Envs -> VA \cup {UTOP}]
  BY DEF SysIpcTrySend, KernelInv, TypeOK
<1> HIDE DEF e
<1>3. /\ status \in [Envs -> Statuses]
      /\ \A f \in Envs : status[f] = "ENV_RUNNING" => f = curenv
      /\ \A f \in Envs : status[f] # "ENV_FREE" => env_status[f] # "ENV_FREE"
  BY <1>1 DEF KernelInv, TypeOK, RunningIsCurrent, Statuses
<1>4. mem' \in Memory /\ mem'.env_pgdir = mem.env_pgdir
  BY SendFrame
<1> HIDE DEF status
<1> QED
  BY <1>1, <1>2, <1>3, <1>4, RescheduleStep

\* sys_env_set_trapframe: the target may die, and so may the kernel.
LEMMA SetTrapframeStep ==
  ASSUME KernelInv, NEW envid \in EnvIds, NEW tf \in VA,
         SysEnvSetTrapframe(envid, tf)
  PROVE  KernelInv'
<1> DEFINE e == envid2env(envid, TRUE)
<1>1. curenv # NULL /\ e \in Envs
  BY Envid2envType DEF SysEnvSetTrapframe, Running
<1>2. CASE EnvDestroy(e)
  BY <1>1, <1>2, EnvDestroyStep
<1>3. CASE /\ mem' = [mem EXCEPT !.panic = "page fault"]
           /\ UNCHANGED <<env_status, curenv, slotVars, ipcVars>>
  <2>1. mem' \in Memory /\ mem'.env_pgdir = mem.env_pgdir
    BY <1>3 DEF Memory, Panics, KernelInv, TypeOK
  <2> QED
    BY <1>3, <2>1, MappingStep
<1> QED
  BY <1>2, <1>3 DEF SysEnvSetTrapframe

\* A panic changes nothing else.
LEMMA PanicStep ==
  ASSUME KernelInv, SysUnknown
  PROVE  KernelInv'
<1>1. mem' \in Memory /\ mem'.env_pgdir = mem.env_pgdir
  BY DEF SysUnknown, Memory, Panics, KernelInv, TypeOK
<1> QED
  BY <1>1, MappingStep DEF SysUnknown

\* Every step of the kernel preserves the invariant.
LEMMA KernelStep ==
  ASSUME KernelInv, [Next]_vars
  PROVE  KernelInv'
<1>1. CASE Yield
  BY <1>1, YieldStep
<1>2. CASE EnvCalls
  <2>1. CASE SysExofork
    BY <2>1, ExoforkStep
  <2>2. CASE Fault
    BY <2>2, EnvDestroyStep DEF Fault, Running, KernelInv, TypeOK
  <2>3. ASSUME NEW envid \in EnvIds, SysEnvDestroy(envid)
        PROVE  KernelInv'
    BY <2>3, Envid2envType, EnvDestroyStep DEF SysEnvDestroy, Running
  <2> QED
    BY <1>2, <2>1, <2>2, <2>3, SetTrapframeStep, SetStatusStep DEF EnvCalls
<1>3. CASE PageCalls
  <2>1. ASSUME NEW envid \in EnvIds, NEW va \in VA, SysPageUnmap(envid, va)
        PROVE  KernelInv'
    <3>1. mem' \in Memory /\ mem'.env_pgdir = mem.env_pgdir
      BY <2>1, PageUnmapFrame
    <3>2. UNCHANGED <<env_status, curenv, slotVars, ipcVars>>
      BY <2>1 DEF SysPageUnmap
    <3> QED
      BY <3>1, <3>2, MappingStep
  <2>2. ASSUME NEW envid \in EnvIds, NEW va \in VA, NEW perm \in Perms,
               SysPageAlloc(envid, va, perm)
        PROVE  KernelInv'
    <3>1. mem' \in Memory /\ mem'.env_pgdir = mem.env_pgdir
      BY <2>2, PageAllocFrame
    <3>2. UNCHANGED <<env_status, curenv, slotVars, ipcVars>>
      BY <2>2 DEF SysPageAlloc
    <3> QED
      BY <3>1, <3>2, MappingStep
  <2>3. ASSUME NEW envid \in EnvIds, NEW va \in VA, NEW perm \in Perms,
               NEW dstenvid \in EnvIds, NEW dstva \in VA,
               SysPageMap(envid, va, dstenvid, dstva, perm)
        PROVE  KernelInv'
    <3>1. mem' \in Memory /\ mem'.env_pgdir = mem.env_pgdir
      BY <2>3, PageMapFrame
    <3>2. UNCHANGED <<env_status, curenv, slotVars, ipcVars>>
      BY <2>3 DEF SysPageMap
    <3> QED
      BY <3>1, <3>2, MappingStep
  <2> QED
    BY <1>3, <2>1, <2>2, <2>3 DEF PageCalls
<1>4. CASE IpcCalls
  BY <1>4, IpcRecvStep, IpcTrySendStep DEF IpcCalls
<1>5. CASE UNCHANGED vars
  <2>1. TypeOK'
    BY <1>5 DEF KernelInv, TypeOK, vars
  <2>2. RunningIsCurrent' /\ ParkedOnlyWhenIdle' /\ LiveHasDirectory'
    BY <1>5 DEF KernelInv, RunningIsCurrent, ParkedOnlyWhenIdle,
                LiveHasDirectory, InUse, vars
  <2> QED
    BY <2>1, <2>2 DEF KernelInv
<1>6. CASE SysUnknown
  BY <1>6, PanicStep
<1> QED
  BY <1>1, <1>2, <1>3, <1>4, <1>5, <1>6 DEF Next

-----------------------------------------------------------------------------
(***************************************************************************)
(* Boot                                                                    *)
(***************************************************************************)

\* Taking one page off the list, or at most one.
LEMMA FreeCount ==
  ASSUME NEW m \in Memory, NEW S, NEW x,
         m.page_free_list \ {x} \subseteq S, S \subseteq Pages
  PROVE  /\ Cardinality(m.page_free_list) \in Nat
         /\ Cardinality(S) \in Nat
         /\ Cardinality(S) >= Cardinality(m.page_free_list) - 1
<1>1. IsFiniteSet(m.page_free_list) /\ IsFiniteSet(S)
  BY PagesAssumption, FS_Subset, MemoryFields
<1>2. /\ IsFiniteSet(m.page_free_list \ {x})
      /\ Cardinality(m.page_free_list \ {x}) >= Cardinality(m.page_free_list) - 1
  <2>1. Cardinality(m.page_free_list) \in Nat
    BY <1>1, FS_CardinalityType
  <2>2. /\ IsFiniteSet(m.page_free_list \ {x})
        /\ Cardinality(m.page_free_list \ {x}) =
             IF x \in m.page_free_list THEN Cardinality(m.page_free_list) - 1
                                       ELSE Cardinality(m.page_free_list)
    BY <1>1, FS_RemoveElement
  <2> QED
    BY <2>1, <2>2
<1>3. Cardinality(m.page_free_list \ {x}) <= Cardinality(S)
  BY <1>1, FS_Subset
<1> QED
  BY <1>1, <1>2, <1>3, FS_CardinalityType

\* A list with a page on it is not empty.
LEMMA CountedIsFree ==
  ASSUME NEW m \in Memory, Cardinality(m.page_free_list) >= 1
  PROVE  HasFree(m)
  BY FS_EmptySet DEF HasFree

\* env_create takes at most three pages.
LEMMA EnvCreateType ==
  ASSUME NEW m \in Memory, NEW e \in Envs, Cardinality(m.page_free_list) >= 3
  PROVE  /\ EnvCreate(m, e) \in Memory
         /\ EnvCreate(m, e).env_pgdir = [m.env_pgdir EXCEPT ![e] = FreePage(m)]
         /\ FreePage(m) # NULL
         /\ Cardinality(EnvCreate(m, e).page_free_list)
              >= Cardinality(m.page_free_list) - 3
         /\ HasFree(m) /\ HasFree(EnvSetupVm(m, e))
         /\ HasFree(PageAlloc(EnvSetupVm(m, e)))
<1> DEFINE s == EnvSetupVm(m, e)
           a == PageAlloc(s)
           r == PageInsert(a, e, FreePage(s), UStack, {"U", "W"})
<1>0. Cardinality(m.page_free_list) \in Nat
  BY FreeCount, MemoryFields
<1>1. HasFree(m) /\ FreePage(m) \in Pages
  BY <1>0, CountedIsFree, FreePageType
<1>2. /\ s \in Memory
      /\ s.env_pgdir = [m.env_pgdir EXCEPT ![e] = FreePage(m)]
      /\ s.page_free_list = m.page_free_list \ {FreePage(m)}
  BY <1>1, EnvSetupVmType
<1>3. /\ Cardinality(s.page_free_list) \in Nat
      /\ Cardinality(s.page_free_list) >= Cardinality(m.page_free_list) - 1
  BY <1>2, FreeCount, MemoryFields
<1> HIDE DEF s
<1>4. HasFree(s) /\ FreePage(s) \in Pages
  <2>1. Cardinality(s.page_free_list) >= 1
    BY <1>0, <1>3
  <2> QED
    BY <1>2, <2>1, CountedIsFree, FreePageType
<1>5. /\ a \in Memory
      /\ a.env_pgdir = s.env_pgdir
      /\ a.page_free_list = s.page_free_list \ {FreePage(s)}
  BY <1>2, <1>4, PageAllocType, PageOpsFrame
<1>6. /\ Cardinality(a.page_free_list) \in Nat
      /\ Cardinality(a.page_free_list) >= Cardinality(s.page_free_list) - 1
  BY <1>2, <1>5, FreeCount, MemoryFields
<1> HIDE DEF a
<1>7. HasFree(a)
  <2>1. Cardinality(a.page_free_list) >= 1
    BY <1>0, <1>3, <1>6
  <2> QED
    BY <1>5, <2>1, CountedIsFree
<1>8. /\ UStack \in VA /\ {"U", "W"} \in SUBSET Flags
      /\ CanWalk(a, e, UStack)
  BY <1>7, UTOPAssumption DEF CanWalk, Flags
<1>9. /\ r \in Memory
      /\ r.env_pgdir = a.env_pgdir
      /\ a.page_free_list \ {FreePage(a)} \subseteq r.page_free_list
  BY <1>4, <1>5, <1>8, PageInsertType, PageInsertFrame
<1>10. /\ Cardinality(r.page_free_list) \in Nat
       /\ Cardinality(r.page_free_list) >= Cardinality(a.page_free_list) - 1
  BY <1>5, <1>9, FreeCount, MemoryFields
<1>11. EnvCreate(m, e) = r
  BY DEF EnvCreate, RegionAlloc, s, a
<1>12. HasFree(EnvSetupVm(m, e)) /\ HasFree(PageAlloc(EnvSetupVm(m, e)))
  BY <1>4, <1>7 DEF s, a
<1> HIDE DEF r
<1> QED
  BY <1>0, <1>1, <1>2, <1>3, <1>5, <1>6, <1>9, <1>10, <1>11, <1>12, NULLAssumption

\* The state the first environment runs in.
LEMMA KernelInit ==
  ASSUME Init
  PROVE  KernelInv /\ \A e \in Envs \ {0, 1} : ~InUse(e)
<1> DEFINE m0 == PageInit
           m1 == EnvCreate(m0, 0)
           m2 == EnvCreate(m1, 1)
<1>1. 0 \in Envs /\ 1 \in Envs
  BY NENVAssumption DEF Envs
<1>2. /\ m0 \in Memory
      /\ m0.page_free_list = Pages
      /\ \A e \in Envs : m0.env_pgdir[e] = NULL
      /\ Cardinality(Pages) \in Nat
      /\ Cardinality(Pages) >= 6
  BY PageInitType, PagesAssumption, FS_CardinalityType DEF PageInit
<1> HIDE DEF m0
<1>3. /\ m1 \in Memory
      /\ m1.env_pgdir[0] # NULL
      /\ \A e \in Envs \ {0} : m1.env_pgdir[e] = NULL
      /\ Cardinality(m1.page_free_list) \in Nat
      /\ Cardinality(m1.page_free_list) >= 3
  <2>1. /\ m1 \in Memory
        /\ m1.env_pgdir = [m0.env_pgdir EXCEPT ![0] = FreePage(m0)]
        /\ FreePage(m0) # NULL
        /\ Cardinality(m1.page_free_list) >= Cardinality(m0.page_free_list) - 3
    BY <1>1, <1>2, EnvCreateType
  <2> HIDE DEF m1
  <2>2. Cardinality(m1.page_free_list) \in Nat
    BY <2>1, FreeCount, MemoryFields
  <2>3. m0.env_pgdir \in [Envs -> Pages \cup {NULL}]
    BY <1>2, MemoryFields
  <2> QED
    BY <1>1, <1>2, <2>1, <2>2, <2>3
<1> HIDE DEF m1
<1>4. /\ m2 \in Memory
      /\ m2.env_pgdir[0] # NULL
      /\ m2.env_pgdir[1] # NULL
      /\ \A e \in Envs \ {0, 1} : m2.env_pgdir[e] = NULL
  <2>1. /\ m2 \in Memory
        /\ m2.env_pgdir = [m1.env_pgdir EXCEPT ![1] = FreePage(m1)]
        /\ FreePage(m1) # NULL
    BY <1>1, <1>3, EnvCreateType
  <2>2. m1.env_pgdir \in [Envs -> Pages \cup {NULL}]
    BY <1>3, MemoryFields
  <2> HIDE DEF m2
  <2> QED
    BY <1>1, <1>3, <2>1, <2>2
<1>5. mem = m2
  BY DEF Init, m0, m1
<1> HIDE DEF m2
<1>6. TypeOK
  <2>1. /\ env_status \in [Envs -> Statuses]
        /\ curenv \in Envs \cup {NULL}
        /\ clobbered \in BOOLEAN
        /\ orphans \subseteq Envs
    BY <1>1 DEF Init, Statuses
  <2>2. env_id \in [Envs -> Ids] /\ env_parent_id \in [Envs -> Ids]
    BY <1>1, GenMaxAssumption DEF Init, Ids
  <2>3. env_link \in [Envs -> Envs] /\ env_free_list \in Envs
    BY NENVAssumption DEF Init, Envs
  <2>4. /\ env_ipc_recving \in [Envs -> BOOLEAN]
        /\ env_ipc_dstva \in [Envs -> VA \cup {UTOP}]
    BY DEF Init
  <2> QED
    BY <1>4, <1>5, <2>1, <2>2, <2>3, <2>4 DEF TypeOK
<1>7. RunningIsCurrent /\ ParkedOnlyWhenIdle
  BY <1>1, NULLAssumption DEF Init, RunningIsCurrent, ParkedOnlyWhenIdle
<1>8. LiveHasDirectory
  <2> SUFFICES ASSUME NEW e \in Envs, env_status[e] # "ENV_FREE"
               PROVE  mem.env_pgdir[e] # NULL
    BY DEF LiveHasDirectory, InUse
  <2>1. e = 0 \/ e = 1
    BY DEF Init
  <2> QED
    BY <1>4, <1>5, <2>1
<1>9. \A e \in Envs \ {0, 1} : ~InUse(e)
  BY <1>4, <1>5 DEF InUse
<1> QED
  BY <1>6, <1>7, <1>8, <1>9 DEF KernelInv

-----------------------------------------------------------------------------
(***************************************************************************)
(* Theorems                                                                *)
(***************************************************************************)

\* The invariant holds in every reachable state, whatever the number of slots,
\* pages and addresses, and however small the counters.
THEOREM KernelInvariant == Spec => []KernelInv
<1>1. Init => KernelInv
  BY KernelInit
<1>2. KernelInv /\ [Next]_vars => KernelInv'
  BY KernelStep
<1> QED
  BY <1>1, <1>2, PTL DEF Spec

\* The variables keep their types: every counter, id, mapping and list entry
\* the kernel computes is one.
THEOREM TypeCorrect == Spec => []TypeOK
<1>1. KernelInv => TypeOK
  BY DEF KernelInv
<1> QED
  BY <1>1, KernelInvariant, PTL

\* One environment is marked running, and it is the one on the CPU; the CPU is
\* parked only when no environment could run.
THEOREM SchedulerCorrect == Spec => []SchedulerConsistent
<1>1. KernelInv => SchedulerConsistent
  BY DEF KernelInv, SchedulerConsistent
<1> QED
  BY <1>1, KernelInvariant, PTL

\* Only free slots are without a page directory, so the scheduler never
\* switches to an address space that is gone.
THEOREM DirectoryCorrect == Spec => []LiveHasDirectory
<1>1. KernelInv => LiveHasDirectory
  BY DEF KernelInv
<1> QED
  BY <1>1, KernelInvariant, PTL

-----------------------------------------------------------------------------
(***************************************************************************)
(* Environments whose creator is gone: an id that once named the creator   *)
(* never passes the check of envid2env again, whoever sits in the          *)
(* creator's slot.                                                         *)
(***************************************************************************)

\* Generations have not come round to a value used before: no slot has seen
\* 2^19 environments.
GenerationsFit == \A e \in Envs : env_id[e][1] < GenMax

\* Ids name their slot, and the id an orphan knows its creator by is older than
\* that of any environment now in the creator's slot.
OrphanInv ==
  ~clobbered =>
    /\ \A e \in Envs : InUse(e) => env_id[e][2] = e
    /\ \A e \in orphans :
         /\ InUse(e)
         /\ env_parent_id[e][1] <= env_id[env_parent_id[e][2]][1]
         /\ InUse(env_parent_id[e][2])
              => env_parent_id[e][1] < env_id[env_parent_id[e][2]][1]

\* An id is a pair of a generation and a slot.
LEMMA IdType ==
  ASSUME NEW id \in Ids
  PROVE  id[1] \in Nat /\ id[2] \in Envs
  BY GenMaxAssumption DEF Ids

\* envid2env with the permission check names no orphan but the caller.
LEMMA OrphanOutOfReach ==
  ASSUME KernelInv, OrphanInv, ~clobbered, curenv # NULL,
         NEW e \in orphans, e # curenv, NEW envid \in EnvIds
  PROVE  envid2env(envid, TRUE) # e
<1> DEFINE id == env_id[curenv]
<1> SUFFICES ASSUME envid2env(envid, TRUE) = e
             PROVE  FALSE
  OBVIOUS
<1>1. curenv \in Envs /\ e \in Envs /\ e # NULL
  BY NULLAssumption DEF KernelInv, TypeOK
<1>2. InUse(curenv)
  BY <1>1 DEF KernelInv, RunningIsCurrent, LiveHasDirectory
<1>3. id[2] = curenv /\ id \in Ids
  BY <1>1, <1>2 DEF OrphanInv, KernelInv, TypeOK
<1>4. env_parent_id[e] = id
  BY <1>1 DEF envid2env
<1>5. id[1] < env_id[id[2]][1]
  BY <1>2, <1>3, <1>4 DEF OrphanInv
<1> HIDE DEF id
<1>6. id[1] \in Nat /\ env_id[id[2]] = id
  BY <1>3, IdType DEF id
<1> QED
  BY <1>5, <1>6

\* Rescheduling starts environments and stops the one that ran, no other.
LEMMA SchedYieldStatus ==
  ASSUME NEW status \in [Envs -> Statuses], NEW cur \in Envs \cup {NULL},
         \A e \in Envs : status[e] = "ENV_RUNNING" => e = cur,
         SchedYield(status, cur), NEW f \in Envs, f # cur
  PROVE  \/ env_status'[f] = status[f]
         \/ status[f] = "ENV_RUNNABLE" /\ env_status'[f] = "ENV_RUNNING"
<1> DEFINE n == NextToRun(status, cur)
<1>1. EnvRun(status, cur, n)
  BY DEF SchedYield
<1>2. n = f => status[f] = "ENV_RUNNABLE"
  <2> SUFFICES ASSUME n = f
               PROVE  status[f] = "ENV_RUNNABLE"
    OBVIOUS
  <2>1. f \in Candidates(status, cur)
    BY NextToRunType, NULLAssumption
  <2> QED
    BY <2>1 DEF Candidates
<1> HIDE DEF n
<1> QED
  BY <1>1, <1>2 DEF EnvRun

\* So does the end of trap().
LEMMA ReturnStatus ==
  ASSUME NEW status \in [Envs -> Statuses], curenv \in Envs,
         \A e \in Envs : status[e] = "ENV_RUNNING" => e = curenv,
         Return(status), NEW f \in Envs, f # curenv
  PROVE  \/ env_status'[f] = status[f]
         \/ status[f] = "ENV_RUNNABLE" /\ env_status'[f] = "ENV_RUNNING"
  BY SchedYieldStatus DEF Return

\* A step that moves no directory and creates no environment keeps the
\* invariant.
LEMMA SameSlotsStep ==
  ASSUME OrphanInv, UNCHANGED slotVars, mem'.env_pgdir = mem.env_pgdir
  PROVE  OrphanInv'
  BY DEF OrphanInv, slotVars, InUse

\* What TypeOK says of the ids.
LEMMA OrphanTypes ==
  ASSUME KernelInv
  PROVE  /\ orphans \subseteq Envs
         /\ \A e \in Envs : /\ env_id[e][1] \in Nat
                            /\ env_parent_id[e][1] \in Nat /\ env_parent_id[e][2] \in Envs
         /\ mem.env_pgdir \in [Envs -> Pages \cup {NULL}]
<1>1. env_id \in [Envs -> Ids] /\ env_parent_id \in [Envs -> Ids] /\ orphans \subseteq Envs
  BY DEF KernelInv, TypeOK
<1>2. mem.env_pgdir \in [Envs -> Pages \cup {NULL}]
  BY MemoryFields DEF KernelInv, TypeOK
<1> QED
  BY <1>1, <1>2, IdType

\* env_destroy: the children of the environment become orphans, with its id.
LEMMA DestroyOrphans ==
  ASSUME KernelInv, OrphanInv, curenv # NULL,
         NEW t \in Envs, env_status[t] # "ENV_FREE", EnvDestroy(t),
         ~clobbered => t \notin orphans \ {curenv}
  PROVE  OrphanInv' /\ OrphansStay
<1> DEFINE status == [env_status EXCEPT ![t] = "ENV_FREE"]
<1>1. /\ mem \in Memory /\ mem' = FreeVm(mem, t)
      /\ orphans' = (orphans \cup Children(t)) \ {t}
      /\ UNCHANGED <<env_id, env_parent_id, clobbered>>
      /\ InUse(t)
  BY DEF EnvDestroy, KernelInv, TypeOK, LiveHasDirectory
<1>2. mem'.env_pgdir = [mem.env_pgdir EXCEPT ![t] = NULL]
  BY <1>1, FreeVmType
<1>3. OrphanInv'
  <2> SUFFICES ASSUME ~clobbered
               PROVE  /\ \A e \in Envs : mem'.env_pgdir[e] # NULL => env_id[e][2] = e
                      /\ \A e \in orphans' :
                           LET q == env_parent_id[e]
                           IN  /\ mem'.env_pgdir[e] # NULL
                               /\ q[1] <= env_id[q[2]][1]
                               /\ mem'.env_pgdir[q[2]] # NULL => q[1] < env_id[q[2]][1]
    BY <1>1 DEF OrphanInv, InUse
  <2>1. \A e \in Envs : mem'.env_pgdir[e] # NULL => e # t /\ InUse(e)
    BY <1>2, OrphanTypes DEF InUse
  <2>2. \A e \in Envs : mem'.env_pgdir[e] # NULL => env_id[e][2] = e
    BY <2>1 DEF OrphanInv
  <2>3. ASSUME NEW e \in orphans'
        PROVE  LET q == env_parent_id[e]
               IN  /\ mem'.env_pgdir[e] # NULL
                   /\ q[1] <= env_id[q[2]][1]
                   /\ mem'.env_pgdir[q[2]] # NULL => q[1] < env_id[q[2]][1]
    <3> DEFINE q == env_parent_id[e]
    <3>1. e \in Envs /\ e # t /\ InUse(e)
      BY <1>1, OrphanTypes DEF Children, OrphanInv
    <3>2. mem'.env_pgdir[e] # NULL
      BY <1>2, <3>1, OrphanTypes DEF InUse
    <3>3. CASE e \in orphans
      BY <2>1, <3>1, <3>2, <3>3, OrphanTypes DEF OrphanInv
    <3>4. CASE e \in Children(t)
      <4>1. q = env_id[t] /\ q[2] = t
        BY <1>1, <3>4 DEF Children, OrphanInv
      <4>2. q[1] \in Nat
        BY <3>1, OrphanTypes
      <4> HIDE DEF q
      <4> QED
        BY <2>1, <3>2, <4>1, <4>2 DEF q
    <3> QED
      BY <1>1, <3>3, <3>4
  <2> QED
    BY <2>2, <2>3
<1>4. OrphansStay
  <2> SUFFICES ASSUME NEW e \in orphans, e # curenv, ~clobbered
               PROVE  /\ mem'.pte[e] = mem.pte[e]
                      /\ \/ env_status'[e] = env_status[e]
                         \/ env_status[e] = "ENV_RUNNABLE" /\ env_status'[e] = "ENV_RUNNING"
    BY <1>1 DEF OrphansStay
  <2>1. e # t /\ e \in Envs
    BY OrphanTypes
  <2>2. mem'.pte[e] = mem.pte[e]
    BY <1>1, <2>1, FreeVmEntries
  <2>3. /\ curenv \in Envs /\ e # NULL
        /\ status \in [Envs -> Statuses] /\ status[e] = env_status[e]
        /\ \A f \in Envs : status[f] = "ENV_RUNNING" => f = curenv /\ f # t
    BY <2>1, NULLAssumption DEF KernelInv, TypeOK, RunningIsCurrent, Statuses
  <2>4. IF t = curenv THEN SchedYield(status, NULL) ELSE Return(status)
    BY DEF EnvDestroy
  <2> HIDE DEF status
  <2>5. CASE t = curenv
    <3>1. \A f \in Envs : status[f] = "ENV_RUNNING" => f = NULL
      BY <2>3, <2>5
    <3> QED
      BY <2>1, <2>2, <2>3, <2>4, <2>5, <3>1, SchedYieldStatus
  <2>6. CASE t # curenv
    BY <2>1, <2>2, <2>3, <2>4, <2>6, ReturnStatus
  <2> QED
    BY <2>5, <2>6
<1> QED
  BY <1>3, <1>4

\* sys_exofork in a slot that is not in use: its generation goes up.
LEMMA ForkOrphans ==
  ASSUME KernelInv, OrphanInv, GenerationsFit, SysExofork
  PROVE  OrphanInv' /\ OrphansStay
<1> DEFINE t == env_free_list
           status == [env_status EXCEPT ![t] = "ENV_NOT_RUNNABLE"]
<1>1. /\ curenv \in Envs /\ t \in Envs
      /\ mem \in Memory /\ HasFree(mem) /\ mem' = EnvSetupVm(mem, t)
      /\ clobbered' = (clobbered \/ InUse(t))
      /\ orphans' = (orphans \cup (IF InUse(t) THEN Children(t) ELSE {})) \ {t}
      /\ env_parent_id' = [env_parent_id EXCEPT ![t] = env_id[curenv]]
      /\ env_id' = [env_id EXCEPT ![t] = <<NextGeneration(env_id[t][1]), t>>]
      /\ env_id \in [Envs -> Ids] /\ env_parent_id \in [Envs -> Ids]
      /\ Return(status)
  BY DEF SysExofork, Running, EnvAlloc, KernelInv, TypeOK
<1> HIDE DEF t
<1>2. mem'.env_pgdir = [mem.env_pgdir EXCEPT ![t] = FreePage(mem)]
  BY <1>1, EnvSetupVmType
<1>3. env_id'[t] = <<env_id[t][1] + 1, t>>
  <2>1. NextGeneration(env_id[t][1]) = env_id[t][1] + 1
    BY <1>1, OrphanTypes, GenMaxAssumption DEF NextGeneration, GenerationsFit
  <2> QED
    BY <1>1, <2>1
<1>4. ~clobbered' => ~clobbered /\ ~InUse(t) /\ orphans' = orphans /\ t \notin orphans
  BY <1>1 DEF OrphanInv
<1>5. OrphanInv'
  <2> SUFFICES ASSUME ~clobbered'
               PROVE  /\ \A e \in Envs : mem'.env_pgdir[e] # NULL => env_id'[e][2] = e
                      /\ \A e \in orphans :
                           LET q == env_parent_id'[e]
                           IN  /\ mem'.env_pgdir[e] # NULL
                               /\ q[1] <= env_id'[q[2]][1]
                               /\ mem'.env_pgdir[q[2]] # NULL => q[1] < env_id'[q[2]][1]
    BY <1>4 DEF OrphanInv, InUse
  <2>1. ASSUME NEW e \in Envs, mem'.env_pgdir[e] # NULL
        PROVE  env_id'[e][2] = e
    <3>1. CASE e = t
      BY <1>3, <3>1
    <3>2. CASE e # t
      BY <1>1, <1>2, <1>4, <2>1, <3>2, OrphanTypes DEF OrphanInv, InUse
    <3> QED
      BY <3>1, <3>2
  <2>2. ASSUME NEW e \in orphans
        PROVE  LET q == env_parent_id'[e]
               IN  /\ mem'.env_pgdir[e] # NULL
                   /\ q[1] <= env_id'[q[2]][1]
                   /\ mem'.env_pgdir[q[2]] # NULL => q[1] < env_id'[q[2]][1]
    <3> DEFINE q == env_parent_id'[e]
    <3>1. e \in Envs /\ e # t /\ InUse(e)
      BY <1>4, OrphanTypes DEF OrphanInv
    <3>2. q = env_parent_id[e]
      BY <1>1, <3>1
    <3>3. mem'.env_pgdir[e] # NULL
      BY <1>2, <3>1, OrphanTypes DEF InUse
    <3>4. /\ q[1] \in Nat /\ q[2] \in Envs
          /\ env_id[q[2]][1] \in Nat
          /\ q[1] <= env_id[q[2]][1]
          /\ InUse(q[2]) => q[1] < env_id[q[2]][1]
      BY <1>4, <3>1, <3>2, OrphanTypes DEF OrphanInv
    <3> HIDE DEF q
    <3>5. CASE q[2] = t
      BY <1>3, <3>3, <3>4, <3>5 DEF q
    <3>6. CASE q[2] # t
      <4>1. env_id'[q[2]] = env_id[q[2]]
        BY <1>1, <3>4, <3>6
      <4>2. mem'.env_pgdir[q[2]] = mem.env_pgdir[q[2]]
        BY <1>2, <3>4, <3>6, OrphanTypes
      <4> QED
        BY <3>3, <3>4, <4>1, <4>2 DEF InUse, q
    <3> QED
      BY <3>5, <3>6
  <2> QED
    BY <2>1, <2>2
<1>6. OrphansStay
  <2> SUFFICES ASSUME NEW e \in orphans, e # curenv, ~clobbered'
               PROVE  /\ mem'.pte[e] = mem.pte[e]
                      /\ \/ env_status'[e] = env_status[e]
                         \/ env_status[e] = "ENV_RUNNABLE" /\ env_status'[e] = "ENV_RUNNING"
    BY DEF OrphansStay
  <2>1. e # t /\ e \in Envs
    BY <1>4, OrphanTypes
  <2>2. mem'.pte[e] = mem.pte[e]
    BY <1>1, <2>1, SetupEntries
  <2>3. /\ status \in [Envs -> Statuses] /\ status[e] = env_status[e]
        /\ \A f \in Envs : status[f] = "ENV_RUNNING" => f = curenv
    BY <2>1 DEF KernelInv, TypeOK, RunningIsCurrent, Statuses
  <2> HIDE DEF status
  <2> QED
    BY <1>1, <2>1, <2>2, <2>3, ReturnStatus
<1> QED
  BY <1>5, <1>6

\* A call on the mappings of one environment.
LEMMA PageCallOrphans ==
  ASSUME KernelInv, OrphanInv, curenv # NULL, NEW envid \in EnvIds,
         mem'.env_pgdir = mem.env_pgdir, UNCHANGED <<slotVars, env_status>>,
         \A f \in Envs : f # envid2env(envid, TRUE) => mem'.pte[f] = mem.pte[f]
  PROVE  OrphanInv' /\ OrphansStay
<1>1. OrphansStay
  <2> SUFFICES ASSUME NEW e \in orphans, e # curenv, ~clobbered
               PROVE  mem'.pte[e] = mem.pte[e] /\ env_status'[e] = env_status[e]
    BY DEF OrphansStay, slotVars
  <2> QED
    BY OrphanOutOfReach, OrphanTypes
<1> QED
  BY <1>1, SameSlotsStep

\* A call that reschedules, after giving one environment a new status.
LEMMA StatusCallOrphans ==
  ASSUME KernelInv, OrphanInv, curenv # NULL, NEW t \in Envs,
         mem'.env_pgdir = mem.env_pgdir, UNCHANGED slotVars,
         \A f \in Envs : f # t => mem'.pte[f] = mem.pte[f],
         NEW st \in Statuses, st # "ENV_RUNNING",
         LET status == [env_status EXCEPT ![t] = st]
         IN  SchedYield(status, curenv) \/ Return(status),
         \/ ~clobbered => t \notin orphans \ {curenv}
         \/ env_ipc_recving[t] /\ st = "ENV_RUNNABLE"
  PROVE  OrphanInv' /\ OrphansStay
<1> DEFINE status == [env_status EXCEPT ![t] = st]
<1>1. OrphansStay
  <2> SUFFICES ASSUME NEW e \in orphans, e # curenv, ~clobbered
               PROVE  /\ env_ipc_recving[e] \/ mem'.pte[e] = mem.pte[e]
                      /\ \/ env_status'[e] = env_status[e]
                         \/ env_status[e] = "ENV_RUNNABLE" /\ env_status'[e] = "ENV_RUNNING"
                         \/ env_ipc_recving[e] /\ env_status'[e] \in {"ENV_RUNNABLE", "ENV_RUNNING"}
    BY DEF OrphansStay, slotVars
  <2>1. /\ e \in Envs /\ curenv \in Envs
        /\ status \in [Envs -> Statuses]
        /\ \A f \in Envs : status[f] = "ENV_RUNNING" => f = curenv
        /\ status[e] = IF e = t THEN st ELSE env_status[e]
    BY OrphanTypes DEF KernelInv, TypeOK, RunningIsCurrent
  <2>2. SchedYield(status, curenv) \/ Return(status)
    OBVIOUS
  <2> HIDE DEF status
  <2>3. \/ env_status'[e] = status[e]
        \/ status[e] = "ENV_RUNNABLE" /\ env_status'[e] = "ENV_RUNNING"
    BY <2>1, <2>2, SchedYieldStatus, ReturnStatus
  <2>4. CASE e = t
    BY <2>1, <2>3, <2>4
  <2>5. CASE e # t
    BY <2>1, <2>3, <2>5
  <2> QED
    BY <2>4, <2>5
<1> QED
  BY <1>1, SameSlotsStep

\* Every step keeps the invariant and leaves the orphans alone.
LEMMA OrphanStep ==
  ASSUME KernelInv, OrphanInv, GenerationsFit, [Next]_vars
  PROVE  OrphanInv' /\ (OrphansStay \/ UNCHANGED vars)
<1>1. CASE Yield
  <2>1. /\ curenv \in Envs /\ UNCHANGED <<mem, slotVars>>
        /\ env_status \in [Envs -> Statuses]
        /\ \A f \in Envs : env_status[f] = "ENV_RUNNING" => f = curenv
        /\ SchedYield(env_status, curenv)
    BY <1>1 DEF Yield, Running, KernelInv, TypeOK, RunningIsCurrent
  <2>2. OrphansStay
    <3> SUFFICES ASSUME NEW e \in orphans, e # curenv
                 PROVE  \/ env_status'[e] = env_status[e]
                        \/ env_status[e] = "ENV_RUNNABLE" /\ env_status'[e] = "ENV_RUNNING"
      BY <2>1 DEF OrphansStay
    <3> QED
      BY <2>1, SchedYieldStatus, OrphanTypes
  <2> QED
    BY <2>1, <2>2, SameSlotsStep
<1>2. CASE EnvCalls
  <2>1. CASE SysExofork
    BY <2>1, ForkOrphans
  <2>2. CASE Fault
    BY <2>2, DestroyOrphans DEF Fault, Running, KernelInv, TypeOK, RunningIsCurrent
  <2>3. ASSUME NEW envid \in EnvIds, curenv # NULL, envid2env(envid, TRUE) # NULL,
               EnvDestroy(envid2env(envid, TRUE))
        PROVE  OrphanInv' /\ OrphansStay
    <3>1. /\ envid2env(envid, TRUE) \in Envs
          /\ env_status[envid2env(envid, TRUE)] # "ENV_FREE"
      BY <2>3, Envid2envType
    <3>2. ~clobbered => envid2env(envid, TRUE) \notin orphans \ {curenv}
      BY <2>3, OrphanOutOfReach
    <3> QED
      BY <2>3, <3>1, <3>2, DestroyOrphans
  <2>4. ASSUME NEW envid \in EnvIds, NEW tf \in VA, SysEnvSetTrapframe(envid, tf)
        PROVE  OrphanInv' /\ OrphansStay
    <3>1. CASE EnvDestroy(envid2env(envid, TRUE))
      BY <2>3, <2>4, <3>1 DEF SysEnvSetTrapframe, Running
    <3>2. CASE /\ mem' = [mem EXCEPT !.panic = "page fault"]
               /\ UNCHANGED <<env_status, slotVars>>
      <4>1. mem'.env_pgdir = mem.env_pgdir /\ mem'.pte = mem.pte
        BY <3>2 DEF KernelInv, TypeOK, Memory
      <4> QED
        BY <2>4, <3>2, <4>1, PageCallOrphans DEF SysEnvSetTrapframe, Running
    <3> QED
      BY <2>4, <3>1, <3>2 DEF SysEnvSetTrapframe
  <2>5. ASSUME NEW envid \in EnvIds, NEW st \in Statuses, SysEnvSetStatus(envid, st)
        PROVE  OrphanInv' /\ OrphansStay
    <3> DEFINE t == envid2env(envid, TRUE)
    <3>1. t \in Envs /\ (~clobbered => t \notin orphans \ {curenv})
      BY <2>5, Envid2envType, OrphanOutOfReach DEF SysEnvSetStatus, Running
    <3>2. /\ curenv # NULL /\ UNCHANGED <<mem, slotVars>> /\ st # "ENV_RUNNING"
          /\ Return([env_status EXCEPT ![t] = st])
      BY <2>5 DEF SysEnvSetStatus, Running
    <3> HIDE DEF t
    <3> QED
      BY <3>1, <3>2, StatusCallOrphans
  <2> QED
    BY <1>2, <2>1, <2>2, <2>3, <2>4, <2>5 DEF EnvCalls, SysEnvDestroy, Running
<1>3. CASE PageCalls
  <2>1. ASSUME NEW envid \in EnvIds, NEW va \in VA, NEW perm \in Perms,
               SysPageAlloc(envid, va, perm)
        PROVE  OrphanInv' /\ OrphansStay
    BY <2>1, PageAllocFrame, PageCallOrphans DEF SysPageAlloc, Running
  <2>2. ASSUME NEW envid \in EnvIds, NEW va \in VA, NEW perm \in Perms,
               NEW dstenvid \in EnvIds, NEW dstva \in VA,
               SysPageMap(envid, va, dstenvid, dstva, perm)
        PROVE  OrphanInv' /\ OrphansStay
    BY <2>2, PageMapFrame, PageCallOrphans DEF SysPageMap, Running
  <2>3. ASSUME NEW envid \in EnvIds, NEW va \in VA, SysPageUnmap(envid, va)
        PROVE  OrphanInv' /\ OrphansStay
    BY <2>3, PageUnmapFrame, PageCallOrphans DEF SysPageUnmap, Running
  <2> QED
    BY <1>3, <2>1, <2>2, <2>3 DEF PageCalls
<1>4. CASE IpcCalls
  <2>1. ASSUME NEW dstva \in VA \cup {UTOP}, SysIpcRecv(dstva)
        PROVE  OrphanInv' /\ OrphansStay
    <3>1. /\ curenv \in Envs /\ UNCHANGED <<mem, slotVars>>
          /\ curenv # NULL /\ curenv \notin orphans \ {curenv}
          /\ "ENV_NOT_RUNNABLE" \in Statuses
          /\ SchedYield([env_status EXCEPT ![curenv] = "ENV_NOT_RUNNABLE"], curenv)
      BY <2>1 DEF SysIpcRecv, Running, KernelInv, TypeOK, Statuses
    <3> QED
      BY <3>1, StatusCallOrphans
  <2>2. ASSUME NEW envid \in EnvIds, NEW srcva \in VA \cup {UTOP}, NEW perm \in Perms,
               SysIpcTrySend(envid, srcva, perm)
        PROVE  OrphanInv' /\ OrphansStay
    <3> DEFINE t == envid2env(envid, FALSE)
    <3>1. t \in Envs /\ curenv # NULL
      BY <2>2, Envid2envType DEF SysIpcTrySend, Running
    <3>2. /\ UNCHANGED slotVars /\ env_ipc_recving[t]
          /\ "ENV_RUNNABLE" \in Statuses
          /\ Return([env_status EXCEPT ![t] = "ENV_RUNNABLE"])
      BY <2>2 DEF SysIpcTrySend, Statuses
    <3>3. /\ mem'.env_pgdir = mem.env_pgdir
          /\ \A f \in Envs : f # t => mem'.pte[f] = mem.pte[f]
      BY <2>2, SendFrame
    <3> HIDE DEF t
    <3> QED
      BY <3>1, <3>2, <3>3, StatusCallOrphans
  <2> QED
    BY <1>4, <2>1, <2>2 DEF IpcCalls
<1>5. CASE UNCHANGED vars
  BY <1>5, SameSlotsStep DEF vars, slotVars
<1>6. CASE SysUnknown
  <2>1. mem'.env_pgdir = mem.env_pgdir /\ mem'.pte = mem.pte
    BY <1>6 DEF SysUnknown, KernelInv, TypeOK, Memory
  <2> QED
    BY <1>6, <2>1, PageCallOrphans DEF SysUnknown, Running, EnvIds
<1> QED
  BY <1>1, <1>2, <1>3, <1>4, <1>5, <1>6 DEF Next

\* There are no orphans at boot, and the ids handed out then name their slots.
LEMMA OrphanInit ==
  ASSUME Init
  PROVE  OrphanInv
<1>1. \A e \in Envs : InUse(e) => e \in {0, 1}
  BY KernelInit
<1>2. \A e \in Envs : e \in {0, 1} => env_id[e] = <<1, e>>
  BY DEF Init
<1>3. orphans = {}
  BY DEF Init
<1> QED
  BY <1>1, <1>2, <1>3 DEF OrphanInv

\* As long as no slot has gone through all its generations, an environment
\* whose creator is gone is changed, stopped and destroyed by nobody else; its
\* mappings change only by a message it waits for.
THEOREM OrphansStaySafe == Spec /\ []GenerationsFit => OrphansAreSafe
<1>1. Init => KernelInv /\ OrphanInv
  BY KernelInit, OrphanInit
<1>2. KernelInv /\ OrphanInv /\ GenerationsFit /\ [Next]_vars => (KernelInv /\ OrphanInv)'
  BY KernelStep, OrphanStep
<1>3. KernelInv /\ OrphanInv /\ GenerationsFit /\ [Next]_vars => [OrphansStay]_vars
  BY OrphanStep
<1> QED
  BY <1>1, <1>2, <1>3, PTL DEF Spec, OrphansAreSafe

-----------------------------------------------------------------------------
(***************************************************************************)
(* The list of free slots: a walk along env_link from env_free_list passes *)
(* every slot that is not in use before any other.                         *)
(***************************************************************************)

\* Counting from 0 up to n reaches every number.
LEMMA CountsUpTo ==
  ASSUME NEW n \in Nat, NEW Q, 0 \in Q, \A k \in 1 .. n : k - 1 \in Q => k \in Q
  PROVE  \A k \in 0 .. n : k \in Q
<1> DEFINE Out == {k \in 0 .. n : k \notin Q}
<1> SUFFICES ASSUME Out # {}
             PROVE  FALSE
  OBVIOUS
<1>1. PICK k \in Out : \A x \in Out : k <= x
  <2>1. Out \subseteq Nat
    OBVIOUS
  <2> HIDE DEF Out
  <2> QED
    BY <2>1, LeastNumber
<1>2. k \in 1 .. n /\ k \notin Q
  BY <1>1
<1>3. k - 1 \in 0 .. n /\ ~(k <= k - 1)
  BY <1>2
<1>4. k - 1 \in Q
  BY <1>1, <1>3
<1> QED
  BY <1>2, <1>4

\* x lists the slots a walk from h along l passes.
IsWalk(x, h, l) ==
  /\ x \in [0 .. NENV -> Envs]
  /\ x[0] = h
  /\ \A k \in 1 .. NENV : x[k] = l[x[k - 1]]

\* The first slots x passes are those of S.
Passes(x, S) == {x[k] : k \in 0 .. Cardinality(S) - 1} = S

Walk(h, l) == CHOOSE x : x = [k \in 0 .. NENV |-> IF k = 0 THEN h ELSE l[x[k - 1]]]

\* There is such a walk, so the recursion of NthFree means what it says.
LEMMA WalkIsWalk ==
  ASSUME NEW h \in Envs, NEW l \in [Envs -> Envs]
  PROVE  IsWalk(Walk(h, l), h, l)
<1> DEFINE Partial(m, g) == /\ g \in [0 .. m -> Envs]
                            /\ g[0] = h
                            /\ \A k \in 1 .. m : g[k] = l[g[k - 1]]
           Q == {m \in 0 .. NENV : \E g : Partial(m, g)}
<1>1. 0 \in Q
  <2>1. Partial(0, [k \in 0 .. 0 |-> h])
    OBVIOUS
  <2>2. 0 \in 0 .. NENV
    BY NENVAssumption
  <2> HIDE DEF Partial
  <2> QED
    BY <2>1, <2>2
<1>2. ASSUME NEW m \in 1 .. NENV, m - 1 \in Q
      PROVE  m \in Q
  <2>1. PICK g : Partial(m - 1, g)
    BY <1>2
  <2> DEFINE f == [k \in 0 .. m |-> IF k = m THEN l[g[m - 1]] ELSE g[k]]
  <2>2. m - 1 \in 0 .. m - 1 /\ m \in Nat /\ m # 0
    BY NENVAssumption
  <2>3. g[m - 1] \in Envs
    BY <2>1, <2>2
  <2>4. f \in [0 .. m -> Envs]
    <3> SUFFICES ASSUME NEW k \in 0 .. m
                 PROVE  (IF k = m THEN l[g[m - 1]] ELSE g[k]) \in Envs
      OBVIOUS
    <3>1. k = m \/ k \in 0 .. m - 1
      BY <2>2
    <3> QED
      BY <2>1, <2>3, <3>1
  <2>5. f[0] = h
    BY <2>1, <2>2
  <2>6. ASSUME NEW k \in 1 .. m
        PROVE  f[k] = l[f[k - 1]]
    <3>1. k - 1 \in 0 .. m /\ k - 1 # m /\ k \in 0 .. m
      BY <2>2
    <3>2. f[k - 1] = g[k - 1]
      BY <3>1
    <3>3. CASE k = m
      BY <3>1, <3>2, <3>3
    <3>4. CASE k # m
      <4>1. k \in 1 .. m - 1 /\ f[k] = g[k]
        BY <2>2, <3>1, <3>4
      <4> QED
        BY <2>1, <3>2, <4>1
    <3> QED
      BY <3>3, <3>4
  <2> HIDE DEF f
  <2>7. Partial(m, f)
    BY <2>4, <2>5, <2>6
  <2>8. m \in 0 .. NENV
    BY NENVAssumption
  <2> HIDE DEF Partial
  <2> QED
    BY <2>7, <2>8
<1>3. NENV \in Q
  <2> HIDE DEF Q
  <2>1. NENV \in Nat /\ NENV \in 0 .. NENV
    BY NENVAssumption
  <2> QED
    BY <1>1, <1>2, <2>1, CountsUpTo
<1>4. PICK g : Partial(NENV, g)
  BY <1>3
<1> DEFINE W(x) == [k \in 0 .. NENV |-> IF k = 0 THEN h ELSE l[x[k - 1]]]
<1>5. g = W(g)
  <2>1. g \in [0 .. NENV -> Envs]
    BY <1>4
  <2>2. ASSUME NEW k \in 0 .. NENV
        PROVE  g[k] = W(g)[k]
    <3>1. k = 0 \/ k \in 1 .. NENV
      BY NENVAssumption
    <3> QED
      BY <1>4, <3>1
  <2> QED
    BY <2>1, <2>2
<1> DEFINE x == Walk(h, l)
<1>6. x = W(x)
  BY <1>5 DEF Walk
<1> HIDE DEF x
<1>7. x[0] = h /\ \A k \in 1 .. NENV : x[k] = l[x[k - 1]]
  <2>1. 0 \in 0 .. NENV
    BY NENVAssumption
  <2>2. x[0] = h
    BY <1>6, <2>1
  <2>3. ASSUME NEW k \in 1 .. NENV
        PROVE  x[k] = l[x[k - 1]]
    <3>1. k \in 0 .. NENV /\ k # 0
      BY NENVAssumption
    <3> HIDE DEF W
    <3>2. x[k] = W(x)[k]
      BY <1>6
    <3> QED
      BY <3>1, <3>2 DEF W
  <2> QED
    BY <2>2, <2>3
<1>8. \A k \in 0 .. NENV : x[k] = g[k]
  <2> DEFINE Same == {k \in 0 .. NENV : x[k] = g[k]}
  <2>1. 0 \in Same
    BY <1>4, <1>7, NENVAssumption
  <2>2. ASSUME NEW k \in 1 .. NENV, k - 1 \in Same
        PROVE  k \in Same
    <3>1. k \in 0 .. NENV
      BY NENVAssumption
    <3> QED
      BY <1>4, <1>7, <2>2, <3>1
  <2>3. \A k \in 0 .. NENV : k \in Same
    <3> HIDE DEF Same
    <3> QED
      BY <2>1, <2>2, CountsUpTo, NENVAssumption
  <2> QED
    BY <2>3
<1>9. x \in [0 .. NENV -> Envs]
  <2>1. x = [k \in 0 .. NENV |-> x[k]]
    BY <1>6
  <2>2. \A k \in 0 .. NENV : x[k] \in Envs
    BY <1>4, <1>8
  <2> QED
    BY <2>1, <2>2
<1>10. IsWalk(x, h, l)
  BY <1>7, <1>9 DEF IsWalk
<1> QED
  BY <1>10 DEF x

\* A list of distinct slots, as long as the set it passes.
LEMMA ListIsOneToOne ==
  ASSUME NEW h, NEW l, NEW x, IsWalk(x, h, l), NEW S \in SUBSET Envs, Passes(x, S)
  PROVE  /\ IsFiniteSet(S) /\ Cardinality(S) \in 0 .. NENV
         /\ \A k \in 0 .. Cardinality(S) - 1 : x[k] \in S
         /\ \A s \in S : \E k \in 0 .. Cardinality(S) - 1 : x[k] = s
         /\ \A j, k \in 0 .. Cardinality(S) - 1 : x[j] = x[k] => j = k
<1>1. IsFiniteSet(Envs) /\ Cardinality(Envs) = NENV
  <2>1. 0 \in Int /\ NENV - 1 \in Int /\ ~(0 > NENV - 1) /\ NENV - 1 - 0 + 1 = NENV
    BY NENVAssumption
  <2> QED
    BY <2>1, FS_Interval DEF Envs
<1>2. IsFiniteSet(S) /\ Cardinality(S) <= NENV
  BY <1>1, FS_Subset
<1>3. Cardinality(S) \in Nat
  BY <1>2, FS_CardinalityType
<1> DEFINE n == Cardinality(S)
<1>4. n \in 0 .. NENV
  BY <1>2, <1>3, NENVAssumption
<1> HIDE DEF n
<1>5. {x[k] : k \in 0 .. n - 1} = S
  BY DEF Passes, n
<1>6. (\A k \in 0 .. n - 1 : x[k] \in S) /\ \A s \in S : \E k \in 0 .. n - 1 : x[k] = s
  BY <1>5
<1> DEFINE f == [k \in 0 .. n - 1 |-> x[k]]
<1>7. f \in Surjection(0 .. n - 1, S)
  <2>1. f \in [0 .. n - 1 -> S]
    BY <1>6
  <2>2. \A s \in S : \E k \in 0 .. n - 1 : f[k] = s
    BY <1>6
  <2> HIDE DEF f
  <2> QED
    BY <2>1, <2>2 DEF Surjection
<1>8. IsFiniteSet(0 .. n - 1) /\ Cardinality(0 .. n - 1) = n
  <2>1. 0 \in Int /\ n - 1 \in Int /\ n = IF 0 > n - 1 THEN 0 ELSE n - 1 - 0 + 1
    BY <1>4
  <2> QED
    BY <2>1, FS_Interval
<1>9. f \in Injection(0 .. n - 1, S)
  <2> HIDE DEF f
  <2> QED
    BY <1>7, <1>8, FS_SurjSameCardinalityImpliesInj DEF n
<1>10. \A j, k \in 0 .. n - 1 : x[j] = x[k] => j = k
  <2>1. \A j, k \in 0 .. n - 1 : f[j] = f[k] => j = k
    <3> HIDE DEF f
    <3> QED
      BY <1>9 DEF Injection, IsInjective
  <2> QED
    BY <2>1
<1> QED
  BY <1>2, <1>4, <1>6, <1>10 DEF n

\* A list passes S when each of its first slots is one of S and S is reached.
LEMMA PassesWhen ==
  ASSUME NEW x, NEW S, NEW n, n = Cardinality(S),
         \A k \in 0 .. n - 1 : x[k] \in S,
         \A s \in S : \E k \in 0 .. n - 1 : x[k] = s
  PROVE  Passes(x, S)
<1>1. {x[k] : k \in 0 .. n - 1} = S
  OBVIOUS
<1> QED
  BY <1>1 DEF Passes

\* env_alloc takes the first slot of the list: the rest lists the others.
LEMMA PopKeepsList ==
  ASSUME NEW h, NEW l \in [Envs -> Envs], NEW x, NEW y,
         IsWalk(x, h, l), IsWalk(y, l[h], l),
         NEW S \in SUBSET Envs, S # {}, Passes(x, S)
  PROVE  h \in S /\ Passes(y, S \ {h})
<1> DEFINE n == Cardinality(S)
<1>1. /\ IsFiniteSet(S) /\ n \in 0 .. NENV
      /\ \A k \in 0 .. n - 1 : x[k] \in S
      /\ \A s \in S : \E k \in 0 .. n - 1 : x[k] = s
      /\ \A j, k \in 0 .. n - 1 : x[j] = x[k] => j = k
  BY ListIsOneToOne
<1>2. n # 0
  BY <1>1, FS_EmptySet
<1>3. x[0] = h /\ h \in S
  <2>1. 0 \in 0 .. n - 1
    BY <1>1, <1>2
  <2> HIDE DEF n
  <2> QED
    BY <1>1, <2>1 DEF IsWalk
<1>4. Cardinality(S \ {h}) = n - 1
  BY <1>1, <1>3, FS_RemoveElement
<1> HIDE DEF n
<1>5. \A k \in 0 .. NENV - 1 : y[k] = x[k + 1]
  <2> DEFINE Shifted == {k \in 0 .. NENV - 1 : y[k] = x[k + 1]}
  <2>1. 0 \in Shifted
    <3>1. 1 \in 1 .. NENV /\ 0 \in 0 .. NENV - 1 /\ 0 + 1 = 1 /\ 1 - 1 = 0
      BY NENVAssumption
    <3> QED
      BY <1>3, <3>1 DEF IsWalk
  <2>2. ASSUME NEW k \in 1 .. NENV - 1, k - 1 \in Shifted
        PROVE  k \in Shifted
    <3>1. /\ k \in 0 .. NENV - 1 /\ k \in 1 .. NENV /\ k + 1 \in 1 .. NENV
          /\ (k + 1) - 1 = k /\ (k - 1) + 1 = k
      BY NENVAssumption
    <3>2. y[k - 1] = x[k]
      BY <2>2, <3>1
    <3>3. y[k] = l[y[k - 1]] /\ x[k + 1] = l[x[k]]
      <4> DEFINE k1 == k + 1
      <4>1. k1 \in 1 .. NENV /\ k1 - 1 = k
        BY <3>1
      <4> HIDE DEF k1
      <4>2. x[k1] = l[x[k]]
        BY <4>1 DEF IsWalk
      <4> QED
        BY <3>1, <4>2 DEF IsWalk, k1
    <3> QED
      BY <3>1, <3>2, <3>3
  <2>3. NENV - 1 \in Nat
    BY NENVAssumption
  <2>4. \A k \in 0 .. NENV - 1 : k \in Shifted
    <3> HIDE DEF Shifted
    <3> QED
      BY <2>1, <2>2, <2>3, CountsUpTo
  <2> QED
    BY <2>4
<1>6. ASSUME NEW k \in 0 .. (n - 1) - 1
      PROVE  y[k] \in S \ {h}
  <2>1. k \in 0 .. NENV - 1 /\ k + 1 \in 0 .. n - 1 /\ k + 1 # 0 /\ 0 \in 0 .. n - 1
    BY <1>1, NENVAssumption
  <2>2. x[k + 1] # x[0] /\ x[k + 1] \in S
    <3> DEFINE k1 == k + 1
    <3>1. k1 \in 0 .. n - 1 /\ k1 # 0 /\ 0 \in 0 .. n - 1
      BY <2>1
    <3> HIDE DEF k1
    <3>2. x[k1] # x[0] /\ x[k1] \in S
      BY <1>1, <3>1
    <3> QED
      BY <3>2 DEF k1
  <2> QED
    BY <1>3, <1>5, <2>1, <2>2
<1>7. ASSUME NEW s \in S \ {h}
      PROVE  \E k \in 0 .. (n - 1) - 1 : y[k] = s
  <2>1. PICK j \in 0 .. n - 1 : x[j] = s
    BY <1>1
  <2>2. j # 0
    BY <1>3, <2>1
  <2> DEFINE k == j - 1
  <2>3. k \in 0 .. (n - 1) - 1 /\ k \in 0 .. NENV - 1 /\ k + 1 = j
    BY <1>1, <2>2, NENVAssumption
  <2> HIDE DEF k
  <2>4. y[k] = s
    BY <1>5, <2>1, <2>3
  <2> QED
    BY <2>3, <2>4
<1>8. Passes(y, S \ {h})
  <2> DEFINE T == S \ {h}
             m == n - 1
  <2>1. /\ m = Cardinality(T)
        /\ \A k \in 0 .. m - 1 : y[k] \in T
        /\ \A s \in T : \E k \in 0 .. m - 1 : y[k] = s
    BY <1>4, <1>6, <1>7
  <2> HIDE DEF T, m
  <2>2. Passes(y, T)
    BY <2>1, PassesWhen
  <2> QED
    BY <2>2 DEF T
<1> QED
  BY <1>3, <1>8

\* env_free puts the slot before the list.
LEMMA PushKeepsList ==
  ASSUME NEW h \in Envs, NEW l \in [Envs -> Envs], NEW e \in Envs, NEW x, NEW y,
         NEW l2, l2 = [l EXCEPT ![e] = h],
         IsWalk(x, h, l), IsWalk(y, e, l2),
         NEW S \in SUBSET Envs, e \notin S, Passes(x, S)
  PROVE  Passes(y, S \cup {e})
<1> DEFINE n == Cardinality(S)
<1>1. /\ IsFiniteSet(S) /\ n \in 0 .. NENV
      /\ \A k \in 0 .. n - 1 : x[k] \in S
      /\ \A s \in S : \E k \in 0 .. n - 1 : x[k] = s
  BY ListIsOneToOne
<1>2. Cardinality(S \cup {e}) = n + 1 /\ IsFiniteSet(S \cup {e})
  BY <1>1, FS_AddElement
<1>3. n + 1 <= NENV
  <2>1. IsFiniteSet(Envs) /\ Cardinality(Envs) = NENV
    <3>1. 0 \in Int /\ NENV - 1 \in Int /\ ~(0 > NENV - 1) /\ NENV - 1 - 0 + 1 = NENV
      BY NENVAssumption
    <3> QED
      BY <3>1, FS_Interval DEF Envs
  <2>2. S \cup {e} \in SUBSET Envs
    OBVIOUS
  <2>3. Cardinality(S \cup {e}) <= Cardinality(Envs)
    BY <2>1, <2>2, FS_Subset
  <2> QED
    BY <1>2, <2>1, <2>3
<1> HIDE DEF n
<1>4. y[0] = e /\ x[0] = h
  BY DEF IsWalk
<1>5. l2[e] = h /\ \A f \in Envs : f # e => l2[f] = l[f]
  OBVIOUS
<1>6. \A k \in 0 .. n : k = 0 \/ y[k] = x[k - 1]
  <2> DEFINE Shifted == {k \in 0 .. n : k = 0 \/ y[k] = x[k - 1]}
  <2>1. 0 \in Shifted
    BY <1>1
  <2>2. ASSUME NEW k \in 1 .. n, k - 1 \in Shifted
        PROVE  k \in Shifted
    <3>1. k \in 1 .. NENV /\ k \in 0 .. n
      BY <1>1, NENVAssumption
    <3>2. y[k] = l2[y[k - 1]]
      BY <3>1 DEF IsWalk
    <3>3. CASE k = 1
      <4>1. k - 1 = 0
        BY <3>3
      <4>2. y[k] = x[k - 1]
        BY <1>4, <1>5, <3>2, <4>1
      <4> QED
        BY <3>1, <4>2
    <3>4. CASE k # 1
      <4> DEFINE j == k - 1
      <4>1. j \in 1 .. NENV /\ j \in 0 .. n /\ j # 0 /\ j - 1 \in 0 .. n - 1
        BY <1>1, <3>4, NENVAssumption
      <4>2. j \in Shifted
        BY <2>2
      <4> HIDE DEF j
      <4>3. y[j] = x[j - 1] /\ x[j] = l[x[j - 1]]
        BY <4>1, <4>2 DEF IsWalk
      <4>4. x[j - 1] \in S
        BY <1>1, <4>1
      <4>5. l2[x[j - 1]] = l[x[j - 1]]
        BY <1>5, <4>4
      <4>6. y[k] = x[j]
        BY <3>2, <4>3, <4>5 DEF j
      <4> QED
        BY <3>1, <4>6 DEF j
    <3> QED
      BY <3>3, <3>4
  <2>3. n \in Nat
    BY <1>1
  <2>4. \A k \in 0 .. n : k \in Shifted
    <3> HIDE DEF Shifted
    <3> QED
      BY <2>1, <2>2, <2>3, CountsUpTo
  <2> QED
    BY <2>4
<1>7. ASSUME NEW k \in 0 .. n
      PROVE  y[k] \in S \cup {e}
  <2>1. CASE k = 0
    BY <1>4, <2>1
  <2>2. CASE k # 0
    <3>1. k - 1 \in 0 .. n - 1
      BY <1>1, <2>2
    <3>2. x[k - 1] \in S
      BY <1>1, <3>1
    <3> QED
      BY <1>6, <2>2, <3>2
  <2> QED
    BY <2>1, <2>2
<1>8. ASSUME NEW s \in S \cup {e}
      PROVE  \E k \in 0 .. n : y[k] = s
  <2>1. CASE s = e
    <3>1. 0 \in 0 .. n
      BY <1>1
    <3> QED
      BY <1>4, <2>1, <3>1
  <2>2. CASE s # e
    <3>1. PICK j \in 0 .. n - 1 : x[j] = s
      BY <1>1, <2>2
    <3> DEFINE k == j + 1
    <3>2. k \in 0 .. n /\ k # 0 /\ k - 1 = j
      BY <1>1
    <3> HIDE DEF k
    <3>3. y[k] = s
      BY <1>6, <3>1, <3>2
    <3> QED
      BY <3>2, <3>3
  <2> QED
    BY <2>1, <2>2
<1> DEFINE T == S \cup {e}
           m == n + 1
<1>9. /\ m = Cardinality(T)
      /\ \A k \in 0 .. m - 1 : y[k] \in T
      /\ \A s \in T : \E k \in 0 .. m - 1 : y[k] = s
  <2>1. (n + 1) - 1 = n
    BY <1>1
  <2> QED
    BY <1>2, <1>7, <1>8, <2>1
<1> HIDE DEF T, m
<1>10. Passes(y, T)
  BY <1>9, PassesWhen
<1> QED
  BY <1>10 DEF T

\* NthFree is the walk from the head of the list.
LEMMA NthFreeWalks ==
  ASSUME env_free_list \in Envs, env_link \in [Envs -> Envs]
  PROVE  IsWalk(NthFree, env_free_list, env_link)
<1>1. NthFree = Walk(env_free_list, env_link)
  BY DEF NthFree, Walk
<1> QED
  BY <1>1, WalkIsWalk

Unused == {e \in Envs : ~InUse(e)}

LEMMA FreeSlotsFirstIs == FreeSlotsFirst <=> Passes(NthFree, Unused)
  BY DEF FreeSlotsFirst, Passes, Unused

\* In the first state the list counts up from the third slot.
LEMMA FreeSlotsInit ==
  ASSUME Init
  PROVE  FreeSlotsFirst
<1> DEFINE x == NthFree
<1>1. IsWalk(x, env_free_list, env_link) /\ \A e \in Envs \ {0, 1} : ~InUse(e)
  BY KernelInit, NthFreeWalks DEF KernelInv, TypeOK
<1>2. InUse(0) /\ InUse(1)
  <2>1. 0 \in Envs /\ 1 \in Envs
    BY NENVAssumption DEF Envs
  <2>2. env_status[0] # "ENV_FREE" /\ env_status[1] # "ENV_FREE"
    BY <2>1 DEF Init
  <2> QED
    BY <2>1, <2>2, KernelInit DEF KernelInv, LiveHasDirectory
<1>3. Unused = 2 .. NENV - 1
  <2>1. Envs \ {0, 1} = 2 .. NENV - 1
    BY NENVAssumption DEF Envs
  <2>2. 0 \in Envs /\ 1 \in Envs
    BY NENVAssumption DEF Envs
  <2>3. Unused = Envs \ {0, 1}
    BY <1>1, <1>2, <2>2 DEF Unused
  <2> QED
    BY <2>1, <2>3
<1>4. Cardinality(Unused) = NENV - 2
  <2>1. 2 \in Int /\ NENV - 1 \in Int
        /\ NENV - 2 = IF 2 > NENV - 1 THEN 0 ELSE (NENV - 1) - 2 + 1
    BY NENVAssumption
  <2>2. Cardinality(2 .. NENV - 1) = IF 2 > NENV - 1 THEN 0 ELSE (NENV - 1) - 2 + 1
    BY <2>1, FS_Interval
  <2> QED
    BY <1>3, <2>1, <2>2
<1>5. /\ NENV > 2 => env_free_list = 2
      /\ \A e \in Envs : e # NENV - 1 => env_link[e] = e + 1
  BY NENVAssumption DEF Init
<1> HIDE DEF x
<1>6. CASE NENV = 2
  <2>1. Unused = {} /\ Cardinality(Unused) = 0
    BY <1>3, <1>4, <1>6
  <2>2. Passes(x, Unused)
    BY <2>1 DEF Passes
  <2> QED
    BY <2>2, FreeSlotsFirstIs DEF x
<1>7. CASE NENV > 2
  <2> DEFINE m == NENV - 3
             Counted == {k \in 0 .. m : x[k] = k + 2}
  <2>1. m \in Nat /\ m - 0 = m /\ m + 3 = NENV
    BY <1>7, NENVAssumption
  <2>2. 0 \in Counted
    BY <1>1, <1>5, <1>7, <2>1 DEF IsWalk
  <2> HIDE DEF m
  <2>3. ASSUME NEW k \in 1 .. m, k - 1 \in Counted
        PROVE  k \in Counted
    <3>1. k \in 1 .. NENV /\ k \in 0 .. m
      BY <2>1
    <3>2. x[k] = env_link[x[k - 1]]
      BY <1>1, <3>1 DEF IsWalk
    <3>3. x[k - 1] = k + 1
      BY <2>3
    <3>4. k + 1 \in Envs /\ k + 1 # NENV - 1
      BY <2>1 DEF Envs
    <3>5. env_link[k + 1] = (k + 1) + 1
      BY <1>5, <3>4
    <3> QED
      BY <3>1, <3>2, <3>3, <3>5
  <2>4. \A k \in 0 .. m : x[k] = k + 2
    <3>1. \A k \in 0 .. m : k \in Counted
      <4> HIDE DEF Counted
      <4> QED
        BY <2>1, <2>2, <2>3, CountsUpTo
    <3> QED
      BY <3>1
  <2> DEFINE n == NENV - 2
             S == 2 .. NENV - 1
  <2>5. n - 1 = m
    BY <2>1
  <2>6. \A k \in 0 .. n - 1 : x[k] \in S
    BY <2>1, <2>4, <2>5
  <2>7. ASSUME NEW s \in S
        PROVE  \E k \in 0 .. n - 1 : x[k] = s
    <3> DEFINE k == s - 2
    <3>1. k \in 0 .. m /\ k + 2 = s
      BY <2>1
    <3> HIDE DEF k
    <3>2. x[k] = s
      BY <2>4, <3>1
    <3> QED
      BY <2>5, <3>1, <3>2
  <2>8. n = Cardinality(S)
    BY <1>3, <1>4
  <2> HIDE DEF n, S
  <2>9. Passes(x, S)
    BY <2>6, <2>7, <2>8, PassesWhen
  <2> QED
    BY <1>3, <2>9, FreeSlotsFirstIs DEF x, S
<1> QED
  BY <1>6, <1>7, NENVAssumption

\* A step that moves no directory and leaves the list alone.
LEMMA SameListStep ==
  ASSUME FreeSlotsFirst, mem'.env_pgdir = mem.env_pgdir, UNCHANGED slotVars
  PROVE  FreeSlotsFirst'
<1>1. NthFree' = NthFree
  BY DEF NthFree, slotVars
<1>2. Unused' = Unused
  BY DEF Unused, InUse
<1>3. Passes(NthFree, Unused)
  BY FreeSlotsFirstIs
<1>4. {NthFree'[k] : k \in 0 .. Cardinality(Unused') - 1} = Unused'
  BY <1>1, <1>2, <1>3 DEF Passes
<1> QED
  BY <1>4 DEF FreeSlotsFirst, Unused

\* env_destroy puts the slot it frees at the head.
LEMMA DestroyKeepsList ==
  ASSUME KernelInv, FreeSlotsFirst, NEW e \in Envs, EnvDestroy(e),
         env_status[e] # "ENV_FREE"
  PROVE  FreeSlotsFirst'
<1>1. env_free_list \in Envs /\ env_link \in [Envs -> Envs] /\ mem \in Memory
  BY DEF KernelInv, TypeOK
<1>2. env_free_list' = e /\ env_link' = [env_link EXCEPT ![e] = env_free_list]
  BY DEF EnvDestroy, PushFree
<1>3. mem'.env_pgdir = [mem.env_pgdir EXCEPT ![e] = NULL]
  BY <1>1, FreeVmType DEF EnvDestroy
<1>4. InUse(e)
  BY DEF KernelInv, LiveHasDirectory
<1>5. Unused' = Unused \cup {e}
  <2>1. mem.env_pgdir \in [Envs -> Pages \cup {NULL}]
    BY <1>1, MemoryFields
  <2>2. \A f \in Envs : mem'.env_pgdir[f] = IF f = e THEN NULL ELSE mem.env_pgdir[f]
    BY <1>3, <2>1
  <2> QED
    BY <2>2 DEF Unused, InUse
<1> DEFINE h == env_free_list
           l == env_link
           x == NthFree
           l2 == [l EXCEPT ![e] = h]
           y == Walk(e, l2)
           S == Unused
<1>6. h \in Envs /\ l \in [Envs -> Envs] /\ l2 \in [Envs -> Envs]
  BY <1>1
<1>7. IsWalk(x, h, l) /\ IsWalk(y, e, l2)
  <2>1. IsWalk(x, h, l)
    BY <1>1, NthFreeWalks
  <2> HIDE DEF l2
  <2> QED
    BY <1>6, <2>1, WalkIsWalk
<1>8. S \in SUBSET Envs /\ e \notin S /\ Passes(x, S)
  BY <1>4, FreeSlotsFirstIs DEF Unused
<1>9. NthFree' = y
  BY <1>2 DEF NthFree, Walk
<1>10. l2 = [l EXCEPT ![e] = h]
  OBVIOUS
<1> HIDE DEF h, l, x, l2, y, S
<1>11. Passes(y, S \cup {e})
  BY <1>6, <1>7, <1>8, <1>10, PushKeepsList
<1>12. {NthFree'[k] : k \in 0 .. Cardinality(Unused') - 1} = Unused'
  BY <1>5, <1>9, <1>11 DEF Passes, S
<1> QED
  BY <1>12 DEF FreeSlotsFirst, Unused

\* env_alloc takes the head, on a list of free slots or on none.
LEMMA ForkKeepsList ==
  ASSUME KernelInv, FreeSlotsFirst, SysExofork
  PROVE  FreeSlotsFirst'
<1>1. env_free_list \in Envs /\ env_link \in [Envs -> Envs] /\ mem \in Memory
  BY DEF KernelInv, TypeOK
<1> DEFINE e == env_free_list
<1>2. HasFree(mem) /\ EnvAlloc(e, env_id[curenv])
  BY DEF SysExofork
<1>3. env_free_list' = env_link[e] /\ env_link' = env_link
  BY <1>2 DEF EnvAlloc
<1>4. mem'.env_pgdir = [mem.env_pgdir EXCEPT ![e] = FreePage(mem)] /\ FreePage(mem) # NULL
  BY <1>1, <1>2, EnvSetupVmType, FreePageType, NULLAssumption DEF EnvAlloc
<1>5. Unused' = Unused \ {e}
  <2>1. mem.env_pgdir \in [Envs -> Pages \cup {NULL}]
    BY <1>1, MemoryFields
  <2> HIDE DEF e
  <2>2. \A f \in Envs : mem'.env_pgdir[f] =
                          IF f = e THEN FreePage(mem) ELSE mem.env_pgdir[f]
    BY <1>4, <2>1
  <2> QED
    BY <1>4, <2>2 DEF Unused, InUse
<1> DEFINE l == env_link
           x == NthFree
           y == Walk(l[e], l)
           S == Unused
<1>6. e \in Envs /\ l \in [Envs -> Envs] /\ l[e] \in Envs
  BY <1>1
<1>7. IsWalk(x, e, l) /\ IsWalk(y, l[e], l)
  BY <1>6, NthFreeWalks, WalkIsWalk
<1>8. S \in SUBSET Envs /\ Passes(x, S)
  BY FreeSlotsFirstIs DEF Unused
<1>9. NthFree' = y
  BY <1>3 DEF NthFree, Walk
<1> HIDE DEF e, l, x, y, S
<1>10. Passes(y, S \ {e})
  <2>1. CASE S = {}
    <3>1. S \ {e} = {} /\ Cardinality({}) = 0
      BY <2>1, FS_EmptySet
    <3>2. Passes(y, {})
      BY <3>1 DEF Passes
    <3> QED
      BY <3>1, <3>2
  <2>2. CASE S # {}
    BY <1>6, <1>7, <1>8, <2>2, PopKeepsList
  <2> QED
    BY <2>1, <2>2
<1>11. {NthFree'[k] : k \in 0 .. Cardinality(Unused') - 1} = Unused'
  BY <1>5, <1>9, <1>10 DEF Passes, S
<1> QED
  BY <1>11 DEF FreeSlotsFirst, Unused

\* Every step of the kernel keeps the list.
LEMMA FreeSlotsStep ==
  ASSUME KernelInv, FreeSlotsFirst, [Next]_vars
  PROVE  FreeSlotsFirst'
<1>1. CASE Yield
  BY <1>1, SameListStep DEF Yield
<1>2. CASE EnvCalls
  <2>1. CASE SysExofork
    BY <2>1, ForkKeepsList
  <2>2. CASE Fault
    <3>1. curenv \in Envs /\ env_status[curenv] # "ENV_FREE" /\ EnvDestroy(curenv)
      BY <2>2 DEF Fault, Running, KernelInv, TypeOK, RunningIsCurrent
    <3> QED
      BY <3>1, DestroyKeepsList
  <2>3. ASSUME NEW envid \in EnvIds, SysEnvDestroy(envid)
        PROVE  FreeSlotsFirst'
    BY <2>3, Envid2envType, DestroyKeepsList DEF SysEnvDestroy, Running
  <2>4. ASSUME NEW envid \in EnvIds, NEW tf \in VA, SysEnvSetTrapframe(envid, tf)
        PROVE  FreeSlotsFirst'
    <3> DEFINE e == envid2env(envid, TRUE)
    <3>1. e \in Envs /\ env_status[e] # "ENV_FREE"
      BY <2>4, Envid2envType DEF SysEnvSetTrapframe, Running
    <3>2. CASE EnvDestroy(e)
      BY <3>1, <3>2, DestroyKeepsList
    <3>3. CASE mem' = [mem EXCEPT !.panic = "page fault"] /\ UNCHANGED slotVars
      <4>1. mem'.env_pgdir = mem.env_pgdir
        BY <3>3 DEF KernelInv, TypeOK, Memory
      <4> QED
        BY <3>3, <4>1, SameListStep
    <3> QED
      BY <2>4, <3>2, <3>3 DEF SysEnvSetTrapframe
  <2>5. ASSUME NEW envid \in EnvIds, NEW st, SysEnvSetStatus(envid, st)
        PROVE  FreeSlotsFirst'
    BY <2>5, SameListStep DEF SysEnvSetStatus
  <2> QED
    BY <1>2, <2>1, <2>2, <2>3, <2>4, <2>5 DEF EnvCalls
<1>3. CASE PageCalls
  <2>1. ASSUME NEW envid \in EnvIds, NEW va \in VA, SysPageUnmap(envid, va)
        PROVE  FreeSlotsFirst'
    <3>1. mem'.env_pgdir = mem.env_pgdir
      BY <2>1, PageUnmapFrame
    <3>2. UNCHANGED slotVars
      BY <2>1 DEF SysPageUnmap
    <3> QED
      BY <3>1, <3>2, SameListStep
  <2>2. ASSUME NEW envid \in EnvIds, NEW va \in VA, NEW perm \in Perms,
               SysPageAlloc(envid, va, perm)
        PROVE  FreeSlotsFirst'
    <3>1. mem'.env_pgdir = mem.env_pgdir
      BY <2>2, PageAllocFrame
    <3>2. UNCHANGED slotVars
      BY <2>2 DEF SysPageAlloc
    <3> QED
      BY <3>1, <3>2, SameListStep
  <2>3. ASSUME NEW envid \in EnvIds, NEW va \in VA, NEW perm \in Perms,
               NEW dstenvid \in EnvIds, NEW dstva \in VA,
               SysPageMap(envid, va, dstenvid, dstva, perm)
        PROVE  FreeSlotsFirst'
    <3>1. mem'.env_pgdir = mem.env_pgdir
      BY <2>3, PageMapFrame
    <3>2. UNCHANGED slotVars
      BY <2>3 DEF SysPageMap
    <3> QED
      BY <3>1, <3>2, SameListStep
  <2> QED
    BY <1>3, <2>1, <2>2, <2>3 DEF PageCalls
<1>4. CASE IpcCalls
  <2>1. ASSUME NEW dstva, SysIpcRecv(dstva)
        PROVE  FreeSlotsFirst'
    BY <2>1, SameListStep DEF SysIpcRecv
  <2>2. ASSUME NEW envid \in EnvIds, NEW srcva \in VA \cup {UTOP}, NEW perm \in Perms,
               SysIpcTrySend(envid, srcva, perm)
        PROVE  FreeSlotsFirst'
    <3>1. mem'.env_pgdir = mem.env_pgdir
      BY <2>2, SendFrame
    <3>2. UNCHANGED slotVars
      BY <2>2 DEF SysIpcTrySend
    <3> QED
      BY <3>1, <3>2, SameListStep
  <2> QED
    BY <1>4, <2>1, <2>2 DEF IpcCalls
<1>5. CASE UNCHANGED vars
  BY <1>5, SameListStep DEF vars, slotVars
<1>6. CASE SysUnknown
  <2>1. mem'.env_pgdir = mem.env_pgdir
    BY <1>6 DEF SysUnknown, KernelInv, TypeOK, Memory
  <2> QED
    BY <1>6, <2>1, SameListStep DEF SysUnknown
<1> QED
  BY <1>1, <1>2, <1>3, <1>4, <1>5, <1>6 DEF Next

\* The list of slots always passes the free ones first, so sys_exofork hands
\* out a slot in use only when no other is left, through every interleaving of
\* forks, faults, exits and destructions.
THEOREM FreeSlotsCorrect == Spec => []FreeSlotsFirst
<1>1. Init => FreeSlotsFirst
  BY FreeSlotsInit
<1>2. KernelInv /\ FreeSlotsFirst /\ [Next]_vars => FreeSlotsFirst'
  BY FreeSlotsStep
<1> QED
  BY <1>1, <1>2, KernelInvariant, PTL DEF Spec
=============================================================================
