---------------------------- MODULE PagesProofs ----------------------------
(***************************************************************************)
(* The books of the physical memory, proved for every value of the         *)
(* constants: reference counts, the free list and the use of pages for     *)
(* tables agree after every system call, however it ends.                  *)
(***************************************************************************)
EXTENDS KernelProofs

-----------------------------------------------------------------------------
(***************************************************************************)
(* Counting                                                                *)
(***************************************************************************)

One(condition) == IF condition THEN 1 ELSE 0

\* Two finite sets that agree on everything but x differ by what they say of x.
LEMMA OneChanged ==
  ASSUME NEW A, NEW B, NEW x, IsFiniteSet(A), IsFiniteSet(B),
         \A y : y # x => (y \in A <=> y \in B)
  PROVE  Cardinality(B) = Cardinality(A) - One(x \in A) + One(x \in B)
<1>1. A \ {x} = B \ {x}
  OBVIOUS
<1>2. /\ Cardinality(A) \in Nat /\ Cardinality(B) \in Nat
      /\ Cardinality(A \ {x}) = IF x \in A THEN Cardinality(A) - 1 ELSE Cardinality(A)
      /\ Cardinality(B \ {x}) = IF x \in B THEN Cardinality(B) - 1 ELSE Cardinality(B)
  BY FS_RemoveElement, FS_CardinalityType
<1>3. Cardinality(A) - One(x \in A) = Cardinality(B) - One(x \in B)
  BY ONLY <1>1, <1>2 DEF One
<1> QED
  BY <1>2, <1>3 DEF One

\* The pointers to a page are finitely many.
LEMMA RefsFinite ==
  ASSUME NEW m, NEW pg
  PROVE  /\ IsFiniteSet(DirRefs(m, pg)) /\ Cardinality(DirRefs(m, pg)) \in Nat
         /\ IsFiniteSet(PdeRefs(m, pg)) /\ Cardinality(PdeRefs(m, pg)) \in Nat
         /\ IsFiniteSet(PteRefs(m, pg)) /\ Cardinality(PteRefs(m, pg)) \in Nat
         /\ Pointers(m, pg) \in Nat
<1>1. IsFiniteSet(Envs)
  BY NENVAssumption, FS_Interval DEF Envs
<1>2. IsFiniteSet(Envs \X PDE) /\ IsFiniteSet(Envs \X VA)
  BY <1>1, VAAssumption, FS_Product
<1>3. IsFiniteSet(DirRefs(m, pg)) /\ IsFiniteSet(PdeRefs(m, pg)) /\ IsFiniteSet(PteRefs(m, pg))
  BY <1>1, <1>2, FS_Subset DEF DirRefs, PdeRefs, PteRefs
<1> QED
  BY <1>3, FS_CardinalityType DEF Pointers

\* A page has no pointer exactly when it is in no directory, no table and no entry.
LEMMA NoPointers ==
  ASSUME NEW m, NEW pg
  PROVE  Pointers(m, pg) = 0 <=> DirRefs(m, pg) = {} /\ PdeRefs(m, pg) = {} /\ PteRefs(m, pg) = {}
<1>1. /\ Cardinality(DirRefs(m, pg)) = 0 <=> DirRefs(m, pg) = {}
      /\ Cardinality(PdeRefs(m, pg)) = 0 <=> PdeRefs(m, pg) = {}
      /\ Cardinality(PteRefs(m, pg)) = 0 <=> PteRefs(m, pg) = {}
  BY RefsFinite, FS_EmptySet
<1> QED
  BY <1>1, RefsFinite DEF Pointers

-----------------------------------------------------------------------------
(***************************************************************************)
(* Memories whose books are right                                          *)
(***************************************************************************)

\* What a count is above the pointers it counts
Balance(m, p) == m.pp_ref[p] - Pointers(m, p)

\* Between page_alloc and page_insert the pages in taken are on no list.
Booked(m, taken) ==
  /\ m \in Memory
  /\ taken \subseteq Pages /\ taken \cap m.page_free_list = {}
  /\ \A p \in Pages : Balance(m, p) >= 0
  /\ \A p \in Pages : p \in m.page_free_list \cup taken <=> m.pp_ref[p] = 0
  /\ \A p \in Pages : DirRefs(m, p) # {} \/ PdeRefs(m, p) # {} => Pointers(m, p) = 1
  /\ \A e \in Envs : m.env_pgdir[e] = NULL =>
       /\ \A d \in PDE : m.pde[e][d] = NULL
       /\ \A va \in VA : m.pte[e][va].page = NULL

SameBalance(m, n) == \A p \in Pages : Balance(n, p) = Balance(m, p)

\* A page whose count is 0 is reached from nowhere, and one that is mapped is
\* neither directory nor table.
LEMMA BookedUse ==
  ASSUME NEW m, NEW taken, Booked(m, taken), NEW p \in Pages
  PROVE  /\ m.pp_ref[p] \in 0 .. RefMax
         /\ Pointers(m, p) \in Nat /\ Pointers(m, p) <= m.pp_ref[p]
         /\ p \in m.page_free_list \cup taken =>
              DirRefs(m, p) = {} /\ PdeRefs(m, p) = {} /\ PteRefs(m, p) = {}
         /\ PteRefs(m, p) # {} =>
              /\ m.pp_ref[p] > 0 /\ p \notin m.page_free_list \cup taken
              /\ DirRefs(m, p) = {} /\ PdeRefs(m, p) = {}
<1>1. m.pp_ref[p] \in 0 .. RefMax
  BY DEF Booked, Memory
<1>2. Pointers(m, p) \in Nat /\ Pointers(m, p) <= m.pp_ref[p]
  BY <1>1, RefsFinite, RefMaxAssumption DEF Booked, Balance
<1>3. p \in m.page_free_list \cup taken => Pointers(m, p) = 0
  BY <1>1, <1>2, RefMaxAssumption DEF Booked
<1>4. PteRefs(m, p) # {} => m.pp_ref[p] > 0
  BY <1>1, <1>2, NoPointers, RefMaxAssumption
<1>5. ASSUME PteRefs(m, p) # {}, DirRefs(m, p) # {} \/ PdeRefs(m, p) # {}
      PROVE  FALSE
  <2>1. Pointers(m, p) = 1
    BY <1>5 DEF Booked
  <2>2. /\ Cardinality(PteRefs(m, p)) # 0
        /\ Cardinality(DirRefs(m, p)) # 0 \/ Cardinality(PdeRefs(m, p)) # 0
    BY <1>5, RefsFinite, FS_EmptySet
  <2> QED
    BY <2>1, <2>2, RefsFinite DEF Pointers
<1> QED
  BY <1>1, <1>2, <1>3, <1>4, <1>5, NoPointers, RefMaxAssumption DEF Booked

-----------------------------------------------------------------------------
(***************************************************************************)
(* How the pointers to a page change                                       *)
(***************************************************************************)

\* One entry of a page table is written.
LEMMA EntryWritten ==
  ASSUME NEW m \in Memory, NEW n \in Memory, NEW e \in Envs, NEW va \in VA,
         NEW entry \in PTE, NEW p \in Pages,
         n.env_pgdir = m.env_pgdir, n.pde = m.pde,
         n.pte = [m.pte EXCEPT ![e][va] = entry]
  PROVE  /\ DirRefs(n, p) = DirRefs(m, p) /\ PdeRefs(n, p) = PdeRefs(m, p)
         /\ Pointers(n, p) = Pointers(m, p) - One(m.pte[e][va].page = p) + One(entry.page = p)
<1> DEFINE A == PteRefs(m, p)
           B == PteRefs(n, p)
           x == <<e, va>>
<1>1. DirRefs(n, p) = DirRefs(m, p) /\ PdeRefs(n, p) = PdeRefs(m, p)
  BY DEF DirRefs, PdeRefs
<1>2. m.pte \in [Envs -> [VA -> PTE]]
  BY DEF Memory
<1>3. x \in A <=> m.pte[e][va].page = p
  BY DEF PteRefs
<1>4. x \in B <=> entry.page = p
  BY <1>2 DEF PteRefs
<1>5. \A y : y # x => (y \in A <=> y \in B)
  BY <1>2 DEF PteRefs
<1>6. /\ IsFiniteSet(A) /\ Cardinality(A) \in Nat
      /\ IsFiniteSet(B) /\ Cardinality(B) \in Nat
  BY RefsFinite
<1> HIDE DEF A, B, x
<1>7. Cardinality(B) = Cardinality(A) - One(x \in A) + One(x \in B)
  BY <1>5, <1>6, OneChanged
<1>8. /\ Pointers(m, p) = Cardinality(DirRefs(m, p)) + Cardinality(PdeRefs(m, p)) + Cardinality(A)
      /\ Pointers(n, p) = Cardinality(DirRefs(m, p)) + Cardinality(PdeRefs(m, p)) + Cardinality(B)
      /\ Cardinality(DirRefs(m, p)) \in Nat /\ Cardinality(PdeRefs(m, p)) \in Nat
  BY <1>1, RefsFinite DEF Pointers, A, B
<1>9. Pointers(n, p) = Pointers(m, p) - One(x \in A) + One(x \in B)
  BY ONLY <1>6, <1>7, <1>8 DEF One
<1> QED
  BY <1>1, <1>3, <1>4, <1>9 DEF One

\* One entry of a page directory is written.
LEMMA TableWritten ==
  ASSUME NEW m \in Memory, NEW n \in Memory, NEW e \in Envs, NEW d \in PDE,
         NEW pg \in Pages, NEW p \in Pages,
         n.env_pgdir = m.env_pgdir, n.pte = m.pte,
         n.pde = [m.pde EXCEPT ![e][d] = pg], m.pde[e][d] = NULL
  PROVE  /\ DirRefs(n, p) = DirRefs(m, p) /\ PteRefs(n, p) = PteRefs(m, p)
         /\ PdeRefs(n, p) = PdeRefs(m, p) \cup (IF p = pg THEN {<<e, d>>} ELSE {})
         /\ Pointers(n, p) = Pointers(m, p) + One(p = pg)
<1> DEFINE A == PdeRefs(m, p)
           B == PdeRefs(n, p)
           x == <<e, d>>
<1>1. DirRefs(n, p) = DirRefs(m, p) /\ PteRefs(n, p) = PteRefs(m, p)
  BY DEF DirRefs, PteRefs
<1>2. m.pde \in [Envs -> [PDE -> Pages \cup {NULL}]]
  BY DEF Memory
<1>3. ~(x \in A)
  BY NULLAssumption DEF PdeRefs
<1>4. x \in B <=> p = pg
  BY <1>2 DEF PdeRefs
<1>5. \A y : y # x => (y \in A <=> y \in B)
  BY <1>2 DEF PdeRefs
<1>6. /\ IsFiniteSet(A) /\ Cardinality(A) \in Nat
      /\ IsFiniteSet(B) /\ Cardinality(B) \in Nat
  BY RefsFinite
<1>7. PdeRefs(n, p) = PdeRefs(m, p) \cup (IF p = pg THEN {<<e, d>>} ELSE {})
  BY <1>3, <1>4, <1>5
<1> HIDE DEF A, B, x
<1>8. Cardinality(B) = Cardinality(A) - One(x \in A) + One(x \in B)
  BY <1>5, <1>6, OneChanged
<1>9. /\ Pointers(m, p) = Cardinality(DirRefs(m, p)) + Cardinality(A) + Cardinality(PteRefs(m, p))
      /\ Pointers(n, p) = Cardinality(DirRefs(m, p)) + Cardinality(B) + Cardinality(PteRefs(m, p))
      /\ Cardinality(DirRefs(m, p)) \in Nat /\ Cardinality(PteRefs(m, p)) \in Nat
  BY <1>1, RefsFinite DEF Pointers, A, B
<1>10. Pointers(n, p) = Pointers(m, p) + One(x \in B)
  BY ONLY <1>3, <1>6, <1>8, <1>9 DEF One
<1> QED
  BY <1>1, <1>4, <1>7, <1>10 DEF One

\* A set of pairs falls apart into those of slot e and the others.
LEMMA SlotPairs ==
  ASSUME NEW e, NEW V, IsFiniteSet(V), NEW A, IsFiniteSet(A),
         \A y \in V : <<e, y>> \in A
  PROVE  Cardinality(A \ ({e} \X V)) = Cardinality(A) - Cardinality(V)
<1>1. IsFiniteSet({e}) /\ Cardinality({e}) = 1
  BY FS_Singleton
<1>2. IsFiniteSet({e} \X V) /\ Cardinality({e} \X V) = Cardinality({e}) * Cardinality(V)
  BY <1>1, FS_Product
<1>3. A \cap ({e} \X V) = {e} \X V
  OBVIOUS
<1>4. Cardinality(A \ ({e} \X V)) = Cardinality(A) - Cardinality(A \cap ({e} \X V))
  BY FS_Difference
<1>5. Cardinality(V) \in Nat
  BY FS_CardinalityType
<1>6. Cardinality({e}) * Cardinality(V) = Cardinality(V)
  BY ONLY <1>1, <1>5
<1> QED
  BY ONLY <1>2, <1>3, <1>4, <1>6

\* All of slot e is given up.
LEMMA SlotCleared ==
  ASSUME NEW m \in Memory, NEW n \in Memory, NEW e \in Envs, NEW dir \in Pages \cup {NULL},
         NEW p \in Pages,
         n.env_pgdir[e] = dir,
         \A d \in PDE : n.pde[e][d] = NULL,
         \A va \in VA : n.pte[e][va].page = NULL,
         \A f \in Envs \ {e} :
           n.env_pgdir[f] = m.env_pgdir[f] /\ n.pde[f] = m.pde[f] /\ n.pte[f] = m.pte[f]
  PROVE  /\ DirRefs(n, p) = (DirRefs(m, p) \ {e}) \cup (IF dir = p THEN {e} ELSE {})
         /\ PdeRefs(n, p) \subseteq PdeRefs(m, p) /\ PteRefs(n, p) \subseteq PteRefs(m, p)
         /\ Held(m, e, p) \in Nat /\ Held(m, e, p) <= Pointers(m, p)
         /\ Pointers(n, p) = Pointers(m, p) - Held(m, e, p) + One(dir = p)
<1> DEFINE T == {va \in VA : m.pte[e][va].page = p}
           D == {d \in PDE : m.pde[e][d] = p}
<1>1. /\ m.env_pgdir \in [Envs -> Pages \cup {NULL}]
      /\ m.pde \in [Envs -> [PDE -> Pages \cup {NULL}]]
      /\ m.pte \in [Envs -> [VA -> PTE]]
      /\ p # NULL
  BY NULLAssumption DEF Memory
<1>2. DirRefs(n, p) = (DirRefs(m, p) \ {e}) \cup (IF dir = p THEN {e} ELSE {})
  BY <1>1 DEF DirRefs
<1>3. PdeRefs(n, p) = PdeRefs(m, p) \ ({e} \X D)
  BY <1>1 DEF PdeRefs
<1>4. PteRefs(n, p) = PteRefs(m, p) \ ({e} \X T)
  BY <1>1 DEF PteRefs
<1>5. /\ IsFiniteSet(D) /\ Cardinality(D) \in Nat
      /\ IsFiniteSet(T) /\ Cardinality(T) \in Nat
  BY VAAssumption, FS_Subset, FS_CardinalityType
<1>6. \A d \in D : <<e, d>> \in PdeRefs(m, p)
  BY DEF PdeRefs
<1>7. \A va \in T : <<e, va>> \in PteRefs(m, p)
  BY DEF PteRefs
<1>8. e \in DirRefs(m, p) <=> m.env_pgdir[e] = p
  BY DEF DirRefs
<1>9. Held(m, e, p) = Cardinality(T) + Cardinality(D) + One(e \in DirRefs(m, p))
  BY <1>8 DEF Held, One
<1> HIDE DEF T, D
<1>10. /\ Cardinality(PdeRefs(n, p)) = Cardinality(PdeRefs(m, p)) - Cardinality(D)
       /\ Cardinality(PteRefs(n, p)) = Cardinality(PteRefs(m, p)) - Cardinality(T)
  <2>1. Cardinality(PdeRefs(m, p) \ ({e} \X D)) = Cardinality(PdeRefs(m, p)) - Cardinality(D)
    BY <1>5, <1>6, RefsFinite, SlotPairs
  <2>2. Cardinality(PteRefs(m, p) \ ({e} \X T)) = Cardinality(PteRefs(m, p)) - Cardinality(T)
    BY <1>5, <1>7, RefsFinite, SlotPairs
  <2> QED
    BY <1>3, <1>4, <2>1, <2>2
<1>11. Cardinality(DirRefs(n, p)) = Cardinality(DirRefs(m, p)) - One(e \in DirRefs(m, p)) + One(dir = p)
  <2>1. e \in DirRefs(n, p) <=> dir = p
    BY <1>2
  <2>2. \A y : y # e => (y \in DirRefs(m, p) <=> y \in DirRefs(n, p))
    BY <1>2
  <2>3. Cardinality(DirRefs(n, p))
          = Cardinality(DirRefs(m, p)) - One(e \in DirRefs(m, p)) + One(e \in DirRefs(n, p))
    BY <2>2, RefsFinite, OneChanged
  <2> QED
    BY <2>1, <2>3 DEF One
<1>12. /\ Cardinality(DirRefs(m, p)) \in Nat /\ Cardinality(DirRefs(n, p)) \in Nat
       /\ Cardinality(PdeRefs(m, p)) \in Nat /\ Cardinality(PdeRefs(n, p)) \in Nat
       /\ Cardinality(PteRefs(m, p)) \in Nat /\ Cardinality(PteRefs(n, p)) \in Nat
       /\ e \in DirRefs(m, p) => Cardinality(DirRefs(m, p)) # 0
  BY RefsFinite, FS_EmptySet
<1>13. /\ Held(m, e, p) \in Nat /\ Held(m, e, p) <= Pointers(m, p)
       /\ Pointers(n, p) = Pointers(m, p) - Held(m, e, p) + One(dir = p)
  BY ONLY <1>5, <1>9, <1>10, <1>11, <1>12 DEF Pointers, One
<1> QED
  BY <1>2, <1>3, <1>4, <1>13

-----------------------------------------------------------------------------
(***************************************************************************)
(* The operations keep the books                                           *)
(***************************************************************************)

\* The pointers are read off directories and tables alone.
LEMMA SamePointers ==
  ASSUME NEW m, NEW n, n.env_pgdir = m.env_pgdir, n.pde = m.pde, n.pte = m.pte, NEW p
  PROVE  /\ DirRefs(n, p) = DirRefs(m, p)
         /\ PdeRefs(n, p) = PdeRefs(m, p)
         /\ PteRefs(n, p) = PteRefs(m, p)
         /\ Pointers(n, p) = Pointers(m, p)
  BY DEF DirRefs, PdeRefs, PteRefs, Pointers

\* page_alloc: one page more is on no list.
LEMMA AllocBooked ==
  ASSUME NEW m, NEW taken, Booked(m, taken), HasFree(m)
  PROVE  /\ FreePage(m) \in m.page_free_list /\ FreePage(m) \in Pages
         /\ Booked(PageAlloc(m), taken \cup {FreePage(m)})
         /\ SameBalance(m, PageAlloc(m))
         /\ PageAlloc(m).panic = m.panic
<1> DEFINE pg == FreePage(m)
           n == PageAlloc(m)
<1>1. m \in Memory /\ pg \in m.page_free_list /\ pg \in Pages /\ n \in Memory
  BY FreePageType, PageAllocType DEF Booked
<1>2. /\ n.pp_ref = m.pp_ref
      /\ n.page_free_list = m.page_free_list \ {pg}
      /\ n.env_pgdir = m.env_pgdir /\ n.pde = m.pde /\ n.pte = m.pte
      /\ n.panic = m.panic
  BY <1>1 DEF PageAlloc, Memory
<1> HIDE DEF n, pg
<1>3. SameBalance(m, n)
  BY <1>2, SamePointers DEF SameBalance, Balance
<1>4. Booked(n, taken \cup {pg})
  BY <1>1, <1>2, <1>3, SamePointers DEF Booked, SameBalance
<1> QED
  BY <1>1, <1>2, <1>3, <1>4 DEF n, pg

\* page_free of a page on no list puts it back, and does not panic.
LEMMA FreeBooked ==
  ASSUME NEW m, NEW taken, Booked(m, taken), NEW pg \in taken
  PROVE  /\ Booked(PageFree(m, pg), taken \ {pg})
         /\ SameBalance(m, PageFree(m, pg))
         /\ PageFree(m, pg).panic = m.panic
<1> DEFINE n == PageFree(m, pg)
<1>1. /\ m \in Memory /\ pg \in Pages
      /\ m.pp_ref[pg] = 0 /\ pg \notin m.page_free_list
      /\ n \in Memory
  BY PageFreeType DEF Booked
<1>2. /\ n.pp_ref = m.pp_ref
      /\ n.page_free_list = m.page_free_list \cup {pg}
      /\ n.env_pgdir = m.env_pgdir /\ n.pde = m.pde /\ n.pte = m.pte
      /\ n.panic = m.panic
  BY <1>1 DEF PageFree, Memory
<1> HIDE DEF n
<1>3. SameBalance(m, n)
  BY <1>2, SamePointers DEF SameBalance, Balance
<1>4. Booked(n, taken \ {pg})
  BY <1>1, <1>2, <1>3, SamePointers DEF Booked, SameBalance
<1> QED
  BY <1>2, <1>3, <1>4 DEF n

\* pgdir_walk: the page of a new table is counted once and pointed to once.
LEMMA WalkBooked ==
  ASSUME NEW m, NEW taken, Booked(m, taken), NEW e \in Envs, NEW va \in VA,
         CanWalk(m, e, va), m.env_pgdir[e] # NULL
  PROVE  /\ Booked(PgdirWalk(m, e, va), taken)
         /\ SameBalance(m, PgdirWalk(m, e, va))
         /\ PgdirWalk(m, e, va).panic = m.panic
         /\ PgdirWalk(m, e, va).env_pgdir = m.env_pgdir
         /\ PgdirWalk(m, e, va).pte = m.pte
         /\ PgdirWalk(m, e, va).pde[e][PDX[va]] # NULL
         /\ \A p \in Pages \ m.page_free_list : PgdirWalk(m, e, va).pp_ref[p] = m.pp_ref[p]
<1> DEFINE n == PgdirWalk(m, e, va)
           d == PDX[va]
           pg == FreePage(m)
<1>1. m \in Memory /\ n \in Memory /\ d \in PDE
  BY PgdirWalkType, VAAssumption DEF Booked
<1>2. CASE m.pde[e][d] # NULL
  <2>1. n = m
    BY <1>2 DEF PgdirWalk
  <2> QED
    BY <1>2, <2>1 DEF SameBalance
<1>3. CASE m.pde[e][d] = NULL
  <2>1. /\ pg \in m.page_free_list /\ pg \in Pages
        /\ Booked(PageAlloc(m), taken \cup {pg})
        /\ SameBalance(m, PageAlloc(m))
    BY <1>3, AllocBooked DEF CanWalk
  <2>2. m.pp_ref[pg] = 0 /\ pg \notin taken
    BY <2>1 DEF Booked
  <2>3. /\ n.pp_ref = [m.pp_ref EXCEPT ![pg] = 1]
        /\ n.page_free_list = m.page_free_list \ {pg}
        /\ n.env_pgdir = m.env_pgdir
        /\ n.pde = [m.pde EXCEPT ![e][d] = pg]
        /\ n.pte = m.pte
        /\ n.panic = m.panic
    <3> DEFINE a == PageAlloc(m)
               i == Incref(a, pg)
    <3>1. /\ a.pp_ref = m.pp_ref
          /\ a.page_free_list = m.page_free_list \ {pg}
          /\ a.env_pgdir = m.env_pgdir /\ a.pde = m.pde /\ a.pte = m.pte
          /\ a.panic = m.panic
          /\ a \in Memory
      BY <1>1, PageAllocType DEF PageAlloc, Memory
    <3> HIDE DEF a, pg
    <3>2. /\ i.pp_ref = [m.pp_ref EXCEPT ![pg] = 1]
          /\ i.page_free_list = m.page_free_list \ {pg}
          /\ i.env_pgdir = m.env_pgdir /\ i.pde = m.pde /\ i.pte = m.pte
          /\ i.panic = m.panic
      <4>1. (IF a.pp_ref[pg] = RefMax THEN 0 ELSE a.pp_ref[pg] + 1) = 1
        BY <2>2, <3>1, RefMaxAssumption
      <4>2. i = [a EXCEPT !.pp_ref = [a.pp_ref EXCEPT ![pg] = 1]]
        BY <2>1, <3>1, <4>1 DEF Incref, Memory
      <4> HIDE DEF i
      <4> QED
        BY <3>1, <4>2 DEF Memory
    <3>3. i \in Memory
      BY <2>1, <3>1, IncrefType
    <3>4. n = [i EXCEPT !.pde[e][d] = pg]
      BY <1>3 DEF PgdirWalk, a, pg
    <3> HIDE DEF i, n
    <3> QED
      BY <3>2, <3>3, <3>4 DEF Memory
  <2> HIDE DEF n, pg, d
  <2>4. ASSUME NEW p \in Pages
        PROVE  /\ DirRefs(n, p) = DirRefs(m, p) /\ PteRefs(n, p) = PteRefs(m, p)
               /\ PdeRefs(n, p) = PdeRefs(m, p) \cup (IF p = pg THEN {<<e, d>>} ELSE {})
               /\ Pointers(n, p) = Pointers(m, p) + One(p = pg)
    BY <1>1, <1>3, <2>1, <2>3, TableWritten
  <2>5. ASSUME NEW p \in Pages
        PROVE  n.pp_ref[p] = m.pp_ref[p] + One(p = pg)
    <3>1. m.pp_ref \in [Pages -> 0 .. RefMax] /\ m.pp_ref[p] \in Int
      BY <1>1, MemoryFields
    <3> QED
      BY <2>2, <2>3, <3>1 DEF One
  <2>6. SameBalance(m, n)
    <3> SUFFICES ASSUME NEW p \in Pages
                 PROVE  Balance(n, p) = Balance(m, p)
      BY DEF SameBalance
    <3>1. m.pp_ref[p] \in Int /\ Pointers(m, p) \in Int
      BY BookedUse, RefMaxAssumption
    <3> QED
      BY <2>4, <2>5, <3>1 DEF Balance, One
  <2>7. \A p \in Pages : p \in n.page_free_list \cup taken <=> n.pp_ref[p] = 0
    <3> SUFFICES ASSUME NEW p \in Pages
                 PROVE  p \in n.page_free_list \cup taken <=> n.pp_ref[p] = 0
      OBVIOUS
    <3>1. CASE p = pg
      BY <2>2, <2>3, <2>5, <3>1 DEF One
    <3>2. CASE p # pg
      <4>1. n.pp_ref[p] = m.pp_ref[p]
        BY <2>3, <3>2, <1>1, MemoryFields
      <4> QED
        BY <2>3, <3>2, <4>1 DEF Booked
    <3> QED
      BY <3>1, <3>2
  <2>8. ASSUME NEW p \in Pages, DirRefs(n, p) # {} \/ PdeRefs(n, p) # {}
        PROVE  Pointers(n, p) = 1
    <3>1. CASE p = pg
      <4>1. Pointers(m, p) = 0
        BY <2>1, <3>1, BookedUse, NoPointers
      <4> QED
        BY <2>4, <3>1, <4>1 DEF One
    <3>2. CASE p # pg
      <4>1. Pointers(m, p) = 1
        BY <2>4, <2>8, <3>2 DEF Booked
      <4> QED
        BY <2>4, <3>2, <4>1 DEF One
    <3> QED
      BY <3>1, <3>2
  <2>9. \A f \in Envs : n.env_pgdir[f] = NULL =>
           /\ \A x \in PDE : n.pde[f][x] = NULL
           /\ \A y \in VA : n.pte[f][y].page = NULL
    <3> SUFFICES ASSUME NEW f \in Envs, n.env_pgdir[f] = NULL
                 PROVE  /\ \A x \in PDE : n.pde[f][x] = NULL
                        /\ \A y \in VA : n.pte[f][y].page = NULL
      OBVIOUS
    <3>1. f # e
      BY <2>3
    <3>2. m.pde \in [Envs -> [PDE -> Pages \cup {NULL}]]
      BY <1>1, MemoryFields
    <3>3. n.pde[f] = m.pde[f]
      BY <2>3, <3>1, <3>2
    <3> QED
      BY <2>3, <3>3 DEF Booked
  <2>10. Booked(n, taken)
    <3>1. /\ taken \subseteq Pages /\ taken \cap n.page_free_list = {}
          /\ \A p \in Pages : Balance(n, p) >= 0
      BY <2>3, <2>6 DEF Booked, SameBalance
    <3> QED
      BY <1>1, <2>7, <2>8, <2>9, <3>1 DEF Booked
  <2>11. n.pde[e][d] # NULL
    <3>1. m.pde \in [Envs -> [PDE -> Pages \cup {NULL}]]
      BY <1>1, MemoryFields
    <3> QED
      BY <1>1, <2>1, <2>3, <3>1, NULLAssumption
  <2>12. \A p \in Pages \ m.page_free_list : n.pp_ref[p] = m.pp_ref[p]
    BY <1>1, <2>1, <2>3, MemoryFields
  <2> QED
    BY <2>3, <2>6, <2>10, <2>11, <2>12 DEF n, d
<1> QED
  BY <1>2, <1>3

\* An entry is written and the counts of the page it had and of the page it
\* gets follow; the page it had is free when nothing else counts it.
LEMMA EntryBooked ==
  ASSUME NEW m, NEW taken, Booked(m, taken), NEW n \in Memory,
         NEW e \in Envs, NEW va \in VA, NEW entry \in PTE, NEW old,
         m.env_pgdir[e] # NULL, old = m.pte[e][va].page,
         n.env_pgdir = m.env_pgdir, n.pde = m.pde,
         n.pte = [m.pte EXCEPT ![e][va] = entry],
         \A p \in Pages : n.pp_ref[p] = m.pp_ref[p] + One(entry.page = p) - One(old = p),
         \A p \in Pages :
           p \in n.page_free_list <=> p \in m.page_free_list \/ (old = p /\ n.pp_ref[p] = 0),
         entry.page = NULL \/ entry.page \in taken \/ PteRefs(m, entry.page) # {}
  PROVE  Booked(n, taken \ {entry.page}) /\ SameBalance(m, n)
<1>1. m \in Memory /\ m.pte \in [Envs -> [VA -> PTE]]
  BY MemoryFields DEF Booked
<1>2. ASSUME NEW p \in Pages
      PROVE  /\ DirRefs(n, p) = DirRefs(m, p) /\ PdeRefs(n, p) = PdeRefs(m, p)
             /\ Pointers(n, p) = Pointers(m, p) - One(old = p) + One(entry.page = p)
  BY <1>1, EntryWritten
<1>3. ASSUME NEW p \in Pages
      PROVE  /\ m.pp_ref[p] \in Nat /\ Pointers(m, p) \in Nat
             /\ Pointers(m, p) <= m.pp_ref[p]
  BY BookedUse, RefMaxAssumption
<1>4. ASSUME NEW p \in Pages, old = p
      PROVE  /\ m.pp_ref[p] > 0 /\ p \notin m.page_free_list \cup taken
             /\ DirRefs(m, p) = {} /\ PdeRefs(m, p) = {}
  <2>1. <<e, va>> \in PteRefs(m, p)
    BY <1>4 DEF PteRefs
  <2> QED
    BY <2>1, BookedUse
<1>5. ASSUME NEW p \in Pages, entry.page = p
      PROVE  /\ p \in taken \/ m.pp_ref[p] > 0
             /\ p \notin m.page_free_list
             /\ DirRefs(m, p) = {} /\ PdeRefs(m, p) = {}
  <2>1. CASE PteRefs(m, p) # {}
    BY <2>1, BookedUse
  <2>2. CASE p \in taken
    <3>1. p \notin m.page_free_list
      BY <2>2 DEF Booked
    <3> QED
      BY <2>2, <3>1, BookedUse
  <2> QED
    BY <1>5, <2>1, <2>2, NULLAssumption
<1>6. SameBalance(m, n)
  <2> SUFFICES ASSUME NEW p \in Pages
               PROVE  Balance(n, p) = Balance(m, p)
    BY DEF SameBalance
  <2> QED
    BY <1>2, <1>3 DEF Balance, One
<1>7. ASSUME NEW p \in Pages
      PROVE  p \in n.page_free_list \cup (taken \ {entry.page}) <=> n.pp_ref[p] = 0
  <2>0. /\ n.pp_ref[p] = m.pp_ref[p] + One(entry.page = p) - One(old = p)
        /\ p \in n.page_free_list <=> p \in m.page_free_list \/ (old = p /\ n.pp_ref[p] = 0)
        /\ p \in m.page_free_list \cup taken <=> m.pp_ref[p] = 0
    BY DEF Booked
  <2>1. CASE old # p /\ entry.page = p
    <3>1. n.pp_ref[p] # 0
      BY <1>3, <2>0, <2>1 DEF One
    <3>2. p \notin n.page_free_list
      BY <1>5, <2>0, <2>1
    <3> QED
      BY <2>1, <3>1, <3>2
  <2>2. CASE old # p /\ entry.page # p
    <3>1. n.pp_ref[p] = m.pp_ref[p]
      BY <1>3, <2>0, <2>2 DEF One
    <3> QED
      BY <2>0, <2>2, <3>1
  <2>3. CASE old = p /\ entry.page = p
    BY <1>3, <1>4, <2>0, <2>3 DEF One
  <2>4. CASE old = p /\ entry.page # p
    BY <1>3, <1>4, <2>0, <2>4 DEF One
  <2> QED
    BY <2>1, <2>2, <2>3, <2>4
<1>8. ASSUME NEW p \in Pages, DirRefs(n, p) # {} \/ PdeRefs(n, p) # {}
      PROVE  Pointers(n, p) = 1
  <2>1. old # p /\ entry.page # p
    BY <1>2, <1>4, <1>5, <1>8
  <2>2. Pointers(m, p) = 1
    BY <1>2, <1>8 DEF Booked
  <2> QED
    BY <1>2, <2>1, <2>2 DEF One
<1>9. ASSUME NEW f \in Envs, n.env_pgdir[f] = NULL
      PROVE  /\ \A x \in PDE : n.pde[f][x] = NULL
             /\ \A y \in VA : n.pte[f][y].page = NULL
  <2>1. f # e /\ m.env_pgdir[f] = NULL
    BY <1>9
  <2>2. n.pte[f] = m.pte[f]
    BY <1>1, <2>1
  <2> QED
    BY <2>1, <2>2 DEF Booked
<1>10. /\ taken \ {entry.page} \subseteq Pages
       /\ (taken \ {entry.page}) \cap n.page_free_list = {}
  <2>1. taken \subseteq Pages /\ taken \cap m.page_free_list = {}
    BY DEF Booked
  <2> QED
    BY <1>4, <2>1
<1>11. \A p \in Pages : Balance(n, p) >= 0
  BY <1>6 DEF Booked, SameBalance
<1> QED
  BY <1>6, <1>7, <1>8, <1>9, <1>10, <1>11 DEF Booked

\* page_decref of a page that is counted, and what becomes of it.
LEMMA DecrefCounts ==
  ASSUME NEW m \in Memory, NEW pg \in Pages, m.pp_ref[pg] > 0, pg \notin m.page_free_list
  PROVE  /\ PageDecref(m, pg).pp_ref = [m.pp_ref EXCEPT ![pg] = @ - 1]
         /\ PageDecref(m, pg).page_free_list
              = m.page_free_list \cup (IF m.pp_ref[pg] = 1 THEN {pg} ELSE {})
         /\ PageDecref(m, pg).env_pgdir = m.env_pgdir
         /\ PageDecref(m, pg).pde = m.pde
         /\ PageDecref(m, pg).pte = m.pte
         /\ PageDecref(m, pg).panic = m.panic
         /\ PageDecref(m, pg) \in Memory
<1> DEFINE d == Decref(m, pg)
<1>1. m.pp_ref \in [Pages -> 0 .. RefMax] /\ m.pp_ref[pg] \in Nat
  BY MemoryFields, RefMaxAssumption
<1>2. d \in Memory
  BY DecrefType
<1>3. d = [m EXCEPT !.pp_ref = [m.pp_ref EXCEPT ![pg] = m.pp_ref[pg] - 1]]
  <2>1. (IF m.pp_ref[pg] = 0 THEN RefMax ELSE m.pp_ref[pg] - 1) = m.pp_ref[pg] - 1
    BY <1>1
  <2> QED
    BY <2>1 DEF Decref, Memory
<1> HIDE DEF d
<1>4. /\ d.pp_ref = [m.pp_ref EXCEPT ![pg] = @ - 1]
      /\ d.page_free_list = m.page_free_list
      /\ d.env_pgdir = m.env_pgdir /\ d.pde = m.pde /\ d.pte = m.pte
      /\ d.panic = m.panic
  BY <1>3 DEF Memory
<1>5. d.pp_ref[pg] = m.pp_ref[pg] - 1
  BY <1>1, <1>4
<1>6. PageDecref(m, pg) = IF d.pp_ref[pg] = 0 THEN PageFree(d, pg) ELSE d
  BY DEF PageDecref, d
<1>7. CASE m.pp_ref[pg] = 1
  <2>1. PageDecref(m, pg) = [d EXCEPT !.page_free_list = d.page_free_list \cup {pg}]
    BY <1>2, <1>4, <1>5, <1>6, <1>7 DEF PageFree, Memory
  <2> QED
    BY <1>2, <1>4, <1>7, <2>1 DEF Memory
<1>8. CASE m.pp_ref[pg] # 1
  <2>1. PageDecref(m, pg) = d
    BY <1>1, <1>5, <1>6, <1>8
  <2> QED
    BY <1>2, <1>4, <1>8, <2>1
<1> QED
  BY <1>7, <1>8

\* page_remove, of a page or of nothing.
LEMMA RemoveBooked ==
  ASSUME NEW m, NEW taken, Booked(m, taken), NEW e \in Envs, NEW va \in VA,
         m.env_pgdir[e] # NULL
  PROVE  /\ Booked(PageRemove(m, e, va), taken)
         /\ SameBalance(m, PageRemove(m, e, va))
         /\ PageRemove(m, e, va).panic = m.panic
<1> DEFINE n == PageRemove(m, e, va)
           pg == PageLookup(m, e, va)
<1>1. m \in Memory /\ n \in Memory /\ pg \in Pages \cup {NULL}
  BY PageRemoveType, PageLookupType DEF Booked
<1>2. CASE pg = NULL
  <2>1. n = m
    BY <1>2 DEF PageRemove
  <2> QED
    BY <1>2, <2>1 DEF SameBalance
<1>3. CASE pg # NULL
  <2> DEFINE d == PageDecref(m, pg)
  <2>1. pg \in Pages /\ pg = m.pte[e][va].page
    BY <1>1, <1>3 DEF PageLookup
  <2>2. m.pp_ref[pg] > 0 /\ pg \notin m.page_free_list
    <3>1. <<e, va>> \in PteRefs(m, pg)
      BY <2>1 DEF PteRefs
    <3> QED
      BY <2>1, <3>1, BookedUse
  <2>3. n = [d EXCEPT !.pte[e][va] = Unmapped]
    BY <1>3 DEF PageRemove
  <2>4. Unmapped \in PTE /\ Unmapped.page = NULL
    BY DEF Unmapped, PTE
  <2> HIDE DEF pg, n, d
  <2>5. /\ d.pp_ref = [m.pp_ref EXCEPT ![pg] = @ - 1]
        /\ d.page_free_list = m.page_free_list \cup (IF m.pp_ref[pg] = 1 THEN {pg} ELSE {})
        /\ d.env_pgdir = m.env_pgdir /\ d.pde = m.pde /\ d.pte = m.pte
        /\ d.panic = m.panic /\ d \in Memory
    BY <1>1, <2>1, <2>2, DecrefCounts DEF d
  <2>6. /\ n.pp_ref = d.pp_ref /\ n.page_free_list = d.page_free_list
        /\ n.env_pgdir = m.env_pgdir /\ n.pde = m.pde /\ n.panic = m.panic
        /\ n.pte = [m.pte EXCEPT ![e][va] = Unmapped]
    BY <2>3, <2>5 DEF Memory
  <2>7. m.pp_ref \in [Pages -> 0 .. RefMax] /\ m.pp_ref[pg] \in Nat
    BY <1>1, <2>1, MemoryFields, RefMaxAssumption
  <2>8. ASSUME NEW p \in Pages
        PROVE  n.pp_ref[p] = m.pp_ref[p] + One(Unmapped.page = p) - One(pg = p)
    <3>1. m.pp_ref[p] \in Int /\ Unmapped.page # p
      BY <2>4, <2>7, NULLAssumption
    <3>2. n.pp_ref[p] = IF pg = p THEN m.pp_ref[p] - 1 ELSE m.pp_ref[p]
      BY <2>5, <2>6, <2>7
    <3> QED
      BY <3>1, <3>2 DEF One
  <2>9. ASSUME NEW p \in Pages
        PROVE  p \in n.page_free_list <=> p \in m.page_free_list \/ (pg = p /\ n.pp_ref[p] = 0)
    <3>1. pg = p => (n.pp_ref[p] = 0 <=> m.pp_ref[pg] = 1)
      BY <2>5, <2>6, <2>7
    <3>2. p \in n.page_free_list <=> p \in m.page_free_list \/ (pg = p /\ m.pp_ref[pg] = 1)
      BY <2>5, <2>6
    <3> QED
      BY <3>1, <3>2
  <2>10. Booked(n, taken \ {Unmapped.page}) /\ SameBalance(m, n)
    BY <1>1, <2>1, <2>4, <2>6, <2>8, <2>9, EntryBooked
  <2>11. taken \ {Unmapped.page} = taken
    BY <2>4, NULLAssumption DEF Booked
  <2> QED
    BY <2>6, <2>10, <2>11 DEF n
<1> QED
  BY <1>1, <1>2, <1>3

\* page_insert of a page just taken, or of one that is mapped somewhere, also
\* over another mapping or over itself.
LEMMA InsertBooked ==
  ASSUME NEW m, NEW taken, Booked(m, taken), NEW e \in Envs, NEW pg \in Pages,
         NEW va \in VA, NEW perm \in SUBSET Flags,
         CanWalk(m, e, va), m.env_pgdir[e] # NULL, m.pp_ref[pg] < RefMax,
         pg \in taken \/ PteRefs(m, pg) # {}
  PROVE  /\ Booked(PageInsert(m, e, pg, va, perm), taken \ {pg})
         /\ SameBalance(m, PageInsert(m, e, pg, va, perm))
         /\ PageInsert(m, e, pg, va, perm).panic = m.panic
<1> DEFINE w == PgdirWalk(m, e, va)
           c == Incref(w, pg)
           r == PageRemove(c, e, va)
           n == PageInsert(m, e, pg, va, perm)
           old == w.pte[e][va].page
           entry == [page |-> pg, perm |-> perm \cup {"P"}]
<1>1. /\ m \in Memory /\ w \in Memory /\ c \in Memory /\ r \in Memory /\ n \in Memory
      /\ entry \in PTE /\ entry.page = pg
  BY PgdirWalkType, IncrefType, PageRemoveType, PageInsertType DEF Booked, PTE, Flags
<1>2. /\ Booked(w, taken) /\ SameBalance(m, w)
      /\ w.panic = m.panic /\ w.env_pgdir = m.env_pgdir /\ w.pte = m.pte
      /\ w.pde[e][PDX[va]] # NULL
      /\ \A p \in Pages \ m.page_free_list : w.pp_ref[p] = m.pp_ref[p]
  BY WalkBooked
<1>3. pg \in taken \/ PteRefs(w, pg) # {}
  BY <1>2 DEF PteRefs
<1>4. w.pp_ref[pg] \in Nat /\ w.pp_ref[pg] < RefMax
  <2>1. pg \notin m.page_free_list
    <3>1. CASE pg \in taken
      BY <3>1 DEF Booked
    <3>2. CASE PteRefs(m, pg) # {}
      BY <3>2, BookedUse
    <3> QED
      BY <3>1, <3>2
  <2>2. w.pp_ref[pg] \in Nat
    BY <1>1, MemoryFields, RefMaxAssumption
  <2> QED
    BY <1>2, <2>1, <2>2
<1>5. n = [r EXCEPT !.pte[e][va] = entry]
  BY DEF PageInsert
<1>6. r = IF PageLookup(c, e, va) = NULL
          THEN c
          ELSE [PageDecref(c, PageLookup(c, e, va)) EXCEPT !.pte[e][va] = Unmapped]
  BY DEF PageRemove
<1>7. c = [w EXCEPT !.pp_ref = [w.pp_ref EXCEPT ![pg] = w.pp_ref[pg] + 1]]
  <2>1. (IF w.pp_ref[pg] = RefMax THEN 0 ELSE w.pp_ref[pg] + 1) = w.pp_ref[pg] + 1
    BY <1>4
  <2> HIDE DEF w
  <2> QED
    BY <1>1, <2>1 DEF Incref, Memory
<1> HIDE DEF w, c, r, n, entry
<1>8. /\ c.pp_ref = [w.pp_ref EXCEPT ![pg] = w.pp_ref[pg] + 1]
      /\ c.page_free_list = w.page_free_list
      /\ c.env_pgdir = w.env_pgdir /\ c.pde = w.pde /\ c.pte = w.pte
      /\ c.panic = w.panic
  BY <1>1, <1>7 DEF Memory
<1>9. PageLookup(c, e, va) = old
  BY <1>2, <1>8 DEF PageLookup
<1>10. old \in Pages \cup {NULL}
  BY <1>1, <1>9, PageLookupType
<1>11. \A p \in Pages : w.pp_ref[p] \in Nat
  BY <1>1, MemoryFields, RefMaxAssumption
<1>12. w.pp_ref \in [Pages -> 0 .. RefMax] /\ c.pp_ref \in [Pages -> 0 .. RefMax]
  BY <1>1, MemoryFields
<1>13. \A p \in Pages : c.pp_ref[p] = w.pp_ref[p] + One(pg = p)
  BY <1>8, <1>11, <1>12 DEF One
<1> HIDE DEF old
<1>14. /\ r.env_pgdir = w.env_pgdir /\ r.pde = w.pde /\ r.panic = w.panic
       /\ [r.pte EXCEPT ![e][va] = entry] = [w.pte EXCEPT ![e][va] = entry]
       /\ \A p \in Pages : r.pp_ref[p] = w.pp_ref[p] + One(pg = p) - One(old = p)
       /\ \A p \in Pages :
            p \in r.page_free_list <=> p \in w.page_free_list \/ (old = p /\ r.pp_ref[p] = 0)
  <2>1. CASE old = NULL
    <3>1. r = c
      BY <1>6, <1>9, <2>1
    <3>2. \A p \in Pages : old # p
      BY <2>1, NULLAssumption
    <3>3. \A p \in Pages : r.pp_ref[p] = w.pp_ref[p] + One(pg = p) - One(old = p)
      BY <1>11, <1>13, <3>1, <3>2 DEF One
    <3>4. \A p \in Pages :
            p \in r.page_free_list <=> p \in w.page_free_list \/ (old = p /\ r.pp_ref[p] = 0)
      BY <1>8, <3>1, <3>2
    <3> QED
      BY <1>8, <3>1, <3>3, <3>4
  <2>2. CASE old # NULL
    <3> DEFINE d == PageDecref(c, old)
    <3>1. /\ old \in Pages
          /\ w.pp_ref[old] > 0 /\ old \notin w.page_free_list
      <4>1. old \in Pages /\ <<e, va>> \in PteRefs(w, old)
        BY <1>10, <2>2 DEF PteRefs, old
      <4> QED
        BY <1>2, <4>1, BookedUse
    <3>2. c.pp_ref[old] \in Nat /\ c.pp_ref[old] > 0 /\ old \notin c.page_free_list
      BY <1>8, <1>11, <1>13, <3>1 DEF One
    <3>3. r = [d EXCEPT !.pte[e][va] = Unmapped]
      BY <1>6, <1>9, <2>2
    <3> HIDE DEF d
    <3>4. /\ d.pp_ref = [c.pp_ref EXCEPT ![old] = @ - 1]
          /\ d.page_free_list = c.page_free_list \cup (IF c.pp_ref[old] = 1 THEN {old} ELSE {})
          /\ d.env_pgdir = c.env_pgdir /\ d.pde = c.pde /\ d.pte = c.pte
          /\ d.panic = c.panic /\ d \in Memory
      BY <1>1, <3>1, <3>2, DecrefCounts DEF d
    <3>5. /\ r.pp_ref = d.pp_ref /\ r.page_free_list = d.page_free_list
          /\ r.env_pgdir = c.env_pgdir /\ r.pde = c.pde /\ r.panic = c.panic
          /\ r.pte = [c.pte EXCEPT ![e][va] = Unmapped]
      BY <3>3, <3>4 DEF Memory
    <3>6. [r.pte EXCEPT ![e][va] = entry] = [w.pte EXCEPT ![e][va] = entry]
      <4>1. w.pte \in [Envs -> [VA -> PTE]]
        BY <1>1, MemoryFields
      <4> QED
        BY <1>8, <3>5, <4>1
    <3>7. ASSUME NEW p \in Pages
          PROVE  r.pp_ref[p] = w.pp_ref[p] + One(pg = p) - One(old = p)
      <4>1. r.pp_ref[p] = IF old = p THEN c.pp_ref[p] - 1 ELSE c.pp_ref[p]
        BY <1>12, <3>4, <3>5
      <4>2. c.pp_ref[p] = w.pp_ref[p] + One(pg = p) /\ w.pp_ref[p] \in Nat
        BY <1>11, <1>13
      <4> QED
        BY <4>1, <4>2 DEF One
    <3>8. ASSUME NEW p \in Pages
          PROVE  p \in r.page_free_list <=> p \in w.page_free_list \/ (old = p /\ r.pp_ref[p] = 0)
      <4>1. old = p => (r.pp_ref[p] = 0 <=> c.pp_ref[old] = 1)
        BY <1>12, <3>2, <3>4, <3>5
      <4>2. p \in r.page_free_list <=> p \in w.page_free_list \/ (old = p /\ c.pp_ref[old] = 1)
        BY <1>8, <3>4, <3>5
      <4> QED
        BY <4>1, <4>2
    <3> QED
      BY <1>8, <3>5, <3>6, <3>7, <3>8
  <2> QED
    BY <2>1, <2>2
<1>15. /\ n.pp_ref = r.pp_ref /\ n.page_free_list = r.page_free_list
       /\ n.env_pgdir = r.env_pgdir /\ n.pde = r.pde /\ n.panic = r.panic
       /\ n.pte = [r.pte EXCEPT ![e][va] = entry]
  BY <1>1, <1>5 DEF Memory
<1>16. Booked(n, taken \ {entry.page}) /\ SameBalance(w, n)
  <2>1. old = w.pte[e][va].page
    BY DEF old
  <2>2. w.env_pgdir[e] # NULL
    BY <1>2
  <2>3. \A p \in Pages : n.pp_ref[p] = w.pp_ref[p] + One(entry.page = p) - One(old = p)
    BY <1>1, <1>14, <1>15
  <2>4. \A p \in Pages :
          p \in n.page_free_list <=> p \in w.page_free_list \/ (old = p /\ n.pp_ref[p] = 0)
    BY <1>14, <1>15
  <2>5. /\ n.env_pgdir = w.env_pgdir /\ n.pde = w.pde
        /\ n.pte = [w.pte EXCEPT ![e][va] = entry]
    BY <1>14, <1>15
  <2>6. entry.page \in taken \/ PteRefs(w, entry.page) # {}
    BY <1>1, <1>3
  <2>7. n \in Memory /\ entry \in PTE /\ Booked(w, taken)
    BY <1>1, <1>2
  <2> QED
    BY ONLY <2>1, <2>2, <2>3, <2>4, <2>5, <2>6, <2>7, EntryBooked, e \in Envs, va \in VA
<1>17. SameBalance(m, n) /\ n.panic = m.panic
  BY <1>2, <1>14, <1>15, <1>16 DEF SameBalance
<1> QED
  BY <1>1, <1>16, <1>17 DEF n

\* A new page is mapped.
LEMMA NewPageBooked ==
  ASSUME NEW m, Booked(m, {}), NEW e \in Envs, NEW va \in VA, NEW perm \in SUBSET Flags,
         HasFree(m), CanWalk(PageAlloc(m), e, va), m.env_pgdir[e] # NULL
  PROVE  /\ Booked(PageInsert(PageAlloc(m), e, FreePage(m), va, perm), {})
         /\ SameBalance(m, PageInsert(PageAlloc(m), e, FreePage(m), va, perm))
         /\ PageInsert(PageAlloc(m), e, FreePage(m), va, perm).panic = m.panic
<1> DEFINE pg == FreePage(m)
           a == PageAlloc(m)
           n == PageInsert(a, e, pg, va, perm)
           held == {pg}
<1>1. /\ pg \in Pages /\ Booked(a, {} \cup {pg})
      /\ SameBalance(m, a) /\ a.panic = m.panic
  BY AllocBooked
<1>2. a.env_pgdir[e] # NULL
  BY <1>1, PageOpsFrame DEF Booked
<1> HIDE DEF a, pg
<1>3. Booked(a, held) /\ pg \in held /\ held \ {pg} = {}
  BY <1>1
<1>4. a.pp_ref[pg] < RefMax
  BY <1>1, <1>3, RefMaxAssumption DEF Booked
<1>5. CanWalk(a, e, va)
  BY DEF a
<1> HIDE DEF held
<1>6. Booked(n, held \ {pg}) /\ SameBalance(a, n) /\ n.panic = a.panic
  <2>1. \A w, t : Booked(w, t) /\ w.env_pgdir[e] # NULL /\ CanWalk(w, e, va) =>
          \A q \in Pages : w.pp_ref[q] < RefMax /\ q \in t =>
            LET x == PageInsert(w, e, q, va, perm)
            IN  Booked(x, t \ {q}) /\ SameBalance(w, x) /\ x.panic = w.panic
    BY InsertBooked
  <2> QED
    BY <1>1, <1>2, <1>3, <1>4, <1>5, <2>1
<1> QED
  BY <1>1, <1>3, <1>6 DEF SameBalance, n, a, pg

\* env_setup_vm: the directory is a new page counted once.  The pages a slot in
\* use held stay counted and are not pointed to any more.
LEMMA SetupBooked ==
  ASSUME NEW m, Booked(m, {}), NEW e \in Envs, HasFree(m)
  PROVE  /\ Booked(EnvSetupVm(m, e), {})
         /\ m.env_pgdir[e] = NULL => SameBalance(m, EnvSetupVm(m, e))
         /\ EnvSetupVm(m, e).panic = m.panic
<1> DEFINE pg == FreePage(m)
           a == PageAlloc(m)
           i == Incref(a, pg)
           n == EnvSetupVm(m, e)
<1>1. m \in Memory /\ n \in Memory /\ pg \in m.page_free_list /\ pg \in Pages
  BY FreePageType, EnvSetupVmType DEF Booked
<1>2. m.pp_ref[pg] = 0
  BY <1>1 DEF Booked
<1>3. /\ n.pp_ref = [m.pp_ref EXCEPT ![pg] = 1]
      /\ n.page_free_list = m.page_free_list \ {pg}
      /\ n.env_pgdir = [m.env_pgdir EXCEPT ![e] = pg]
      /\ n.pde = [m.pde EXCEPT ![e] = [d \in PDE |-> NULL]]
      /\ n.pte = [m.pte EXCEPT ![e] = [va \in VA |-> Unmapped]]
      /\ n.panic = m.panic
  <2>1. /\ a.pp_ref = m.pp_ref
        /\ a.page_free_list = m.page_free_list \ {pg}
        /\ a.env_pgdir = m.env_pgdir /\ a.pde = m.pde /\ a.pte = m.pte
        /\ a.panic = m.panic
        /\ a \in Memory
    BY <1>1, PageAllocType DEF PageAlloc, Memory
  <2> HIDE DEF a, pg
  <2>2. i \in Memory
    BY <1>1, <2>1, IncrefType
  <2>3. (IF a.pp_ref[pg] = RefMax THEN 0 ELSE a.pp_ref[pg] + 1) = 1
    BY <1>2, <2>1, RefMaxAssumption
  <2>4. i = [a EXCEPT !.pp_ref = [a.pp_ref EXCEPT ![pg] = 1]]
    BY <1>1, <2>1, <2>3 DEF Incref, Memory
  <2>5. n = [i EXCEPT !.env_pgdir[e] = pg,
                      !.pde[e] = [d \in PDE |-> NULL],
                      !.pte[e] = [va \in VA |-> Unmapped]]
    BY DEF EnvSetupVm, a, pg
  <2> HIDE DEF i, n
  <2>6. /\ i.pp_ref = [m.pp_ref EXCEPT ![pg] = 1]
        /\ i.page_free_list = m.page_free_list \ {pg}
        /\ i.env_pgdir = m.env_pgdir /\ i.pde = m.pde /\ i.pte = m.pte
        /\ i.panic = m.panic
    BY <2>1, <2>4 DEF Memory
  <2> QED
    BY <2>2, <2>5, <2>6 DEF Memory
<1> HIDE DEF pg, n
<1>4. ASSUME NEW p \in Pages
      PROVE  /\ DirRefs(n, p) = (DirRefs(m, p) \ {e}) \cup (IF pg = p THEN {e} ELSE {})
             /\ PdeRefs(n, p) \subseteq PdeRefs(m, p)
             /\ Held(m, e, p) \in Nat /\ Held(m, e, p) <= Pointers(m, p)
             /\ Pointers(n, p) = Pointers(m, p) - Held(m, e, p) + One(pg = p)
  <2>1. /\ m.env_pgdir \in [Envs -> Pages \cup {NULL}]
        /\ m.pde \in [Envs -> [PDE -> Pages \cup {NULL}]]
        /\ m.pte \in [Envs -> [VA -> PTE]]
    BY <1>1, MemoryFields
  <2>2. /\ n.env_pgdir[e] = pg
        /\ \A d \in PDE : n.pde[e][d] = NULL
        /\ \A va \in VA : n.pte[e][va].page = NULL
        /\ \A f \in Envs \ {e} :
             n.env_pgdir[f] = m.env_pgdir[f] /\ n.pde[f] = m.pde[f] /\ n.pte[f] = m.pte[f]
    BY <1>3, <2>1 DEF Unmapped
  <2> QED
    BY <1>1, <2>2, SlotCleared
<1>5. ASSUME NEW p \in Pages
      PROVE  /\ m.pp_ref[p] \in Nat /\ Pointers(m, p) \in Nat
             /\ Pointers(m, p) <= m.pp_ref[p]
             /\ n.pp_ref[p] = m.pp_ref[p] + One(pg = p)
  <2>1. m.pp_ref \in [Pages -> 0 .. RefMax] /\ m.pp_ref[p] \in Nat
    BY <1>1, MemoryFields, RefMaxAssumption
  <2>2. n.pp_ref[p] = m.pp_ref[p] + One(pg = p)
    BY <1>2, <1>3, <2>1 DEF One
  <2> QED
    BY <2>1, <2>2, BookedUse
<1>6. ASSUME NEW p \in Pages
      PROVE  Balance(n, p) = Balance(m, p) + Held(m, e, p)
  BY <1>4, <1>5 DEF Balance, One
<1>7. \A p \in Pages : Balance(n, p) >= 0
  BY <1>4, <1>5, <1>6 DEF Balance
<1>8. ASSUME NEW p \in Pages
      PROVE  p \in n.page_free_list <=> n.pp_ref[p] = 0
  <2>1. p \in m.page_free_list <=> m.pp_ref[p] = 0
    BY DEF Booked
  <2>2. CASE p = pg
    BY <1>3, <1>5, <2>2 DEF One
  <2>3. CASE p # pg
    <3>1. n.pp_ref[p] = m.pp_ref[p]
      BY <1>5, <2>3 DEF One
    <3> QED
      BY <1>3, <2>1, <2>3, <3>1
  <2> QED
    BY <2>2, <2>3
<1>9. ASSUME NEW p \in Pages, DirRefs(n, p) # {} \/ PdeRefs(n, p) # {}
      PROVE  Pointers(n, p) = 1
  <2>1. CASE p = pg
    <3>1. Pointers(m, p) = 0
      BY <1>1, <2>1, BookedUse, NoPointers
    <3>2. Held(m, e, p) = 0
      BY <1>4, <3>1
    <3> QED
      BY <1>4, <2>1, <3>1, <3>2 DEF One
  <2>2. CASE p # pg
    <3>1. DirRefs(m, p) # {} \/ PdeRefs(m, p) # {}
      BY <1>4, <1>9, <2>2
    <3>2. Pointers(m, p) = 1
      BY <3>1 DEF Booked
    <3>3. Pointers(n, p) \in Nat /\ Pointers(n, p) # 0
      BY <1>9, RefsFinite, NoPointers
    <3>4. Pointers(n, p) = 1 - Held(m, e, p)
      BY <1>4, <2>2, <3>2 DEF One
    <3> QED
      BY <1>4, <3>3, <3>4
  <2> QED
    BY <2>1, <2>2
<1>10. ASSUME NEW f \in Envs, n.env_pgdir[f] = NULL
       PROVE  /\ \A x \in PDE : n.pde[f][x] = NULL
              /\ \A y \in VA : n.pte[f][y].page = NULL
  <2>1. /\ m.env_pgdir \in [Envs -> Pages \cup {NULL}]
        /\ m.pde \in [Envs -> [PDE -> Pages \cup {NULL}]]
        /\ m.pte \in [Envs -> [VA -> PTE]]
    BY <1>1, MemoryFields
  <2>2. f # e /\ m.env_pgdir[f] = NULL
    BY <1>1, <1>3, <1>10, <2>1, NULLAssumption
  <2>3. n.pde[f] = m.pde[f] /\ n.pte[f] = m.pte[f]
    BY <1>3, <2>1, <2>2
  <2> QED
    BY <2>2, <2>3 DEF Booked
<1>11. Booked(n, {})
  BY <1>1, <1>7, <1>8, <1>9, <1>10 DEF Booked
<1>12. m.env_pgdir[e] = NULL => SameBalance(m, n)
  <2> SUFFICES ASSUME m.env_pgdir[e] = NULL, NEW p \in Pages
               PROVE  Balance(n, p) = Balance(m, p)
    BY DEF SameBalance
  <2> DEFINE T == {va \in VA : m.pte[e][va].page = p}
             D == {d \in PDE : m.pde[e][d] = p}
  <2>1. T = {} /\ D = {} /\ m.env_pgdir[e] # p
    BY NULLAssumption DEF Booked
  <2>2. Held(m, e, p) = 0
    <3>1. Held(m, e, p) = Cardinality(T) + Cardinality(D) + 0
      BY <2>1 DEF Held
    <3> HIDE DEF T, D
    <3>2. Cardinality(T) = 0 /\ Cardinality(D) = 0
      BY <2>1, FS_EmptySet
    <3> QED
      BY <3>1, <3>2
  <2> QED
    BY <1>5, <1>6, <2>2 DEF Balance
<1> QED
  BY <1>3, <1>11, <1>12 DEF n

\* env_free: every page loses what the slot held of it, and goes on the list
\* when that was all.
LEMMA FreeVmBooked ==
  ASSUME NEW m, Booked(m, {}), NEW e \in Envs
  PROVE  /\ Booked(FreeVm(m, e), {})
         /\ SameBalance(m, FreeVm(m, e))
         /\ FreeVm(m, e).panic = m.panic
<1> DEFINE n == FreeVm(m, e)
           freed == {p \in Pages : m.pp_ref[p] > 0 /\ m.pp_ref[p] <= Held(m, e, p)}
           left(p) == IF m.pp_ref[p] >= Held(m, e, p)
                      THEN m.pp_ref[p] - Held(m, e, p)
                      ELSE (m.pp_ref[p] - Held(m, e, p)) % (RefMax + 1)
<1>1. m \in Memory /\ n \in Memory
  BY FreeVmType DEF Booked
<1>2. freed \cap m.page_free_list = {}
  <2> SUFFICES ASSUME NEW p \in Pages, m.pp_ref[p] > 0
               PROVE  p \notin m.page_free_list
    OBVIOUS
  <2>1. m.pp_ref[p] # 0
    BY <1>1, RefMaxAssumption DEF Memory
  <2> QED
    BY <2>1 DEF Booked
<1>3. n = [m EXCEPT !.pp_ref = [p \in Pages |-> left(p)],
                    !.page_free_list = m.page_free_list \cup freed,
                    !.env_pgdir = [m.env_pgdir EXCEPT ![e] = NULL],
                    !.pde = [m.pde EXCEPT ![e] = [d \in PDE |-> NULL]],
                    !.pte = [m.pte EXCEPT ![e] = [va \in VA |-> Unmapped]],
                    !.panic = IF freed \cap m.page_free_list # {} THEN "page_free" ELSE m.panic]
  BY <1>1 DEF FreeVm, Memory
<1> HIDE DEF n, freed, left
<1>4. /\ n.pp_ref = [p \in Pages |-> left(p)]
      /\ n.page_free_list = m.page_free_list \cup freed
      /\ n.env_pgdir = [m.env_pgdir EXCEPT ![e] = NULL]
      /\ n.pde = [m.pde EXCEPT ![e] = [d \in PDE |-> NULL]]
      /\ n.pte = [m.pte EXCEPT ![e] = [va \in VA |-> Unmapped]]
      /\ n.panic = IF freed \cap m.page_free_list # {} THEN "page_free" ELSE m.panic
  BY <1>1, <1>3 DEF Memory
<1>5. n.panic = m.panic
  BY <1>2, <1>4
<1>6. ASSUME NEW p \in Pages
      PROVE  /\ NULL # p
             /\ DirRefs(n, p) = (DirRefs(m, p) \ {e}) \cup (IF NULL = p THEN {e} ELSE {})
             /\ PdeRefs(n, p) \subseteq PdeRefs(m, p)
             /\ Held(m, e, p) \in Nat /\ Held(m, e, p) <= Pointers(m, p)
             /\ Pointers(n, p) = Pointers(m, p) - Held(m, e, p) + One(NULL = p)
  <2>1. /\ m.env_pgdir \in [Envs -> Pages \cup {NULL}]
        /\ m.pde \in [Envs -> [PDE -> Pages \cup {NULL}]]
        /\ m.pte \in [Envs -> [VA -> PTE]]
    BY <1>1, MemoryFields
  <2>2. /\ n.env_pgdir[e] = NULL
        /\ \A d \in PDE : n.pde[e][d] = NULL
        /\ \A va \in VA : n.pte[e][va].page = NULL
        /\ \A f \in Envs \ {e} :
             n.env_pgdir[f] = m.env_pgdir[f] /\ n.pde[f] = m.pde[f] /\ n.pte[f] = m.pte[f]
    BY <1>4, <2>1 DEF Unmapped
  <2> QED
    BY <1>1, <2>2, SlotCleared, NULLAssumption
<1>7. ASSUME NEW p \in Pages
      PROVE  Pointers(n, p) = Pointers(m, p) - Held(m, e, p)
  BY <1>6, RefsFinite DEF One
<1>8. ASSUME NEW p \in Pages
      PROVE  /\ m.pp_ref[p] \in Nat /\ Pointers(m, p) \in Nat
             /\ Pointers(m, p) <= m.pp_ref[p]
             /\ n.pp_ref[p] = m.pp_ref[p] - Held(m, e, p)
  <2>1. /\ m.pp_ref[p] \in Nat /\ Pointers(m, p) \in Nat
        /\ Pointers(m, p) <= m.pp_ref[p]
    BY BookedUse, RefMaxAssumption
  <2>2. m.pp_ref[p] >= Held(m, e, p)
    BY <1>6, <2>1
  <2> QED
    BY <1>4, <2>1, <2>2 DEF left
<1>9. SameBalance(m, n)
  BY <1>6, <1>7, <1>8 DEF SameBalance, Balance
<1>10. ASSUME NEW p \in Pages
       PROVE  p \in n.page_free_list <=> n.pp_ref[p] = 0
  <2>1. p \in m.page_free_list <=> m.pp_ref[p] = 0
    BY DEF Booked
  <2>2. p \in n.page_free_list <=> m.pp_ref[p] = 0 \/ m.pp_ref[p] <= Held(m, e, p)
    BY <1>4, <1>6, <1>8, <2>1 DEF freed
  <2> QED
    BY <1>6, <1>8, <2>2
<1>11. ASSUME NEW p \in Pages, DirRefs(n, p) # {} \/ PdeRefs(n, p) # {}
       PROVE  Pointers(n, p) = 1
  <2>1. DirRefs(m, p) # {} \/ PdeRefs(m, p) # {}
    BY <1>6, <1>11
  <2>2. Pointers(m, p) = 1
    BY <2>1 DEF Booked
  <2>3. Pointers(n, p) \in Nat /\ Pointers(n, p) # 0
    BY <1>11, RefsFinite, NoPointers
  <2> QED
    BY <1>6, <1>7, <2>2, <2>3
<1>12. ASSUME NEW f \in Envs, n.env_pgdir[f] = NULL
       PROVE  /\ \A x \in PDE : n.pde[f][x] = NULL
              /\ \A y \in VA : n.pte[f][y].page = NULL
  <2>1. /\ m.env_pgdir \in [Envs -> Pages \cup {NULL}]
        /\ m.pde \in [Envs -> [PDE -> Pages \cup {NULL}]]
        /\ m.pte \in [Envs -> [VA -> PTE]]
    BY <1>1, MemoryFields
  <2>2. CASE f = e
    BY <1>4, <2>1, <2>2 DEF Unmapped
  <2>3. CASE f # e
    BY <1>4, <1>12, <2>1, <2>3 DEF Booked
  <2> QED
    BY <2>2, <2>3
<1>13. \A p \in Pages : Balance(n, p) >= 0
  BY <1>9 DEF Booked, SameBalance
<1>14. Booked(n, {})
  BY <1>1, <1>10, <1>11, <1>12, <1>13 DEF Booked
<1> QED
  BY <1>5, <1>9, <1>14 DEF n

-----------------------------------------------------------------------------
(***************************************************************************)
(* Read-only pages                                                         *)
(***************************************************************************)

\* A page mapped read-only everywhere in m is mapped read-only everywhere in n.
KeepsReadOnly(m, n) ==
  \A p \in Pages :
    /\ PteRefs(m, p) # {}
    /\ \A x \in PteRefs(m, p) : ~Writable(m, x[1], x[2])
    => \A x \in PteRefs(n, p) : ~Writable(n, x[1], x[2])

\* Entries that are cleared give nothing away.
LEMMA ClearedKeepsReadOnly ==
  ASSUME NEW m, NEW n,
         \A e \in Envs, va \in VA : n.pte[e][va] = m.pte[e][va] \/ n.pte[e][va].page = NULL
  PROVE  KeepsReadOnly(m, n)
<1> SUFFICES ASSUME NEW p \in Pages, NEW x \in PteRefs(n, p)
             PROVE  x \in PteRefs(m, p) /\ (Writable(n, x[1], x[2]) => Writable(m, x[1], x[2]))
  BY DEF KeepsReadOnly
<1>1. x \in Envs \X VA /\ n.pte[x[1]][x[2]].page = p
  BY DEF PteRefs
<1>2. x[1] \in Envs /\ x[2] \in VA /\ p # NULL
  BY <1>1, NULLAssumption
<1>3. n.pte[x[1]][x[2]] = m.pte[x[1]][x[2]]
  BY <1>1, <1>2
<1> QED
  BY <1>1, <1>3 DEF PteRefs, Writable

\* A page that is handed on is handed on writable only by one who can write it.
LEMMA InsertedKeepsReadOnly ==
  ASSUME NEW m \in Memory, NEW n, NEW e \in Envs, NEW va \in VA, NEW pg \in Pages,
         NEW perm \in SUBSET Flags, NEW entry,
         entry = [page |-> pg, perm |-> perm \cup {"P"}],
         n.pte = [m.pte EXCEPT ![e][va] = entry],
         \/ PteRefs(m, pg) = {}
         \/ "W" \notin perm
         \/ \E x \in PteRefs(m, pg) : Writable(m, x[1], x[2])
  PROVE  KeepsReadOnly(m, n)
<1> SUFFICES ASSUME NEW p \in Pages, NEW y \in PteRefs(n, p),
                    PteRefs(m, p) # {},
                    \A x \in PteRefs(m, p) : ~Writable(m, x[1], x[2])
             PROVE  ~Writable(n, y[1], y[2])
  BY DEF KeepsReadOnly
<1>1. m.pte \in [Envs -> [VA -> PTE]]
  BY MemoryFields
<1>2. y \in Envs \X VA /\ n.pte[y[1]][y[2]].page = p
  BY DEF PteRefs
<1>3. y[1] \in Envs /\ y[2] \in VA
  BY <1>2
<1>4. CASE y[1] = e /\ y[2] = va
  <2>1. n.pte[y[1]][y[2]] = [page |-> pg, perm |-> perm \cup {"P"}]
    BY <1>1, <1>3, <1>4
  <2>2. p = pg /\ "W" \notin perm
    BY <1>2, <2>1
  <2> QED
    BY <2>1, <2>2 DEF Writable
<1>5. CASE ~(y[1] = e /\ y[2] = va)
  <2>1. n.pte[y[1]][y[2]] = m.pte[y[1]][y[2]]
    BY <1>1, <1>3, <1>5
  <2>2. y \in PteRefs(m, p)
    BY <1>2, <2>1 DEF PteRefs
  <2> QED
    BY <2>1, <2>2 DEF Writable
<1> QED
  BY <1>4, <1>5

-----------------------------------------------------------------------------
(***************************************************************************)
(* The invariant, and the steps of the kernel                              *)
(***************************************************************************)

\* The books are right after every call; and as long as no slot in use was
\* handed out again, every count is accounted for.
PagesInv ==
  /\ Booked(mem, {})
  /\ ~clobbered => \A p \in Pages : Balance(mem, p) = 0

\* pp_ref is 16 bits wide, and page_incref does not look: one mapping more than
\* it can count makes it 0.
CountsFit == \A p \in Pages : mem.pp_ref[p] < RefMax

\* What a step does to the books.
LEMMA BooksAfterStep ==
  ASSUME PagesInv, Booked(mem', {}), SameBalance(mem, mem') \/ clobbered',
         clobbered => clobbered'
  PROVE  PagesInv'
<1>1. ASSUME ~clobbered', NEW p \in Pages
      PROVE  Balance(mem', p) = 0
  BY <1>1 DEF PagesInv, SameBalance
<1> QED
  BY <1>1 DEF PagesInv, Booked, Balance, Pointers, DirRefs, PdeRefs, PteRefs

\* The slots a call may write have a directory.
LEMMA TargetHasDirectory ==
  ASSUME KernelInv, NEW e \in Envs, env_status[e] # "ENV_FREE"
  PROVE  mem.env_pgdir[e] # NULL
  BY DEF KernelInv, LiveHasDirectory, InUse

\* A page found at an address is mapped there.
LEMMA LookedUpIsMapped ==
  ASSUME NEW e \in Envs, NEW va \in VA, PageLookup(mem, e, va) # NULL
  PROVE  /\ <<e, va>> \in PteRefs(mem, PageLookup(mem, e, va))
         /\ Writable(mem, e, va) =>
              \E x \in PteRefs(mem, PageLookup(mem, e, va)) : Writable(mem, x[1], x[2])
<1>1. <<e, va>> \in PteRefs(mem, PageLookup(mem, e, va))
  BY DEF PageLookup, PteRefs
<1> QED
  BY <1>1

\* page_insert on behalf of a call: the page was just taken, or the caller may
\* pass it on.
LEMMA MapStep ==
  ASSUME KernelInv, PagesInv, CountsFit, UNCHANGED clobbered,
         NEW src \in Envs, NEW srcva \in VA, NEW e \in Envs, NEW va \in VA,
         NEW perm \in SUBSET Flags,
         env_status[e] # "ENV_FREE", CanPass(src, srcva, perm), CanWalk(mem, e, va),
         mem' = PageInsert(mem, e, PageLookup(mem, src, srcva), va, perm)
  PROVE  PagesInv' /\ mem'.panic = mem.panic /\ KeepsReadOnly(mem, mem')
<1> DEFINE pg == PageLookup(mem, src, srcva)
<1>1. Booked(mem, {}) /\ mem \in Memory
  BY DEF PagesInv, Booked
<1>2. pg \in Pages /\ PteRefs(mem, pg) # {}
  BY <1>1, PageLookupType, LookedUpIsMapped DEF CanPass
<1>3. mem.pp_ref[pg] < RefMax /\ mem.env_pgdir[e] # NULL
  BY <1>2, TargetHasDirectory DEF CountsFit
<1>4. "W" \notin perm \/ \E x \in PteRefs(mem, pg) : Writable(mem, x[1], x[2])
  BY LookedUpIsMapped DEF CanPass
<1> DEFINE entry == [page |-> pg, perm |-> perm \cup {"P"}]
<1> HIDE DEF pg
<1>5. Booked(mem', {}) /\ SameBalance(mem, mem') /\ mem'.panic = mem.panic
  <2>1. /\ Booked(mem', {} \ {pg})
        /\ SameBalance(mem, mem') /\ mem'.panic = mem.panic
    BY <1>1, <1>2, <1>3, InsertBooked DEF pg
  <2>2. {} \ {pg} = {}
    OBVIOUS
  <2> QED
    BY <2>1, <2>2
<1>6. KeepsReadOnly(mem, mem')
  <2>1. mem'.pte = [mem.pte EXCEPT ![e][va] = entry]
    BY <1>1, <1>2, PageInsertEntries DEF pg
  <2>2. entry = [page |-> pg, perm |-> perm \cup {"P"}]
    OBVIOUS
  <2>3. \/ PteRefs(mem, pg) = {}
        \/ "W" \notin perm
        \/ \E x \in PteRefs(mem, pg) : Writable(mem, x[1], x[2])
    BY <1>4
  <2>4. pg \in Pages /\ mem \in Memory
    BY <1>1, <1>2
  <2> HIDE DEF entry
  <2> QED
    BY <2>1, <2>2, <2>3, <2>4, InsertedKeepsReadOnly
<1> QED
  BY <1>5, <1>6, BooksAfterStep

\* sys_page_alloc, also when it gives the page back.
LEMMA AllocStep ==
  ASSUME KernelInv, PagesInv, CountsFit,
         NEW envid \in EnvIds, NEW va \in VA, NEW perm \in Perms,
         SysPageAlloc(envid, va, perm)
  PROVE  PagesInv' /\ mem'.panic = mem.panic /\ KeepsReadOnly(mem, mem')
<1> DEFINE e == envid2env(envid, TRUE)
           pg == FreePage(mem)
           taken == PageAlloc(mem)
<1>1. /\ Booked(mem, {}) /\ mem \in Memory /\ HasFree(mem)
      /\ perm \in SUBSET Flags
      /\ clobbered' = clobbered
  BY PermsAssumption DEF PagesInv, Booked, SysPageAlloc, slotVars
<1>2. e \in Envs /\ mem.env_pgdir[e] # NULL
  BY Envid2envType, TargetHasDirectory DEF SysPageAlloc, Running
<1>3. mem' = IF CanWalk(taken, e, va)
             THEN PageInsert(taken, e, pg, va, perm)
             ELSE PageFree(taken, pg)
  BY DEF SysPageAlloc
<1>4. /\ pg \in Pages /\ pg \in mem.page_free_list
      /\ Booked(taken, {} \cup {pg})
      /\ SameBalance(mem, taken) /\ taken.panic = mem.panic
  BY <1>1, AllocBooked
<1>5. /\ taken \in Memory /\ taken.pte = mem.pte /\ taken.env_pgdir = mem.env_pgdir
  BY <1>1, <1>4, PageAllocType, PageOpsEntries, PageOpsFrame
<1> HIDE DEF e, pg, taken
<1>6. {} \cup {pg} = {pg} /\ {pg} \ {pg} = {}
  OBVIOUS
<1>7. CASE CanWalk(taken, e, va)
  <2>0. mem' = PageInsert(taken, e, pg, va, perm)
    BY <1>3, <1>7
  <2>1. Booked(mem', {}) /\ SameBalance(mem, mem') /\ mem'.panic = mem.panic
    BY <1>1, <1>2, <1>7, <2>0, NewPageBooked DEF taken, pg
  <2> DEFINE entry == [page |-> pg, perm |-> perm \cup {"P"}]
  <2>4. mem'.pte = [mem.pte EXCEPT ![e][va] = entry]
    BY <1>1, <1>2, <1>4, <1>5, <1>7, <2>0, PageInsertEntries
  <2>5. PteRefs(mem, pg) = {}
    BY <1>1, <1>4, BookedUse
  <2>6. KeepsReadOnly(mem, mem')
    <3>1. entry = [page |-> pg, perm |-> perm \cup {"P"}]
      OBVIOUS
    <3> HIDE DEF entry
    <3> QED
      BY <1>1, <1>2, <1>4, <2>4, <2>5, <3>1, InsertedKeepsReadOnly
  <2> QED
    BY <1>1, <2>1, <2>6, BooksAfterStep
<1>8. CASE ~CanWalk(taken, e, va)
  <2>1. mem' = PageFree(taken, pg)
    BY <1>3, <1>8
  <2>2. Booked(mem', {pg} \ {pg}) /\ SameBalance(taken, mem') /\ mem'.panic = taken.panic
    BY <1>4, <1>6, <2>1, FreeBooked
  <2>3. SameBalance(mem, mem') /\ mem'.panic = mem.panic
    BY <1>4, <2>2 DEF SameBalance
  <2>4. mem'.pte = mem.pte
    BY <1>4, <1>5, <2>1, PageOpsEntries
  <2>5. KeepsReadOnly(mem, mem')
    BY <2>4, ClearedKeepsReadOnly
  <2> QED
    BY <1>1, <1>6, <2>2, <2>3, <2>5, BooksAfterStep
<1> QED
  BY <1>7, <1>8

\* sys_page_unmap.
LEMMA UnmapStep ==
  ASSUME KernelInv, PagesInv, NEW envid \in EnvIds, NEW va \in VA, SysPageUnmap(envid, va)
  PROVE  PagesInv' /\ mem'.panic = mem.panic /\ KeepsReadOnly(mem, mem')
<1> DEFINE e == envid2env(envid, TRUE)
<1>1. /\ Booked(mem, {}) /\ mem \in Memory /\ clobbered' = clobbered
      /\ mem' = PageRemove(mem, e, va)
  BY DEF PagesInv, Booked, SysPageUnmap, slotVars
<1>2. e \in Envs /\ mem.env_pgdir[e] # NULL
  BY Envid2envType, TargetHasDirectory DEF SysPageUnmap, Running
<1> HIDE DEF e
<1>3. Booked(mem', {}) /\ SameBalance(mem, mem') /\ mem'.panic = mem.panic
  BY <1>1, <1>2, RemoveBooked
<1>4. KeepsReadOnly(mem, mem')
  <2>1. mem'.pte = mem.pte \/ mem'.pte = [mem.pte EXCEPT ![e][va] = Unmapped]
    BY <1>1, <1>2, PageRemoveEntries
  <2>2. mem.pte \in [Envs -> [VA -> PTE]] /\ Unmapped.page = NULL
    BY <1>1, MemoryFields DEF Unmapped
  <2>3. \A f \in Envs, y \in VA : mem'.pte[f][y] = mem.pte[f][y] \/ mem'.pte[f][y].page = NULL
    BY <1>2, <2>1, <2>2
  <2> QED
    BY <2>3, ClearedKeepsReadOnly
<1> QED
  BY <1>1, <1>3, <1>4, BooksAfterStep

\* env_destroy, of the environment that runs or of another one.
LEMMA DestroyStep ==
  ASSUME PagesInv, NEW e \in Envs, EnvDestroy(e)
  PROVE  PagesInv' /\ mem'.panic = mem.panic /\ KeepsReadOnly(mem, mem')
<1>1. /\ Booked(mem, {}) /\ mem \in Memory
      /\ mem' = FreeVm(mem, e) /\ clobbered' = clobbered
  BY DEF PagesInv, Booked, EnvDestroy
<1>2. Booked(mem', {}) /\ SameBalance(mem, mem') /\ mem'.panic = mem.panic
  BY <1>1, FreeVmBooked
<1>3. KeepsReadOnly(mem, mem')
  <2>1. /\ \A va \in VA : mem'.pte[e][va] = Unmapped
        /\ \A f \in Envs \ {e} : mem'.pte[f] = mem.pte[f]
    BY <1>1, FreeVmEntries
  <2>2. \A f \in Envs, va \in VA :
          mem'.pte[f][va] = mem.pte[f][va] \/ mem'.pte[f][va].page = NULL
    BY <2>1 DEF Unmapped
  <2> QED
    BY <2>2, ClearedKeepsReadOnly
<1> QED
  BY <1>1, <1>2, <1>3, BooksAfterStep

\* sys_exofork: in a slot in use the counts outlive the pointers, and that is
\* recorded.
LEMMA ForkStep ==
  ASSUME KernelInv, PagesInv, SysExofork
  PROVE  PagesInv' /\ mem'.panic = mem.panic /\ KeepsReadOnly(mem, mem')
<1> DEFINE e == env_free_list
<1>1. /\ e \in Envs /\ Booked(mem, {}) /\ mem \in Memory /\ HasFree(mem)
      /\ mem' = EnvSetupVm(mem, e)
      /\ clobbered' = (clobbered \/ InUse(e))
      /\ clobbered \in BOOLEAN
  BY DEF PagesInv, Booked, SysExofork, EnvAlloc, KernelInv, TypeOK
<1> HIDE DEF e
<1>2. /\ Booked(mem', {}) /\ mem'.panic = mem.panic
      /\ mem.env_pgdir[e] = NULL => SameBalance(mem, mem')
  BY <1>1, SetupBooked
<1>3. SameBalance(mem, mem') \/ clobbered'
  BY <1>1, <1>2 DEF InUse
<1>4. KeepsReadOnly(mem, mem')
  <2>1. /\ \A va \in VA : mem'.pte[e][va] = Unmapped
        /\ \A f \in Envs \ {e} : mem'.pte[f] = mem.pte[f]
    BY <1>1, SetupEntries
  <2>2. \A f \in Envs, va \in VA :
          mem'.pte[f][va] = mem.pte[f][va] \/ mem'.pte[f][va].page = NULL
    BY <2>1 DEF Unmapped
  <2> QED
    BY <2>2, ClearedKeepsReadOnly
<1> QED
  BY <1>1, <1>2, <1>3, <1>4, BooksAfterStep

\* A step that leaves the memory alone.
LEMMA NoMemoryStep ==
  ASSUME PagesInv, UNCHANGED <<mem, clobbered>>
  PROVE  PagesInv' /\ mem'.panic = mem.panic /\ KeepsReadOnly(mem, mem')
<1>1. Booked(mem', {}) /\ SameBalance(mem, mem')
  BY DEF PagesInv, SameBalance
<1>2. KeepsReadOnly(mem, mem')
  BY ClearedKeepsReadOnly
<1> QED
  BY <1>1, <1>2, BooksAfterStep

\* sys_ipc_try_send, with or without a page.
LEMMA SendStep ==
  ASSUME KernelInv, PagesInv, CountsFit,
         NEW envid \in EnvIds, NEW srcva \in VA \cup {UTOP}, NEW perm \in Perms,
         SysIpcTrySend(envid, srcva, perm)
  PROVE  PagesInv' /\ mem'.panic = mem.panic /\ KeepsReadOnly(mem, mem')
<1> DEFINE e == envid2env(envid, FALSE)
<1>1. /\ curenv \in Envs /\ e \in Envs /\ env_status[e] # "ENV_FREE"
      /\ perm \in SUBSET Flags /\ env_ipc_dstva[e] \in VA \cup {UTOP}
  BY Envid2envType, PermsAssumption DEF SysIpcTrySend, Running, KernelInv, TypeOK
<1>2. /\ clobbered' = clobbered
      /\ srcva # UTOP => CanPass(curenv, srcva, perm)
      /\ SendPage(e, srcva, perm)
  BY DEF SysIpcTrySend, slotVars
<1> HIDE DEF e
<1>3. CASE srcva = UTOP \/ env_ipc_dstva[e] = UTOP
  BY <1>2, <1>3, NoMemoryStep DEF SendPage
<1>4. CASE srcva # UTOP /\ env_ipc_dstva[e] # UTOP
  <2> DEFINE va == env_ipc_dstva[e]
  <2>1. /\ CanWalk(mem, e, va)
        /\ mem' = PageInsert(mem, e, PageLookup(mem, curenv, srcva), va, perm)
    BY <1>2, <1>4 DEF SendPage
  <2>2. va \in VA /\ srcva \in VA /\ CanPass(curenv, srcva, perm)
    BY <1>1, <1>2, <1>4
  <2> HIDE DEF va
  <2> QED
    BY <1>1, <1>2, <2>1, <2>2, MapStep
<1> QED
  BY <1>3, <1>4

\* A panic of the kernel changes neither pages nor mappings.
LEMMA PanicKeepsBooks ==
  ASSUME KernelInv, PagesInv, NEW why \in {"page fault", "syscall"},
         mem' = [mem EXCEPT !.panic = why], clobbered' = clobbered
  PROVE  PagesInv' /\ mem'.panic = why /\ KeepsReadOnly(mem, mem')
<1>1. Booked(mem, {}) /\ mem \in Memory
  BY DEF PagesInv, Booked
<1>2. /\ mem' \in Memory /\ mem'.pp_ref = mem.pp_ref /\ mem'.panic = why
      /\ mem'.page_free_list = mem.page_free_list
      /\ mem'.env_pgdir = mem.env_pgdir /\ mem'.pde = mem.pde /\ mem'.pte = mem.pte
  BY <1>1 DEF Memory, Panics
<1>3. SameBalance(mem, mem')
  BY <1>2, SamePointers DEF SameBalance, Balance
<1>4. Booked(mem', {})
  <2>1. /\ \A p \in Pages : Balance(mem', p) >= 0
        /\ \A p \in Pages : p \in mem'.page_free_list \cup {} <=> mem'.pp_ref[p] = 0
    BY <1>1, <1>2, <1>3 DEF Booked, SameBalance
  <2>2. \A p \in Pages : DirRefs(mem', p) # {} \/ PdeRefs(mem', p) # {} => Pointers(mem', p) = 1
    <3> SUFFICES ASSUME NEW p \in Pages
                 PROVE  DirRefs(mem', p) # {} \/ PdeRefs(mem', p) # {} => Pointers(mem', p) = 1
      OBVIOUS
    <3>1. /\ DirRefs(mem', p) = DirRefs(mem, p) /\ PdeRefs(mem', p) = PdeRefs(mem, p)
          /\ Pointers(mem', p) = Pointers(mem, p)
      BY <1>2, SamePointers
    <3> QED
      BY <1>1, <3>1 DEF Booked
  <2> QED
    BY <1>1, <1>2, <2>1, <2>2 DEF Booked
<1>5. KeepsReadOnly(mem, mem')
  BY <1>2, ClearedKeepsReadOnly
<1> QED
  BY <1>2, <1>3, <1>4, <1>5, BooksAfterStep

\* Every step keeps the books and the read-only pages read-only, and never
\* makes page_free panic.
LEMMA MemoryStep ==
  ASSUME KernelInv, PagesInv, CountsFit, [Next]_vars
  PROVE  /\ PagesInv' /\ KeepsReadOnly(mem, mem')
         /\ mem'.panic \in {mem.panic, "page fault", "syscall"}
<1>1. CASE Yield
  BY <1>1, NoMemoryStep DEF Yield, slotVars
<1>2. CASE EnvCalls
  <2>1. CASE SysExofork
    BY <2>1, ForkStep
  <2>2. CASE Fault
    BY <2>2, DestroyStep DEF Fault, Running, KernelInv, TypeOK
  <2>3. ASSUME NEW envid \in EnvIds, SysEnvDestroy(envid)
        PROVE  PagesInv' /\ mem'.panic = mem.panic /\ KeepsReadOnly(mem, mem')
    BY <2>3, Envid2envType, DestroyStep DEF SysEnvDestroy, Running
  <2>4. ASSUME NEW envid \in EnvIds, NEW tf \in VA, SysEnvSetTrapframe(envid, tf)
        PROVE  /\ PagesInv' /\ KeepsReadOnly(mem, mem')
               /\ mem'.panic \in {mem.panic, "page fault"}
    <3> DEFINE e == envid2env(envid, TRUE)
    <3>1. e \in Envs
      BY <2>4, Envid2envType DEF SysEnvSetTrapframe, Running
    <3>2. CASE EnvDestroy(e)
      BY <3>1, <3>2, DestroyStep
    <3>3. CASE mem' = [mem EXCEPT !.panic = "page fault"] /\ clobbered' = clobbered
      BY <3>3, PanicKeepsBooks
    <3> QED
      BY <2>4, <3>2, <3>3 DEF SysEnvSetTrapframe, slotVars
  <2>5. ASSUME NEW envid \in EnvIds, NEW status \in Statuses, SysEnvSetStatus(envid, status)
        PROVE  PagesInv' /\ mem'.panic = mem.panic /\ KeepsReadOnly(mem, mem')
    BY <2>5, NoMemoryStep DEF SysEnvSetStatus, slotVars
  <2> QED
    BY <1>2, <2>1, <2>2, <2>3, <2>4, <2>5 DEF EnvCalls
<1>3. CASE PageCalls
  <2>1. ASSUME NEW envid \in EnvIds, NEW va \in VA, NEW perm \in Perms,
               NEW dstenvid \in EnvIds, NEW dstva \in VA,
               SysPageMap(envid, va, dstenvid, dstva, perm)
        PROVE  PagesInv' /\ mem'.panic = mem.panic /\ KeepsReadOnly(mem, mem')
    <3> DEFINE src == envid2env(envid, TRUE)
               dst == envid2env(dstenvid, TRUE)
    <3>1. src \in Envs /\ dst \in Envs /\ env_status[dst] # "ENV_FREE"
      BY <2>1, Envid2envType DEF SysPageMap, Running
    <3>2. /\ CanPass(src, va, perm) /\ CanWalk(mem, dst, dstva)
          /\ mem' = PageInsert(mem, dst, PageLookup(mem, src, va), dstva, perm)
          /\ clobbered' = clobbered
          /\ perm \in SUBSET Flags
      BY <2>1, PermsAssumption DEF SysPageMap, slotVars
    <3> HIDE DEF src, dst
    <3> QED
      BY <3>1, <3>2, MapStep
  <2> QED
    BY <1>3, <2>1, AllocStep, UnmapStep DEF PageCalls
<1>4. CASE IpcCalls
  <2>1. ASSUME NEW dstva \in VA \cup {UTOP}, SysIpcRecv(dstva)
        PROVE  PagesInv' /\ mem'.panic = mem.panic /\ KeepsReadOnly(mem, mem')
    BY <2>1, NoMemoryStep DEF SysIpcRecv, slotVars
  <2> QED
    BY <1>4, <2>1, SendStep DEF IpcCalls
<1>5. CASE UNCHANGED vars
  BY <1>5, NoMemoryStep DEF vars
<1>6. CASE SysUnknown
  BY <1>6, PanicKeepsBooks DEF SysUnknown, slotVars
<1> QED
  BY <1>1, <1>2, <1>3, <1>4, <1>5, <1>6 DEF Next

-----------------------------------------------------------------------------
(***************************************************************************)
(* Boot                                                                    *)
(***************************************************************************)

\* page_init: everything is free and nothing is pointed to.
LEMMA PageInitBooked ==
  Booked(PageInit, {}) /\ (\A p \in Pages : Balance(PageInit, p) = 0) /\ PageInit.panic = "no"
<1> DEFINE m == PageInit
<1>1. /\ m \in Memory /\ m.panic = "no"
      /\ m.page_free_list = Pages
      /\ \A p \in Pages : m.pp_ref[p] = 0
      /\ \A e \in Envs : m.env_pgdir[e] = NULL
      /\ \A e \in Envs, d \in PDE : m.pde[e][d] = NULL
      /\ \A e \in Envs, va \in VA : m.pte[e][va].page = NULL
  BY PageInitType DEF PageInit, Unmapped
<1> HIDE DEF m
<1>2. ASSUME NEW p \in Pages
      PROVE  DirRefs(m, p) = {} /\ PdeRefs(m, p) = {} /\ PteRefs(m, p) = {}
  BY <1>1, NULLAssumption DEF DirRefs, PdeRefs, PteRefs
<1>3. ASSUME NEW p \in Pages
      PROVE  Pointers(m, p) = 0
  BY <1>2, NoPointers
<1>4. \A p \in Pages : Balance(m, p) = 0
  BY <1>1, <1>3 DEF Balance
<1>5. Booked(m, {})
  BY <1>1, <1>2, <1>4 DEF Booked
<1> QED
  BY <1>1, <1>4, <1>5 DEF m

\* env_create in a free slot: a directory, a table and the page of the stack.
LEMMA CreateBooked ==
  ASSUME NEW m, Booked(m, {}), NEW e \in Envs, m.env_pgdir[e] = NULL,
         Cardinality(m.page_free_list) >= 3
  PROVE  /\ Booked(EnvCreate(m, e), {})
         /\ SameBalance(m, EnvCreate(m, e))
         /\ EnvCreate(m, e).panic = m.panic
<1> DEFINE s == EnvSetupVm(m, e)
           perm == {"U", "W"}
           n == PageInsert(PageAlloc(s), e, FreePage(s), UStack, perm)
<1>1. m \in Memory
  BY DEF Booked
<1>2. HasFree(m) /\ HasFree(s) /\ HasFree(PageAlloc(s))
  BY <1>1, EnvCreateType
<1>3. /\ Booked(s, {}) /\ SameBalance(m, s) /\ s.panic = m.panic
      /\ s \in Memory /\ s.env_pgdir = [m.env_pgdir EXCEPT ![e] = FreePage(m)]
  BY <1>1, <1>2, SetupBooked, EnvSetupVmType
<1>4. s.env_pgdir[e] # NULL
  BY <1>1, <1>2, <1>3, FreePageType, MemoryFields, NULLAssumption
<1>5. EnvCreate(m, e) = n
  BY DEF EnvCreate, RegionAlloc
<1> HIDE DEF s
<1>6. /\ UStack \in VA /\ perm \in SUBSET Flags
      /\ CanWalk(PageAlloc(s), e, UStack)
  BY <1>2, UTOPAssumption DEF CanWalk, Flags
<1> HIDE DEF perm
<1>7. Booked(n, {}) /\ SameBalance(s, n) /\ n.panic = s.panic
  BY <1>2, <1>3, <1>4, <1>6, NewPageBooked
<1> QED
  BY <1>3, <1>5, <1>7 DEF SameBalance

\* The books are right when the first environment runs.
LEMMA PagesInit ==
  ASSUME Init
  PROVE  PagesInv /\ mem.panic = "no"
<1> DEFINE m0 == PageInit
           m1 == EnvCreate(m0, 0)
           m2 == EnvCreate(m1, 1)
<1>1. 0 \in Envs /\ 1 \in Envs /\ \A e \in Envs : e # NULL
  BY NENVAssumption, NULLAssumption DEF Envs
<1>2. /\ m0 \in Memory /\ m0.panic = "no"
      /\ Booked(m0, {}) /\ \A p \in Pages : Balance(m0, p) = 0
      /\ \A e \in Envs : m0.env_pgdir[e] = NULL
      /\ Cardinality(m0.page_free_list) >= 6
      /\ Cardinality(m0.page_free_list) \in Nat
  BY PageInitType, PageInitBooked, PagesAssumption, FS_CardinalityType DEF PageInit
<1> HIDE DEF m0
<1>3. /\ Booked(m1, {}) /\ SameBalance(m0, m1) /\ m1.panic = m0.panic
      /\ m1 \in Memory
      /\ m1.env_pgdir = [m0.env_pgdir EXCEPT ![0] = FreePage(m0)]
      /\ Cardinality(m1.page_free_list) >= Cardinality(m0.page_free_list) - 3
  BY <1>1, <1>2, CreateBooked, EnvCreateType
<1> HIDE DEF m1
<1>4. m1.env_pgdir[1] = NULL /\ Cardinality(m1.page_free_list) >= 3
  <2>1. Cardinality(m1.page_free_list) \in Nat
    BY <1>3, FreeCount, MemoryFields
  <2>2. m0.env_pgdir \in [Envs -> Pages \cup {NULL}]
    BY <1>2, MemoryFields
  <2> QED
    BY <1>1, <1>2, <1>3, <2>1, <2>2
<1>5. Booked(m2, {}) /\ SameBalance(m1, m2) /\ m2.panic = m1.panic
  BY <1>1, <1>3, <1>4, CreateBooked
<1>6. mem = m2
  BY DEF Init, m0, m1
<1> HIDE DEF m2
<1>7. \A p \in Pages : Balance(m2, p) = 0
  BY <1>2, <1>3, <1>5 DEF SameBalance
<1> QED
  BY <1>2, <1>3, <1>5, <1>6, <1>7 DEF PagesInv

-----------------------------------------------------------------------------
(***************************************************************************)
(* Theorems                                                                *)
(***************************************************************************)

\* As long as no reference count reaches its largest value, the books are
\* right after every call, whatever environments are created, passed pages and
\* destroyed, and wherever a call fails.
THEOREM PagesInvariant == Spec /\ []CountsFit => [](KernelInv /\ PagesInv)
<1>1. Init => KernelInv /\ PagesInv
  BY KernelInit, PagesInit
<1>2. KernelInv /\ PagesInv /\ CountsFit /\ [Next]_vars => (KernelInv /\ PagesInv)'
  BY KernelStep, MemoryStep
<1> QED
  BY <1>1, <1>2, PTL DEF Spec

\* No page is freed while an address space still reaches it, also when slots in
\* use are handed out again.
THEOREM NothingDangles == Spec /\ []CountsFit => []NoDanglingPointer
<1>1. PagesInv => NoDanglingPointer
  <2> SUFFICES ASSUME PagesInv, NEW p \in Pages
               PROVE  mem.pp_ref[p] >= Pointers(mem, p)
    BY DEF NoDanglingPointer
  <2>1. Booked(mem, {})
    BY DEF PagesInv
  <2> QED
    BY <2>1, BookedUse, RefMaxAssumption
<1> QED
  BY <1>1, PagesInvariant, PTL

\* No page leaks, none is on the free list and in use, and none that holds a
\* directory or a table is mapped anywhere.
THEOREM PagesAreExact == Spec /\ []CountsFit => []PagesExact
<1>1. PagesInv => PagesExact
  <2> SUFFICES ASSUME PagesInv
               PROVE  PagesExact
    OBVIOUS
  <2>1. Booked(mem, {})
    BY DEF PagesInv
  <2>2. RefCountExact
    <3> SUFFICES ASSUME ~clobbered, NEW p \in Pages
                 PROVE  mem.pp_ref[p] = Pointers(mem, p)
      BY DEF RefCountExact
    <3>1. Balance(mem, p) = 0
      BY DEF PagesInv
    <3> QED
      BY <2>1, <3>1, BookedUse, RefMaxAssumption DEF Balance
  <2>3. FreeListExact /\ TablesArePrivate
    BY <2>1 DEF Booked, FreeListExact, TablesArePrivate
  <2> QED
    BY <2>2, <2>3 DEF PagesExact
<1> QED
  BY <1>1, PagesInvariant, PTL

\* No call makes a page writable that is mapped read-only wherever it is
\* mapped: what the file server hands out read-only stays so.
THEOREM ReadOnlyStaysReadOnly == Spec /\ []CountsFit => NoWriteFromNothing
<1>1. KernelInv /\ PagesInv /\ CountsFit /\ [Next]_vars => [ReadOnlyStays]_vars
  <2> SUFFICES ASSUME KernelInv, PagesInv, CountsFit, [Next]_vars, NEW p \in Pages,
                      PteRefs(mem, p) # {},
                      \A x \in PteRefs(mem, p) : ~Writable(mem, x[1], x[2])
               PROVE  \A x \in PteRefs(mem, p)' : ~Writable(mem', x[1], x[2])
    BY DEF ReadOnlyStays
  <2>1. KeepsReadOnly(mem, mem')
    BY MemoryStep
  <2>2. \A x \in PteRefs(mem', p) : ~Writable(mem', x[1], x[2])
    BY <2>1 DEF KeepsReadOnly
  <2> QED
    BY <2>2 DEF PteRefs
<1> QED
  BY <1>1, PagesInvariant, PTL DEF Spec, NoWriteFromNothing

\* page_free never meets a page in use or one already free, wherever a call
\* fails and whoever dies.  (The two other panics a program can reach stay: the
\* page fault of sys_env_set_trapframe and the unknown system call.)
THEOREM PageFreeNeverPanics == Spec /\ []CountsFit => []NoPanicInPageFree
<1>1. Init => NoPanicInPageFree
  BY PagesInit DEF NoPanicInPageFree
<1>2. KernelInv /\ PagesInv /\ CountsFit /\ [Next]_vars /\ NoPanicInPageFree
      => NoPanicInPageFree'
  BY MemoryStep DEF NoPanicInPageFree
<1> QED
  BY <1>1, <1>2, PagesInvariant, PTL DEF Spec

-----------------------------------------------------------------------------
(***************************************************************************)
(* env_free gives the pages back one by one                                *)
(***************************************************************************)

\* An entry without a page, or without a table to be in, is all zeroes: the
\* loops of env_free miss nothing when they pass over it.
EntriesFit(m) ==
  \A f \in Envs, y \in VA :
    m.pte[f][y].page = NULL \/ m.pde[f][PDX[y]] = NULL => m.pte[f][y] = Unmapped

\* No table is taken away.
TablesStay(m, n) ==
  \A f \in Envs, d \in PDE : n.pde[f][d] = m.pde[f][d] \/ n.pde[f][d] # NULL

\* The page allocator and the reference counts write no directory.
LEMMA PageOpsTables ==
  ASSUME NEW m \in Memory, NEW pg \in Pages
  PROVE  /\ PageAlloc(m).pde = m.pde
         /\ PageFree(m, pg).pde = m.pde
         /\ Incref(m, pg).pde = m.pde
         /\ PageDecref(m, pg).pde = m.pde
<1>1. PageAlloc(m).pde = m.pde /\ Incref(m, pg).pde = m.pde
  BY DEF PageAlloc, Incref, Memory
<1>2. Decref(m, pg) \in Memory /\ Decref(m, pg).pde = m.pde
  BY DecrefType DEF Decref, Memory
<1>3. ASSUME NEW d \in Memory
      PROVE  PageFree(d, pg).pde = d.pde
  BY DEF PageFree, Memory
<1> QED
  BY <1>1, <1>2, <1>3 DEF PageDecref

\* page_remove leaves the tables.
LEMMA PageRemoveTables ==
  ASSUME NEW m \in Memory, NEW e \in Envs, NEW va \in VA
  PROVE  PageRemove(m, e, va).pde = m.pde
<1> DEFINE pg == PageLookup(m, e, va)
           d == PageDecref(m, pg)
<1>1. CASE pg = NULL
  BY <1>1 DEF PageRemove
<1>2. CASE pg # NULL
  <2>1. pg \in Pages
    BY <1>2, PageLookupType
  <2>2. d \in Memory /\ d.pde = m.pde
    BY <2>1, PageDecrefType, PageOpsTables
  <2>3. PageRemove(m, e, va) = [d EXCEPT !.pte[e][va] = Unmapped]
    BY <1>2 DEF PageRemove
  <2> HIDE DEF d
  <2> QED
    BY <2>2, <2>3 DEF Memory
<1> QED
  BY <1>1, <1>2

\* page_insert makes the table its entry is in.
LEMMA PageInsertTables ==
  ASSUME NEW m \in Memory, NEW e \in Envs, NEW pg \in Pages, NEW va \in VA,
         NEW perm \in SUBSET Flags, CanWalk(m, e, va)
  PROVE  /\ TablesStay(m, PageInsert(m, e, pg, va, perm))
         /\ PageInsert(m, e, pg, va, perm).pde[e][PDX[va]] # NULL
<1> DEFINE w == PgdirWalk(m, e, va)
           c == Incref(w, pg)
           r == PageRemove(c, e, va)
           n == PageInsert(m, e, pg, va, perm)
<1>1. w \in Memory /\ c \in Memory /\ r \in Memory
  BY PgdirWalkType, IncrefType, PageRemoveType
<1>2. TablesStay(m, w) /\ w.pde[e][PDX[va]] # NULL
  <2>1. CASE m.pde[e][PDX[va]] # NULL
    BY <2>1 DEF PgdirWalk, TablesStay
  <2>2. CASE m.pde[e][PDX[va]] = NULL
    <3> DEFINE i == Incref(PageAlloc(m), FreePage(m))
               x == PDX[va]
    <3>1. FreePage(m) \in Pages /\ PageAlloc(m) \in Memory /\ x \in PDE
      BY <2>2, FreePageType, PageAllocType, VAAssumption DEF CanWalk
    <3>2. i \in Memory /\ i.pde = m.pde
      BY <3>1, PageOpsTables, IncrefType
    <3>3. w = [i EXCEPT !.pde[e][x] = FreePage(m)]
      BY <2>2 DEF PgdirWalk
    <3>4. m.pde \in [Envs -> [PDE -> Pages \cup {NULL}]] /\ FreePage(m) # NULL
      BY <3>1, MemoryFields, NULLAssumption
    <3> HIDE DEF i, w, x
    <3>5. w.pde = [m.pde EXCEPT ![e][x] = FreePage(m)]
      BY <3>2, <3>3 DEF Memory
    <3>6. TablesStay(m, w) /\ w.pde[e][x] # NULL
      BY <3>1, <3>4, <3>5 DEF TablesStay
    <3> QED
      BY <3>6 DEF w, x
  <2> QED
    BY <2>1, <2>2
<1>3. r.pde = w.pde
  BY <1>1, PageOpsTables, PageRemoveTables
<1>4. n = [r EXCEPT !.pte[e][va] = [page |-> pg, perm |-> perm \cup {"P"}]]
  BY DEF PageInsert
<1> HIDE DEF r, w, n
<1>5. n.pde = w.pde
  BY <1>1, <1>3, <1>4 DEF Memory
<1> QED
  BY <1>2, <1>5 DEF n, TablesStay

\* Entries stay as they are, or are cleared, or are written in a table.
LEMMA EntriesKept ==
  ASSUME NEW m \in Memory, NEW n, EntriesFit(m), TablesStay(m, n),
         \A f \in Envs, y \in VA :
            \/ n.pte[f][y] = m.pte[f][y]
            \/ n.pte[f][y] = Unmapped
            \/ n.pte[f][y].page # NULL /\ n.pde[f][PDX[y]] # NULL
  PROVE  EntriesFit(n)
<1> SUFFICES ASSUME NEW f \in Envs, NEW y \in VA,
                    n.pte[f][y].page = NULL \/ n.pde[f][PDX[y]] = NULL,
                    n.pte[f][y] = m.pte[f][y]
             PROVE  n.pte[f][y] = Unmapped
  BY DEF EntriesFit
<1>1. PDX[y] \in PDE
  BY VAAssumption
<1>2. n.pde[f][PDX[y]] = NULL => m.pde[f][PDX[y]] = NULL
  BY <1>1 DEF TablesStay
<1> QED
  BY <1>2 DEF EntriesFit

\* All entries of a slot are cleared.
LEMMA SlotFits ==
  ASSUME NEW m \in Memory, NEW n, EntriesFit(m), NEW e \in Envs,
         \A y \in VA : n.pte[e][y] = Unmapped,
         \A f \in Envs \ {e} : n.pte[f] = m.pte[f] /\ n.pde[f] = m.pde[f]
  PROVE  EntriesFit(n)
  BY DEF EntriesFit

\* page_remove clears an entry whole.
LEMMA RemoveFits ==
  ASSUME NEW m \in Memory, EntriesFit(m), NEW e \in Envs, NEW va \in VA
  PROVE  EntriesFit(PageRemove(m, e, va))
<1> DEFINE n == PageRemove(m, e, va)
<1>1. /\ n.pde = m.pde
      /\ n.pte = m.pte \/ n.pte = [m.pte EXCEPT ![e][va] = Unmapped]
      /\ m.pte \in [Envs -> [VA -> PTE]]
  BY PageRemoveTables, PageRemoveEntries, MemoryFields
<1> HIDE DEF n
<1>2. TablesStay(m, n)
  BY <1>1 DEF TablesStay
<1>3. \A f \in Envs, y \in VA : n.pte[f][y] = m.pte[f][y] \/ n.pte[f][y] = Unmapped
  BY <1>1
<1>4. EntriesFit(n)
  BY <1>2, <1>3, EntriesKept
<1> QED
  BY <1>4 DEF n

\* page_insert writes the entry of a page under a table it has made sure of.
LEMMA InsertFits ==
  ASSUME NEW m \in Memory, EntriesFit(m), NEW e \in Envs, NEW pg \in Pages, NEW va \in VA,
         NEW perm \in SUBSET Flags, CanWalk(m, e, va)
  PROVE  EntriesFit(PageInsert(m, e, pg, va, perm))
<1> DEFINE n == PageInsert(m, e, pg, va, perm)
           entry == [page |-> pg, perm |-> perm \cup {"P"}]
<1>1. /\ TablesStay(m, n) /\ n.pde[e][PDX[va]] # NULL
      /\ n.pte = [m.pte EXCEPT ![e][va] = entry]
      /\ m.pte \in [Envs -> [VA -> PTE]]
  <2>1. TablesStay(m, n) /\ n.pde[e][PDX[va]] # NULL
    BY PageInsertTables
  <2>2. n.pte = [m.pte EXCEPT ![e][va] = entry]
    BY PageInsertEntries
  <2>3. m.pte \in [Envs -> [VA -> PTE]]
    BY MemoryFields
  <2> QED
    BY <2>1, <2>2, <2>3
<1>0. entry.page # NULL /\ entry \in PTE
  BY NULLAssumption DEF PTE, Flags
<1> HIDE DEF n, entry
<1>2. ASSUME NEW f \in Envs, NEW y \in VA
      PROVE  \/ n.pte[f][y] = m.pte[f][y]
             \/ n.pte[f][y].page # NULL /\ n.pde[f][PDX[y]] # NULL
  <2>1. CASE f = e /\ y = va
    BY <1>0, <1>1, <2>1
  <2>2. CASE ~(f = e /\ y = va)
    BY <1>1, <2>2
  <2> QED
    BY <2>1, <2>2
<1>3. EntriesFit(n)
  BY <1>1, <1>2, EntriesKept
<1> QED
  BY <1>3 DEF n

\* A fresh directory has no entries, and no tables.
LEMMA SetupFits ==
  ASSUME NEW m \in Memory, EntriesFit(m), NEW e \in Envs, HasFree(m)
  PROVE  EntriesFit(EnvSetupVm(m, e))
<1> DEFINE i == Incref(PageAlloc(m), FreePage(m))
           n == EnvSetupVm(m, e)
<1>1. i \in Memory /\ i.pde = m.pde /\ m.pde \in [Envs -> [PDE -> Pages \cup {NULL}]]
  BY FreePageType, PageAllocType, IncrefType, PageOpsTables, MemoryFields
<1>2. n = [i EXCEPT !.env_pgdir[e] = FreePage(m),
                    !.pde[e] = [d \in PDE |-> NULL],
                    !.pte[e] = [va \in VA |-> Unmapped]]
  BY DEF EnvSetupVm
<1>3. /\ \A y \in VA : n.pte[e][y] = Unmapped
      /\ \A f \in Envs \ {e} : n.pte[f] = m.pte[f]
  BY SetupEntries
<1> HIDE DEF i, n
<1>4. n.pde = [m.pde EXCEPT ![e] = [d \in PDE |-> NULL]]
  BY <1>1, <1>2 DEF Memory
<1>5. \A f \in Envs \ {e} : n.pde[f] = m.pde[f]
  BY <1>1, <1>4
<1>6. EntriesFit(n)
  BY <1>3, <1>5, SlotFits
<1> QED
  BY <1>6 DEF n

\* env_free leaves no entry and no table behind.
LEMMA FreeVmFits ==
  ASSUME NEW m \in Memory, EntriesFit(m), NEW e \in Envs
  PROVE  EntriesFit(FreeVm(m, e))
<1>1. FreeVm(m, e).pde = [m.pde EXCEPT ![e] = [d \in PDE |-> NULL]]
  BY DEF FreeVm, Memory
<1>2. \A f \in Envs \ {e} : FreeVm(m, e).pde[f] = m.pde[f]
  BY <1>1, MemoryFields
<1> QED
  BY <1>2, FreeVmEntries, SlotFits

\* Every step of the kernel keeps them.
LEMMA FitsStep ==
  ASSUME KernelInv, EntriesFit(mem), [Next]_vars
  PROVE  EntriesFit(mem')
<1>0. mem \in Memory
  BY DEF KernelInv, TypeOK
<1>1. ASSUME NEW e \in Envs, EnvDestroy(e)
      PROVE  EntriesFit(mem')
  BY <1>0, <1>1, FreeVmFits DEF EnvDestroy
<1>2. CASE Yield \/ UNCHANGED vars
  BY <1>2 DEF Yield, vars
<1>3. CASE EnvCalls
  <2>1. CASE SysExofork
    <3>1. mem' = EnvSetupVm(mem, env_free_list) /\ HasFree(mem) /\ env_free_list \in Envs
      BY <2>1 DEF SysExofork, EnvAlloc, KernelInv, TypeOK
    <3> QED
      BY <1>0, <3>1, SetupFits
  <2>2. CASE Fault
    BY <1>1, <2>2 DEF Fault, Running, KernelInv, TypeOK
  <2>3. ASSUME NEW envid \in EnvIds, SysEnvDestroy(envid)
        PROVE  EntriesFit(mem')
    BY <1>1, <2>3, Envid2envType DEF SysEnvDestroy, Running
  <2>4. ASSUME NEW envid \in EnvIds, NEW tf \in VA, SysEnvSetTrapframe(envid, tf)
        PROVE  EntriesFit(mem')
    <3>1. CASE mem' = [mem EXCEPT !.panic = "page fault"]
      <4>1. mem'.pde = mem.pde /\ mem'.pte = mem.pte
        BY <1>0, <3>1 DEF Memory
      <4> QED
        BY <4>1 DEF EntriesFit
    <3>2. CASE EnvDestroy(envid2env(envid, TRUE))
      BY <1>1, <2>4, <3>2, Envid2envType DEF SysEnvSetTrapframe, Running
    <3> QED
      BY <2>4, <3>1, <3>2 DEF SysEnvSetTrapframe
  <2>5. ASSUME NEW envid \in EnvIds, NEW status \in Statuses, SysEnvSetStatus(envid, status)
        PROVE  EntriesFit(mem')
    BY <2>5 DEF SysEnvSetStatus
  <2> QED
    BY <1>3, <2>1, <2>2, <2>3, <2>4, <2>5 DEF EnvCalls
<1>4. CASE PageCalls
  <2>1. ASSUME NEW envid \in EnvIds, NEW va \in VA, SysPageUnmap(envid, va)
        PROVE  EntriesFit(mem')
    BY <1>0, <2>1, Envid2envType, RemoveFits DEF SysPageUnmap, Running
  <2>2. ASSUME NEW envid \in EnvIds, NEW va \in VA, NEW perm \in Perms,
               SysPageAlloc(envid, va, perm)
        PROVE  EntriesFit(mem')
    <3> DEFINE e == envid2env(envid, TRUE)
               pg == FreePage(mem)
               taken == PageAlloc(mem)
    <3>1. /\ e \in Envs /\ perm \in SUBSET Flags /\ HasFree(mem)
          /\ mem' = IF CanWalk(taken, e, va)
                    THEN PageInsert(taken, e, pg, va, perm)
                    ELSE PageFree(taken, pg)
      BY <2>2, Envid2envType, PermsAssumption DEF SysPageAlloc, Running
    <3>2. pg \in Pages /\ taken \in Memory /\ taken.pde = mem.pde /\ taken.pte = mem.pte
      BY <1>0, <3>1, FreePageType, PageAllocType, PageOpsTables, PageOpsEntries
    <3> HIDE DEF e, pg, taken
    <3>3. EntriesFit(taken)
      BY <3>2 DEF EntriesFit
    <3>4. PageFree(taken, pg).pde = mem.pde /\ PageFree(taken, pg).pte = mem.pte
      BY <3>2, PageOpsTables, PageOpsEntries
    <3>5. EntriesFit(PageFree(taken, pg))
      BY <3>4 DEF EntriesFit
    <3> QED
      BY <3>1, <3>2, <3>3, <3>5, InsertFits
  <2>3. ASSUME NEW envid \in EnvIds, NEW va \in VA, NEW perm \in Perms,
               NEW dstenvid \in EnvIds, NEW dstva \in VA,
               SysPageMap(envid, va, dstenvid, dstva, perm)
        PROVE  EntriesFit(mem')
    <3> DEFINE src == envid2env(envid, TRUE)
               dst == envid2env(dstenvid, TRUE)
               pg == PageLookup(mem, src, va)
    <3>1. /\ src \in Envs /\ dst \in Envs /\ perm \in SUBSET Flags
          /\ CanWalk(mem, dst, dstva) /\ pg # NULL
          /\ mem' = PageInsert(mem, dst, pg, dstva, perm)
      BY <2>3, Envid2envType, PermsAssumption DEF SysPageMap, Running, CanPass
    <3>2. pg \in Pages
      BY <1>0, <3>1, PageLookupType
    <3> HIDE DEF src, dst, pg
    <3> QED
      BY <1>0, <3>1, <3>2, InsertFits
  <2> QED
    BY <1>4, <2>1, <2>2, <2>3 DEF PageCalls
<1>5. CASE IpcCalls
  <2>1. ASSUME NEW dstva \in VA \cup {UTOP}, SysIpcRecv(dstva)
        PROVE  EntriesFit(mem')
    BY <2>1 DEF SysIpcRecv
  <2>2. ASSUME NEW envid \in EnvIds, NEW srcva \in VA \cup {UTOP}, NEW perm \in Perms,
               SysIpcTrySend(envid, srcva, perm)
        PROVE  EntriesFit(mem')
    <3> DEFINE e == envid2env(envid, FALSE)
               va == env_ipc_dstva[e]
               pg == PageLookup(mem, curenv, srcva)
    <3>1. /\ curenv \in Envs /\ e \in Envs /\ va \in VA \cup {UTOP}
          /\ perm \in SUBSET Flags
          /\ srcva # UTOP => CanPass(curenv, srcva, perm)
          /\ SendPage(e, srcva, perm)
      BY <2>2, Envid2envType, PermsAssumption DEF SysIpcTrySend, Running, KernelInv, TypeOK
    <3>2. CASE srcva = UTOP \/ va = UTOP
      BY <3>1, <3>2 DEF SendPage
    <3>3. CASE srcva # UTOP /\ va # UTOP
      <4>1. /\ CanWalk(mem, e, va) /\ va \in VA /\ srcva \in VA /\ pg # NULL
            /\ mem' = PageInsert(mem, e, pg, va, perm)
        BY <3>1, <3>3 DEF SendPage, CanPass
      <4>2. pg \in Pages
        BY <1>0, <3>1, <4>1, PageLookupType
      <4> HIDE DEF e, va, pg
      <4> QED
        BY <1>0, <3>1, <4>1, <4>2, InsertFits
    <3> QED
      BY <3>2, <3>3
  <2> QED
    BY <1>5, <2>1, <2>2 DEF IpcCalls
<1>6. CASE SysUnknown
  <2>1. mem'.pde = mem.pde /\ mem'.pte = mem.pte
    BY <1>0, <1>6 DEF SysUnknown, Memory
  <2> QED
    BY <2>1 DEF EntriesFit
<1> QED
  BY <1>2, <1>3, <1>4, <1>5, <1>6 DEF Next

\* The first two environments are made by page_insert in new address spaces.
LEMMA CreateFits ==
  ASSUME NEW m \in Memory, EntriesFit(m), NEW e \in Envs,
         Cardinality(m.page_free_list) >= 3
  PROVE  EntriesFit(EnvCreate(m, e))
<1> DEFINE s == EnvSetupVm(m, e)
           t == PageAlloc(s)
           perm == {"U", "W"}
<1>1. HasFree(m) /\ HasFree(s) /\ HasFree(t)
  BY EnvCreateType
<1>2. s \in Memory /\ EntriesFit(s)
  BY <1>1, EnvSetupVmType, SetupFits
<1>3. EnvCreate(m, e) = PageInsert(t, e, FreePage(s), UStack, perm)
  BY DEF EnvCreate, RegionAlloc
<1> HIDE DEF s
<1>4. FreePage(s) \in Pages /\ t \in Memory /\ t.pde = s.pde /\ t.pte = s.pte
  BY <1>1, <1>2, FreePageType, PageAllocType, PageOpsTables, PageOpsEntries
<1>5. UStack \in VA /\ perm \in SUBSET Flags /\ CanWalk(t, e, UStack)
  BY <1>1, UTOPAssumption DEF CanWalk, Flags
<1> HIDE DEF t, perm
<1>6. EntriesFit(t)
  BY <1>2, <1>4 DEF EntriesFit
<1> QED
  BY <1>3, <1>4, <1>5, <1>6, InsertFits

\* Nothing is mapped before the first environment.
LEMMA FitsInit ==
  ASSUME Init
  PROVE  EntriesFit(mem)
<1> DEFINE m0 == PageInit
           m1 == EnvCreate(m0, 0)
           m2 == EnvCreate(m1, 1)
<1>1. 0 \in Envs /\ 1 \in Envs
  BY NENVAssumption DEF Envs
<1>2. /\ m0 \in Memory /\ EntriesFit(m0)
      /\ Cardinality(m0.page_free_list) >= 6
      /\ Cardinality(m0.page_free_list) \in Nat
  BY PageInitType, PagesAssumption, FS_CardinalityType DEF PageInit, EntriesFit
<1> HIDE DEF m0
<1>3. Cardinality(m0.page_free_list) >= 3
  BY <1>2
<1>4. /\ EntriesFit(m1) /\ m1 \in Memory
      /\ Cardinality(m1.page_free_list) >= Cardinality(m0.page_free_list) - 3
  BY <1>1, <1>2, <1>3, CreateFits, EnvCreateType
<1> HIDE DEF m1
<1>5. Cardinality(m1.page_free_list) >= 3
  <2>1. Cardinality(m1.page_free_list) \in Nat
    BY <1>4, FreeCount, MemoryFields
  <2> QED
    BY <1>2, <1>4, <2>1
<1>6. EntriesFit(m2)
  BY <1>1, <1>4, <1>5, CreateFits
<1>7. mem = m2
  BY DEF Init, m0, m1
<1> QED
  BY <1>6, <1>7

\* The references to page p in the entries E and the tables D of slot e
EntriesTo(m, e, E, p) == {va \in E : m.pte[e][va].page = p}
TablesTo(m, e, D, p) == {d \in D : m.pde[e][d] = p}
Refs(m, e, E, D, p) ==
  Cardinality(EntriesTo(m, e, E, p)) + Cardinality(TablesTo(m, e, D, p))

\* A memory that has dropped them
Dropped(m, e, E, D) ==
  [pp_ref         |-> [p \in Pages |-> m.pp_ref[p] - Refs(m, e, E, D, p)],
   page_free_list |-> m.page_free_list
                        \cup {p \in Pages : m.pp_ref[p] > 0 /\ m.pp_ref[p] = Refs(m, e, E, D, p)},
   env_pgdir      |-> m.env_pgdir,
   pde            |-> [m.pde EXCEPT ![e] = [d \in PDE |-> IF d \in D THEN NULL ELSE m.pde[e][d]]],
   pte            |-> [m.pte EXCEPT ![e] =
                         [va \in VA |-> IF va \in E THEN Unmapped ELSE m.pte[e][va]]],
   panic          |-> m.panic]

\* Memories with the same fields are the same.
LEMMA SameMemory ==
  ASSUME NEW m \in Memory, NEW n \in Memory,
         n.pp_ref = m.pp_ref, n.page_free_list = m.page_free_list,
         n.env_pgdir = m.env_pgdir, n.pde = m.pde, n.pte = m.pte, n.panic = m.panic
  PROVE  n = m
  BY DEF Memory

\* Entries and tables are finitely many.
LEMMA RefsType ==
  ASSUME NEW m, NEW e, NEW E \in SUBSET VA, NEW D \in SUBSET PDE, NEW p
  PROVE  /\ IsFiniteSet(EntriesTo(m, e, E, p)) /\ Cardinality(EntriesTo(m, e, E, p)) \in Nat
         /\ IsFiniteSet(TablesTo(m, e, D, p)) /\ Cardinality(TablesTo(m, e, D, p)) \in Nat
         /\ Refs(m, e, E, D, p) \in Nat
<1>1. IsFiniteSet(EntriesTo(m, e, E, p)) /\ IsFiniteSet(TablesTo(m, e, D, p))
  BY VAAssumption, FS_Subset DEF EntriesTo, TablesTo
<1> QED
  BY <1>1, FS_CardinalityType DEF Refs

\* A slot holds no more references than are counted, its directory included.
LEMMA RefsBound ==
  ASSUME NEW m, Booked(m, {}), NEW e \in Envs, NEW E \in SUBSET VA, NEW D \in SUBSET PDE,
         NEW p \in Pages
  PROVE  /\ m.pp_ref[p] \in Nat /\ m.pp_ref[p] <= RefMax
         /\ Refs(m, e, E, D, p) \in Nat
         /\ Refs(m, e, E, D, p) + One(m.env_pgdir[e] = p) <= Held(m, e, p)
         /\ Held(m, e, p) = Refs(m, e, VA, PDE, p) + One(m.env_pgdir[e] = p)
         /\ Held(m, e, p) \in Nat /\ Held(m, e, p) <= m.pp_ref[p]
<1> DEFINE n == FreeVm(m, e)
           A == EntriesTo(m, e, E, p)
           A2 == EntriesTo(m, e, VA, p)
           B == TablesTo(m, e, D, p)
           B2 == TablesTo(m, e, PDE, p)
<1>1. m \in Memory /\ n \in Memory
  BY FreeVmType DEF Booked
<1>2. m.pp_ref[p] \in Nat /\ m.pp_ref[p] <= RefMax
      /\ Pointers(m, p) \in Nat /\ Pointers(m, p) <= m.pp_ref[p]
  BY BookedUse, RefMaxAssumption
<1>3. Held(m, e, p) \in Nat /\ Held(m, e, p) <= Pointers(m, p)
  <2>1. /\ n.env_pgdir = [m.env_pgdir EXCEPT ![e] = NULL]
        /\ n.pde = [m.pde EXCEPT ![e] = [d \in PDE |-> NULL]]
        /\ n.pte = [m.pte EXCEPT ![e] = [va \in VA |-> Unmapped]]
    BY <1>1 DEF FreeVm, Memory
  <2>2. /\ m.env_pgdir \in [Envs -> Pages \cup {NULL}]
        /\ m.pde \in [Envs -> [PDE -> Pages \cup {NULL}]]
        /\ m.pte \in [Envs -> [VA -> PTE]]
    BY <1>1, MemoryFields
  <2> HIDE DEF n
  <2>3. /\ n.env_pgdir[e] = NULL
        /\ \A d \in PDE : n.pde[e][d] = NULL
        /\ \A va \in VA : n.pte[e][va].page = NULL
        /\ \A f \in Envs \ {e} :
             n.env_pgdir[f] = m.env_pgdir[f] /\ n.pde[f] = m.pde[f] /\ n.pte[f] = m.pte[f]
    BY <2>1, <2>2 DEF Unmapped
  <2> QED
    BY <1>1, <2>3, SlotCleared, NULLAssumption
<1>4. /\ IsFiniteSet(A2) /\ IsFiniteSet(B2)
      /\ Cardinality(A) \in Nat /\ Cardinality(A2) \in Nat
      /\ Cardinality(B) \in Nat /\ Cardinality(B2) \in Nat
  BY RefsType
<1>8. A \subseteq A2 /\ B \subseteq B2
  BY DEF EntriesTo, TablesTo
<1>5. Cardinality(A) <= Cardinality(A2) /\ Cardinality(B) <= Cardinality(B2)
  BY <1>4, <1>8, FS_Subset
<1>6. /\ Refs(m, e, E, D, p) = Cardinality(A) + Cardinality(B)
      /\ Refs(m, e, VA, PDE, p) = Cardinality(A2) + Cardinality(B2)
  BY DEF Refs
<1>7. Held(m, e, p) = Cardinality(A2) + Cardinality(B2) + One(m.env_pgdir[e] = p)
  BY DEF Held, One, EntriesTo, TablesTo
<1> HIDE DEF A, A2, B, B2, n
<1> QED
  BY <1>2, <1>3, <1>4, <1>5, <1>6, <1>7 DEF One

\* One entry more, one table more.
LEMMA OneRefMore ==
  ASSUME NEW m \in Memory, NEW e \in Envs, NEW E \in SUBSET VA, NEW D \in SUBSET PDE, NEW p
  PROVE  /\ \A va \in VA \ E :
              Refs(m, e, E \cup {va}, D, p) = Refs(m, e, E, D, p) + One(m.pte[e][va].page = p)
         /\ \A d \in PDE \ D :
              Refs(m, e, E, D \cup {d}, p) = Refs(m, e, E, D, p) + One(m.pde[e][d] = p)
<1> DEFINE A == EntriesTo(m, e, E, p)
           B == TablesTo(m, e, D, p)
<1>1. /\ IsFiniteSet(A) /\ Cardinality(A) \in Nat
      /\ IsFiniteSet(B) /\ Cardinality(B) \in Nat
  BY RefsType
<1>0. Refs(m, e, E, D, p) = Cardinality(A) + Cardinality(B)
  BY DEF Refs
<1>2. ASSUME NEW va \in VA \ E
      PROVE  Refs(m, e, E \cup {va}, D, p) = Refs(m, e, E, D, p) + One(m.pte[e][va].page = p)
  <2> DEFINE A2 == EntriesTo(m, e, E \cup {va}, p)
  <2>1. E \cup {va} \in SUBSET VA
    OBVIOUS
  <2>2. IsFiniteSet(A2) /\ Cardinality(A2) \in Nat
    BY <2>1, RefsType
  <2>0. Refs(m, e, E \cup {va}, D, p) = Cardinality(A2) + Cardinality(B)
    BY DEF Refs
  <2>3. ~(va \in A) /\ (va \in A2 <=> m.pte[e][va].page = p)
    BY DEF EntriesTo
  <2>4. \A y : y # va => (y \in A <=> y \in A2)
    BY DEF EntriesTo
  <2> HIDE DEF A, A2, B
  <2>5. Cardinality(A2) = Cardinality(A) - One(va \in A) + One(va \in A2)
    BY <1>1, <2>2, <2>4, OneChanged
  <2> QED
    BY <1>0, <1>1, <2>0, <2>2, <2>3, <2>5 DEF One
<1>3. ASSUME NEW d \in PDE \ D
      PROVE  Refs(m, e, E, D \cup {d}, p) = Refs(m, e, E, D, p) + One(m.pde[e][d] = p)
  <2> DEFINE B2 == TablesTo(m, e, D \cup {d}, p)
  <2>1. D \cup {d} \in SUBSET PDE
    OBVIOUS
  <2>2. IsFiniteSet(B2) /\ Cardinality(B2) \in Nat
    BY <2>1, RefsType
  <2>0. Refs(m, e, E, D \cup {d}, p) = Cardinality(A) + Cardinality(B2)
    BY DEF Refs
  <2>3. ~(d \in B) /\ (d \in B2 <=> m.pde[e][d] = p)
    BY DEF TablesTo
  <2>4. \A y : y # d => (y \in B <=> y \in B2)
    BY DEF TablesTo
  <2> HIDE DEF A, B2, B
  <2>5. Cardinality(B2) = Cardinality(B) - One(d \in B) + One(d \in B2)
    BY <1>1, <2>2, <2>4, OneChanged
  <2> QED
    BY <1>0, <1>1, <2>0, <2>2, <2>3, <2>5 DEF One
<1> QED
  BY <1>2, <1>3

\* A memory that has dropped references is a memory.
LEMMA DroppedType ==
  ASSUME NEW m, Booked(m, {}), NEW e \in Envs, NEW E \in SUBSET VA, NEW D \in SUBSET PDE
  PROVE  Dropped(m, e, E, D) \in Memory
<1>1. m \in Memory
  BY DEF Booked
<1>2. /\ m.page_free_list \subseteq Pages
      /\ m.env_pgdir \in [Envs -> Pages \cup {NULL}]
      /\ m.pde \in [Envs -> [PDE -> Pages \cup {NULL}]]
      /\ m.pte \in [Envs -> [VA -> PTE]]
      /\ m.panic \in Panics
      /\ Unmapped \in PTE
  BY <1>1, MemoryFields DEF Unmapped, PTE
<1>3. ASSUME NEW p \in Pages
      PROVE  m.pp_ref[p] - Refs(m, e, E, D, p) \in 0 .. RefMax
  <2>1. /\ m.pp_ref[p] \in Nat /\ m.pp_ref[p] <= RefMax
        /\ Refs(m, e, E, D, p) \in Nat
        /\ Refs(m, e, E, D, p) + One(m.env_pgdir[e] = p) <= Held(m, e, p)
        /\ Held(m, e, p) \in Nat /\ Held(m, e, p) <= m.pp_ref[p]
    BY RefsBound
  <2> QED
    BY <2>1, RefMaxAssumption DEF One
<1>4. [p \in Pages |-> m.pp_ref[p] - Refs(m, e, E, D, p)] \in [Pages -> 0 .. RefMax]
  BY <1>3
<1>5. [d \in PDE |-> IF d \in D THEN NULL ELSE m.pde[e][d]] \in [PDE -> Pages \cup {NULL}]
  BY <1>2
<1>6. [va \in VA |-> IF va \in E THEN Unmapped ELSE m.pte[e][va]] \in [VA -> PTE]
  BY <1>2
<1>7. /\ [m.pde EXCEPT ![e] = [d \in PDE |-> IF d \in D THEN NULL ELSE m.pde[e][d]]]
           \in [Envs -> [PDE -> Pages \cup {NULL}]]
      /\ [m.pte EXCEPT ![e] = [va \in VA |-> IF va \in E THEN Unmapped ELSE m.pte[e][va]]]
           \in [Envs -> [VA -> PTE]]
  BY <1>2, <1>5, <1>6
<1> QED
  BY <1>2, <1>4, <1>7 DEF Dropped, Memory

\* The counts and the free list of m without c references
CountedDown(n, m, c) ==
  /\ n.pp_ref = [p \in Pages |-> m.pp_ref[p] - c[p]]
  /\ n.page_free_list = m.page_free_list
       \cup {p \in Pages : m.pp_ref[p] > 0 /\ m.pp_ref[p] = c[p]}

\* c2 is c and one reference to pg, and no more than are counted.
OneMore(m, c, c2, pg) ==
  \A p \in Pages : c2[p] = c[p] + One(pg = p) /\ c2[p] <= m.pp_ref[p]

FreeIsUnreferenced(m) == \A p \in Pages : p \in m.page_free_list <=> m.pp_ref[p] = 0

\* page_decref, when c references are dropped already.
LEMMA DecrefDropped ==
  ASSUME NEW m \in Memory, FreeIsUnreferenced(m),
         NEW n \in Memory, NEW pg \in Pages,
         NEW c \in [Pages -> Nat], NEW c2 \in [Pages -> Nat],
         CountedDown(n, m, c), OneMore(m, c, c2, pg)
  PROVE  /\ PageDecref(n, pg) \in Memory
         /\ CountedDown(PageDecref(n, pg), m, c2)
         /\ PageDecref(n, pg).env_pgdir = n.env_pgdir
         /\ PageDecref(n, pg).pde = n.pde
         /\ PageDecref(n, pg).pte = n.pte
         /\ PageDecref(n, pg).panic = n.panic
<1> DEFINE d == PageDecref(n, pg)
<1>1. /\ m.pp_ref \in [Pages -> 0 .. RefMax] /\ m.page_free_list \subseteq Pages
      /\ n.pp_ref \in [Pages -> 0 .. RefMax] /\ n.page_free_list \subseteq Pages
      /\ \A p \in Pages : m.pp_ref[p] \in Nat /\ n.pp_ref[p] \in Nat
  BY MemoryFields, RefMaxAssumption
<1>2. /\ c2[pg] = c[pg] + 1 /\ c2[pg] <= m.pp_ref[pg] /\ c[pg] \in Nat /\ c2[pg] \in Nat
      /\ \A p \in Pages : p # pg => c2[p] = c[p]
  BY DEF One, OneMore
<1>0. /\ \A p \in Pages : n.pp_ref[p] = m.pp_ref[p] - c[p]
      /\ \A p \in Pages : p \in n.page_free_list
           <=> p \in m.page_free_list \/ (m.pp_ref[p] > 0 /\ m.pp_ref[p] = c[p])
  BY <1>1 DEF CountedDown
<1>3. n.pp_ref[pg] = m.pp_ref[pg] - c[pg]
  BY <1>0
<1>4. n.pp_ref[pg] > 0 /\ m.pp_ref[pg] > 0 /\ m.pp_ref[pg] # c[pg]
      /\ (n.pp_ref[pg] = 1 <=> m.pp_ref[pg] = c2[pg])
  BY <1>1, <1>2, <1>3
<1>5. pg \notin n.page_free_list
  BY <1>0, <1>4 DEF FreeIsUnreferenced
<1>6. /\ d.pp_ref = [n.pp_ref EXCEPT ![pg] = @ - 1]
      /\ d.page_free_list = n.page_free_list \cup (IF n.pp_ref[pg] = 1 THEN {pg} ELSE {})
      /\ d.env_pgdir = n.env_pgdir /\ d.pde = n.pde /\ d.pte = n.pte
      /\ d.panic = n.panic /\ d \in Memory
  BY <1>4, <1>5, DecrefCounts
<1> HIDE DEF d
<1>7. d.pp_ref = [p \in Pages |-> m.pp_ref[p] - c2[p]]
  <2>1. ASSUME NEW p \in Pages
        PROVE  d.pp_ref[p] = m.pp_ref[p] - c2[p]
    <3>1. CASE p = pg
      BY <1>1, <1>2, <1>3, <1>6, <3>1
    <3>2. CASE p # pg
      <4>1. d.pp_ref[p] = n.pp_ref[p] /\ c2[p] = c[p]
        BY <1>1, <1>2, <1>6, <3>2
      <4> QED
        BY <1>0, <4>1
    <3> QED
      BY <3>1, <3>2
  <2>2. d.pp_ref \in [Pages -> 0 .. RefMax]
    BY <1>6, MemoryFields
  <2> QED
    BY <2>1, <2>2
<1>8. d.page_free_list = m.page_free_list
        \cup {p \in Pages : m.pp_ref[p] > 0 /\ m.pp_ref[p] = c2[p]}
  <2>1. ASSUME NEW p \in Pages
        PROVE  p \in d.page_free_list
                 <=> p \in m.page_free_list \/ (m.pp_ref[p] > 0 /\ m.pp_ref[p] = c2[p])
    <3>1. CASE p = pg
      BY <1>0, <1>4, <1>5, <1>6, <3>1 DEF FreeIsUnreferenced
    <3>2. CASE p # pg
      <4>1. p \in d.page_free_list <=> p \in n.page_free_list
        BY <1>6, <3>2
      <4> QED
        BY <1>0, <1>2, <3>2, <4>1
    <3> QED
      BY <3>1, <3>2
  <2>2. d.page_free_list \subseteq Pages
    BY <1>6, MemoryFields
  <2> QED
    BY <1>1, <2>1, <2>2
<1> QED
  BY <1>6, <1>7, <1>8 DEF d, CountedDown

\* n is m without c references, those in the entries E and the tables D of slot e.
IsDropped(n, m, e, E, D, c) ==
  /\ CountedDown(n, m, c)
  /\ n.env_pgdir = m.env_pgdir
  /\ n.pde = [m.pde EXCEPT ![e] = [d \in PDE |-> IF d \in D THEN NULL ELSE m.pde[e][d]]]
  /\ n.pte = [m.pte EXCEPT ![e] = [va \in VA |-> IF va \in E THEN Unmapped ELSE m.pte[e][va]]]
  /\ n.panic = m.panic

\* What such a memory is made of, read field by field.
LEMMA DroppedFields ==
  ASSUME NEW m, Booked(m, {}), NEW e \in Envs, NEW E \in SUBSET VA, NEW D \in SUBSET PDE
  PROVE  \E c \in [Pages -> Nat] :
           /\ IsDropped(Dropped(m, e, E, D), m, e, E, D, c)
           /\ \A p \in Pages : c[p] = Refs(m, e, E, D, p)
<1> DEFINE c == [p \in Pages |-> Refs(m, e, E, D, p)]
<1>1. \A p \in Pages : c[p] = Refs(m, e, E, D, p)
  OBVIOUS
<1>2. c \in [Pages -> Nat]
  BY RefsType
<1> HIDE DEF c
<1>3. CountedDown(Dropped(m, e, E, D), m, c)
  BY <1>1 DEF Dropped, CountedDown
<1>4. IsDropped(Dropped(m, e, E, D), m, e, E, D, c)
  BY <1>3 DEF Dropped, IsDropped
<1> QED
  BY <1>1, <1>2, <1>4

\* A matrix with one cell written
Written(t, i, j, v) == [t EXCEPT ![i][j] = v]

\* u is t but for one cell.
ButOneCell(u, t, I, J, i, j, v) ==
  \A f \in I, y \in J : u[f][y] = IF f = i /\ y = j THEN v ELSE t[f][y]

\* Writing one entry of a table writes one cell.
LEMMA OneCell ==
  ASSUME NEW I, NEW J, NEW V, NEW t \in [I -> [J -> V]], NEW u \in [I -> [J -> V]],
         NEW i \in I, NEW j \in J, NEW v \in V,
         ButOneCell(u, t, I, J, i, j, v)
  PROVE  u = Written(t, i, j, v)
<1> DEFINE w == [t EXCEPT ![i][j] = v]
<1>1. w \in [I -> [J -> V]]
  OBVIOUS
<1>2. ASSUME NEW f \in I, NEW y \in J
      PROVE  w[f][y] = IF f = i /\ y = j THEN v ELSE t[f][y]
  OBVIOUS
<1> HIDE DEF w
<1>3. ASSUME NEW f \in I
      PROVE  u[f] = w[f]
  <2>1. u[f] \in [J -> V] /\ w[f] \in [J -> V]
    BY <1>1
  <2>2. \A y \in J : u[f][y] = w[f][y]
    BY <1>2 DEF ButOneCell
  <2> QED
    BY <2>1, <2>2
<1>4. u = w
  BY <1>1, <1>3
<1> QED
  BY <1>4 DEF w, Written

\* One entry more: page_remove.
LEMMA EntryDropped ==
  ASSUME NEW m, Booked(m, {}), EntriesFit(m), NEW e \in Envs,
         NEW E \in SUBSET VA, NEW D \in SUBSET PDE, NEW va \in VA \ E, PDX[va] \notin D
  PROVE  PageRemove(Dropped(m, e, E, D), e, va) = Dropped(m, e, E \cup {va}, D)
<1> DEFINE E2 == E \cup {va}
           x == Dropped(m, e, E, D)
           z == Dropped(m, e, E2, D)
           r == PageRemove(x, e, va)
           pg == m.pte[e][va].page
<1>1. /\ m \in Memory /\ E2 \in SUBSET VA /\ PDX[va] \in PDE
      /\ FreeIsUnreferenced(m)
      /\ m.pde \in [Envs -> [PDE -> Pages \cup {NULL}]]
      /\ m.pte \in [Envs -> [VA -> PTE]]
      /\ pg \in Pages \cup {NULL}
      /\ Unmapped \in PTE
  BY VAAssumption, MemoryFields DEF Booked, PTE, Unmapped, FreeIsUnreferenced
<1>2. \A p \in Pages : /\ Refs(m, e, E2, D, p) = Refs(m, e, E, D, p) + One(pg = p)
                       /\ Refs(m, e, E2, D, p) <= m.pp_ref[p]
  <2> SUFFICES ASSUME NEW p \in Pages
               PROVE  /\ Refs(m, e, E2, D, p) = Refs(m, e, E, D, p) + One(pg = p)
                      /\ Refs(m, e, E2, D, p) <= m.pp_ref[p]
    OBVIOUS
  <2>1. Refs(m, e, E2, D, p) = Refs(m, e, E, D, p) + One(pg = p)
    BY <1>1, OneRefMore
  <2> HIDE DEF E2
  <2>2. /\ m.pp_ref[p] \in Nat
        /\ Refs(m, e, E2, D, p) \in Nat
        /\ Refs(m, e, E2, D, p) + One(m.env_pgdir[e] = p) <= Held(m, e, p)
        /\ Held(m, e, p) \in Nat /\ Held(m, e, p) <= m.pp_ref[p]
    BY <1>1, RefsBound
  <2> QED
    BY <2>1, <2>2 DEF One
<1>3. \A y : y \in E2 <=> y \in E \/ y = va
  OBVIOUS
<1> HIDE DEF E2, pg
<1>4. PICK c \in [Pages -> Nat] :
        IsDropped(x, m, e, E, D, c) /\ \A p \in Pages : c[p] = Refs(m, e, E, D, p)
  BY DroppedFields
<1>5. PICK c2 \in [Pages -> Nat] :
        IsDropped(z, m, e, E2, D, c2) /\ \A p \in Pages : c2[p] = Refs(m, e, E2, D, p)
  BY <1>1, DroppedFields
<1>6. x \in Memory /\ z \in Memory
  BY <1>1, DroppedType
<1>7. OneMore(m, c, c2, pg)
  BY <1>2, <1>4, <1>5 DEF OneMore
<1> HIDE DEF x, z
<1>8. x.pde[e][PDX[va]] = m.pde[e][PDX[va]] /\ x.pte[e][va] = m.pte[e][va]
  BY <1>1, <1>4 DEF IsDropped
<1>9. z.pde = x.pde /\ z.pte = [x.pte EXCEPT ![e][va] = Unmapped]
  <2>1. x.pte \in [Envs -> [VA -> PTE]] /\ z.pte \in [Envs -> [VA -> PTE]]
    BY <1>6, MemoryFields
  <2>2. ASSUME NEW f \in Envs, NEW y \in VA
        PROVE  z.pte[f][y] = IF f = e /\ y = va THEN Unmapped ELSE x.pte[f][y]
    BY <1>1, <1>3, <1>4, <1>5 DEF IsDropped
  <2>3. ButOneCell(z.pte, x.pte, Envs, VA, e, va, Unmapped)
    BY <2>2 DEF ButOneCell
  <2>4. z.pte = Written(x.pte, e, va, Unmapped)
    <3>1. e \in Envs /\ va \in VA /\ Unmapped \in PTE
      BY <1>1
    <3> QED
      BY ONLY <2>1, <2>3, <3>1, OneCell
  <2> QED
    BY <1>4, <1>5, <2>4 DEF IsDropped, Written
<1>10. CASE PageLookup(x, e, va) = NULL
  <2>1. r = x
    BY <1>10 DEF PageRemove
  <2>2. m.pte[e][va] = Unmapped
    BY <1>8, <1>10 DEF PageLookup, EntriesFit
  <2>3. \A p \in Pages : pg # p
    BY <2>2, NULLAssumption DEF Unmapped, pg
  <2>4. c2 = c
    <3>1. \A p \in Pages : c2[p] = c[p]
      BY <1>4, <1>7, <2>3 DEF One, OneMore
    <3> QED
      BY <3>1
  <2>5. z.pte = x.pte
    <3>1. x.pte \in [Envs -> [VA -> PTE]]
      BY <1>6, MemoryFields
    <3>2. x.pte[e][va] = Unmapped
      BY <1>8, <2>2
    <3>3. ButOneCell(x.pte, x.pte, Envs, VA, e, va, Unmapped)
      BY <3>2 DEF ButOneCell
    <3>4. x.pte = Written(x.pte, e, va, Unmapped)
      BY <1>1, <3>1, <3>3, OneCell
    <3> QED
      BY <1>9, <3>4 DEF Written
  <2>6. z = x
    <3>1. z.pp_ref = x.pp_ref /\ z.page_free_list = x.page_free_list
      BY <1>4, <1>5, <2>4 DEF IsDropped, CountedDown
    <3>2. z.env_pgdir = x.env_pgdir /\ z.pde = x.pde /\ z.panic = x.panic
      BY <1>4, <1>5 DEF IsDropped
    <3> QED
      BY <1>6, <2>5, <3>1, <3>2, SameMemory
  <2> QED
    BY <2>1, <2>6 DEF x, z, E2
<1>11. CASE PageLookup(x, e, va) # NULL
  <2> DEFINE d == PageDecref(x, pg)
  <2>1. PageLookup(x, e, va) = pg /\ pg \in Pages
    BY <1>1, <1>8, <1>11 DEF PageLookup, pg
  <2>2. r = [d EXCEPT !.pte[e][va] = Unmapped]
    BY <1>11, <2>1 DEF PageRemove
  <2>3. r \in Memory
    BY <1>6, PageRemoveType
  <2>4. /\ d \in Memory /\ CountedDown(d, m, c2)
        /\ d.env_pgdir = x.env_pgdir /\ d.pde = x.pde /\ d.pte = x.pte /\ d.panic = x.panic
    <3>1. CountedDown(x, m, c)
      BY <1>4 DEF IsDropped
    <3> QED
      BY <1>1, <1>4, <1>5, <1>6, <1>7, <2>1, <3>1, DecrefDropped
  <2> HIDE DEF d, r
  <2>5. /\ r.pp_ref = d.pp_ref /\ r.page_free_list = d.page_free_list
        /\ r.env_pgdir = d.env_pgdir /\ r.pde = d.pde /\ r.panic = d.panic
        /\ r.pte = [d.pte EXCEPT ![e][va] = Unmapped]
    BY <2>2, <2>4 DEF Memory
  <2>6. /\ r.pp_ref = z.pp_ref /\ r.page_free_list = z.page_free_list
        /\ r.env_pgdir = z.env_pgdir /\ r.pde = z.pde /\ r.pte = z.pte /\ r.panic = z.panic
    BY <1>4, <1>5, <1>9, <2>4, <2>5 DEF IsDropped, CountedDown
  <2>7. r = z
    BY <1>6, <2>3, <2>6, SameMemory
  <2> QED
    BY <2>7 DEF r, x, z, E2
<1> QED
  BY <1>10, <1>11

\* One table more.
LEMMA TableDropped ==
  ASSUME NEW m, Booked(m, {}), NEW e \in Envs,
         NEW E \in SUBSET VA, NEW D \in SUBSET PDE, NEW d \in PDE \ D, m.pde[e][d] # NULL
  PROVE  PageDecref([Dropped(m, e, E, D) EXCEPT !.pde[e][d] = NULL], m.pde[e][d])
           = Dropped(m, e, E, D \cup {d})
<1> DEFINE D2 == D \cup {d}
           x == Dropped(m, e, E, D)
           z == Dropped(m, e, E, D2)
           pg == m.pde[e][d]
           n == [x EXCEPT !.pde[e][d] = NULL]
           r == PageDecref(n, pg)
<1>1. /\ m \in Memory /\ D2 \in SUBSET PDE
      /\ FreeIsUnreferenced(m)
      /\ m.pde \in [Envs -> [PDE -> Pages \cup {NULL}]]
      /\ pg \in Pages
  BY MemoryFields DEF Booked, FreeIsUnreferenced
<1>2. \A p \in Pages : /\ Refs(m, e, E, D2, p) = Refs(m, e, E, D, p) + One(pg = p)
                       /\ Refs(m, e, E, D2, p) <= m.pp_ref[p]
  <2> SUFFICES ASSUME NEW p \in Pages
               PROVE  /\ Refs(m, e, E, D2, p) = Refs(m, e, E, D, p) + One(pg = p)
                      /\ Refs(m, e, E, D2, p) <= m.pp_ref[p]
    OBVIOUS
  <2>1. Refs(m, e, E, D2, p) = Refs(m, e, E, D, p) + One(pg = p)
    BY <1>1, OneRefMore
  <2> HIDE DEF D2
  <2>2. /\ m.pp_ref[p] \in Nat
        /\ Refs(m, e, E, D2, p) \in Nat
        /\ Refs(m, e, E, D2, p) + One(m.env_pgdir[e] = p) <= Held(m, e, p)
        /\ Held(m, e, p) \in Nat /\ Held(m, e, p) <= m.pp_ref[p]
    BY <1>1, RefsBound
  <2> QED
    BY <2>1, <2>2 DEF One
<1>3. \A y : y \in D2 <=> y \in D \/ y = d
  OBVIOUS
<1> HIDE DEF D2, pg
<1>4. PICK c \in [Pages -> Nat] :
        IsDropped(x, m, e, E, D, c) /\ \A p \in Pages : c[p] = Refs(m, e, E, D, p)
  BY DroppedFields
<1>5. PICK c2 \in [Pages -> Nat] :
        IsDropped(z, m, e, E, D2, c2) /\ \A p \in Pages : c2[p] = Refs(m, e, E, D2, p)
  BY <1>1, DroppedFields
<1>6. x \in Memory /\ z \in Memory
  BY <1>1, DroppedType
<1>7. OneMore(m, c, c2, pg)
  BY <1>2, <1>4, <1>5 DEF OneMore
<1> HIDE DEF x, z
<1>8. /\ x.pde \in [Envs -> [PDE -> Pages \cup {NULL}]]
      /\ z.pde \in [Envs -> [PDE -> Pages \cup {NULL}]]
  BY <1>6, MemoryFields
<1>9. z.pde = [x.pde EXCEPT ![e][d] = NULL]
  <2>1. ASSUME NEW f \in Envs, NEW y \in PDE
        PROVE  z.pde[f][y] = IF f = e /\ y = d THEN NULL ELSE x.pde[f][y]
    BY <1>1, <1>3, <1>4, <1>5 DEF IsDropped
  <2>2. ButOneCell(z.pde, x.pde, Envs, PDE, e, d, NULL)
    BY <2>1 DEF ButOneCell
  <2> DEFINE V == Pages \cup {NULL}
  <2>3. /\ e \in Envs /\ NULL \in V /\ d \in PDE
        /\ x.pde \in [Envs -> [PDE -> V]] /\ z.pde \in [Envs -> [PDE -> V]]
    BY <1>8
  <2> HIDE DEF V
  <2>4. z.pde = Written(x.pde, e, d, NULL)
    BY ONLY <2>2, <2>3, OneCell
  <2> QED
    BY <2>4 DEF Written
<1>10. n = [x EXCEPT !.pde = z.pde]
  BY <1>6, <1>9 DEF Memory
<1> HIDE DEF n
<1>11. /\ n \in Memory
       /\ n.pp_ref = x.pp_ref /\ n.page_free_list = x.page_free_list
       /\ n.env_pgdir = x.env_pgdir /\ n.pde = z.pde /\ n.pte = x.pte /\ n.panic = x.panic
  BY <1>6, <1>8, <1>10 DEF Memory
<1>12. /\ r \in Memory /\ CountedDown(r, m, c2)
       /\ r.env_pgdir = n.env_pgdir /\ r.pde = n.pde /\ r.pte = n.pte /\ r.panic = n.panic
  <2>1. CountedDown(n, m, c)
    BY <1>4, <1>11 DEF IsDropped, CountedDown
  <2> QED
    BY <1>1, <1>4, <1>5, <1>7, <1>11, <2>1, DecrefDropped
<1> HIDE DEF r
<1>13. /\ r.pp_ref = z.pp_ref /\ r.page_free_list = z.page_free_list
       /\ r.env_pgdir = z.env_pgdir /\ r.pde = z.pde /\ r.pte = z.pte /\ r.panic = z.panic
  BY <1>4, <1>5, <1>11, <1>12 DEF IsDropped, CountedDown
<1>14. r = z
  BY <1>6, <1>12, <1>13, SameMemory
<1> QED
  BY <1>14 DEF r, n, x, z, pg, D2

\* Which element of a set a fold comes to first
PickFrom(s) == CHOOSE x \in s : TRUE

\* Two functions that do the same with every set they meet on the way are the same.
LEMMA SameOnSubsets ==
  ASSUME NEW S, IsFiniteSet(S), NEW f, NEW g, f[{}] = g[{}],
         \A s \in SUBSET S :
           s # {} /\ f[s \ {PickFrom(s)}] = g[s \ {PickFrom(s)}] => f[s] = g[s]
  PROVE  f[S] = g[S]
<1> DEFINE n == Cardinality(S)
           Q == {k \in Nat : \A s \in SUBSET S : Cardinality(s) = k => f[s] = g[s]}
<1>1. n \in Nat
  BY FS_CardinalityType
<1>2. 0 \in Q
  <2> SUFFICES ASSUME NEW s \in SUBSET S, Cardinality(s) = 0
               PROVE  f[s] = g[s]
    OBVIOUS
  <2>1. s = {}
    BY FS_Subset, FS_EmptySet
  <2> QED
    BY <2>1
<1>3. ASSUME NEW k \in 1 .. n, k - 1 \in Q
      PROVE  k \in Q
  <2> SUFFICES ASSUME NEW s \in SUBSET S, Cardinality(s) = k
               PROVE  f[s] = g[s]
    OBVIOUS
  <2> DEFINE t == s \ {PickFrom(s)}
  <2>1. IsFiniteSet(s) /\ s # {}
    BY FS_Subset, FS_EmptySet
  <2>2. PickFrom(s) \in s
    BY <2>1 DEF PickFrom
  <2>3. Cardinality(t) = k - 1
    BY <2>1, <2>2, FS_RemoveElement
  <2>4. t \in SUBSET S
    OBVIOUS
  <2>5. f[t] = g[t]
    BY <1>3, <2>3, <2>4
  <2> QED
    BY <2>1, <2>5
<1> HIDE DEF Q
<1>4. \A k \in 0 .. n : k \in Q
  BY <1>1, <1>2, <1>3, CountsUpTo
<1>5. n \in Q
  BY <1>1, <1>4
<1> QED
  BY <1>5 DEF Q

\* All entries in S, one after the other.
LEMMA EntriesDropped ==
  ASSUME NEW m, Booked(m, {}), EntriesFit(m), NEW e \in Envs,
         NEW E \in SUBSET VA, NEW D \in SUBSET PDE,
         NEW S \in SUBSET VA, S \cap E = {}, \A va \in S : PDX[va] \notin D
  PROVE  DropEntries(Dropped(m, e, E, D), e, S) = Dropped(m, e, E \cup S, D)
<1> DEFINE base == Dropped(m, e, E, D)
           g == [s \in SUBSET S |-> Dropped(m, e, E \cup s, D)]
           P(h) == h = [s \in SUBSET S |->
                          IF s = {} THEN base
                          ELSE PageRemove(h[s \ {PickFrom(s)}], e, PickFrom(s))]
           it == CHOOSE h : P(h)
<1>1. DropEntries(base, e, S) = it[S]
  BY DEF DropEntries, FoldSet, MapThenFoldSet, PickFrom
<1>2. /\ \A s \in SUBSET S : g[s] = Dropped(m, e, E \cup s, D)
      /\ g = [s \in SUBSET S |-> g[s]]
  OBVIOUS
<1>3. g[{}] = base
  <2>1. E \cup {} = E /\ {} \in SUBSET S
    OBVIOUS
  <2> QED
    BY <1>2, <2>1
<1>4. ASSUME NEW s \in SUBSET S, s # {}
      PROVE  g[s] = PageRemove(g[s \ {PickFrom(s)}], e, PickFrom(s))
  <2> DEFINE x == PickFrom(s)
             F == E \cup (s \ {x})
  <2>1. x \in s
    BY <1>4 DEF PickFrom
  <2>2. /\ F \in SUBSET VA /\ x \in VA \ F /\ PDX[x] \notin D
        /\ F \cup {x} = E \cup s /\ s \ {x} \in SUBSET S
    BY <2>1
  <2> HIDE DEF x, F, g
  <2>3. PageRemove(Dropped(m, e, F, D), e, x) = Dropped(m, e, F \cup {x}, D)
    BY <2>2, EntryDropped
  <2>4. g[s \ {x}] = Dropped(m, e, F, D) /\ g[s] = Dropped(m, e, F \cup {x}, D)
    BY <1>2, <2>2 DEF F
  <2> QED
    BY <2>3, <2>4 DEF x
<1> HIDE DEF g, base
<1>5. P(g)
  <2>1. \A s \in SUBSET S : g[s] = IF s = {} THEN base
                                   ELSE PageRemove(g[s \ {PickFrom(s)}], e, PickFrom(s))
    BY <1>3, <1>4
  <2> QED
    BY <1>2, <2>1, Zenon
<1>6. P(it)
  <2> HIDE DEF P
  <2> QED
    BY <1>5
<1> HIDE DEF it
<1>7. /\ it[{}] = base
      /\ \A s \in SUBSET S :
           s # {} => it[s] = PageRemove(it[s \ {PickFrom(s)}], e, PickFrom(s))
  BY <1>6
<1> HIDE DEF P
<1>8. it[S] = g[S]
  <2>1. IsFiniteSet(S)
    BY VAAssumption, FS_Subset
  <2>2. it[{}] = g[{}]
    BY <1>3, <1>7
  <2>3. \A s \in SUBSET S :
          s # {} /\ it[s \ {PickFrom(s)}] = g[s \ {PickFrom(s)}] => it[s] = g[s]
    BY <1>4, <1>7
  <2> QED
    BY <2>1, <2>2, <2>3, SameOnSubsets
<1> QED
  BY <1>1, <1>2, <1>8 DEF base

\* The entries of the tables in D
Under(D) == {va \in VA : PDX[va] \in D}

\* A table with its entries, also one that is not there.
LEMMA OneTableDropped ==
  ASSUME NEW m, Booked(m, {}), EntriesFit(m), NEW e \in Envs,
         NEW D \in SUBSET PDE, NEW d \in PDE \ D
  PROVE  DropTable(Dropped(m, e, Under(D), D), e, d)
           = Dropped(m, e, Under(D \cup {d}), D \cup {d})
<1> DEFINE x == Dropped(m, e, Under(D), D)
           E2 == Under(D \cup {d})
           D2 == D \cup {d}
           z == Dropped(m, e, E2, D2)
           S == {va \in VA : PDX[va] = d}
<1>1. /\ m \in Memory /\ m.pde \in [Envs -> [PDE -> Pages \cup {NULL}]]
      /\ m.pte \in [Envs -> [VA -> PTE]]
      /\ Under(D) \in SUBSET VA /\ E2 \in SUBSET VA /\ D2 \in SUBSET PDE
  BY MemoryFields DEF Booked, Under
<1>2. /\ S \in SUBSET VA /\ S \cap Under(D) = {} /\ E2 = Under(D) \cup S
      /\ \A va \in S : PDX[va] = d /\ PDX[va] \notin D
  BY DEF Under
<1> HIDE DEF E2, S
<1>3. PICK c \in [Pages -> Nat] :
        IsDropped(x, m, e, Under(D), D, c) /\ \A p \in Pages : c[p] = Refs(m, e, Under(D), D, p)
  BY <1>1, DroppedFields
<1>4. x.pde[e][d] = m.pde[e][d]
  BY <1>1, <1>3 DEF IsDropped
<1>5. CASE m.pde[e][d] = NULL
  <2>1. DropTable(x, e, d) = x
    BY <1>4, <1>5 DEF DropTable
  <2>2. \A va \in S : m.pte[e][va] = Unmapped
    BY <1>2, <1>5 DEF EntriesFit
  <2>3. ASSUME NEW p \in Pages
        PROVE  Refs(m, e, E2, D2, p) = Refs(m, e, Under(D), D, p)
    <3>1. p # NULL
      BY NULLAssumption
    <3>2. EntriesTo(m, e, E2, p) = EntriesTo(m, e, Under(D), p)
      BY <1>2, <2>2, <3>1 DEF EntriesTo, Unmapped
    <3>3. TablesTo(m, e, D2, p) = TablesTo(m, e, D, p)
      BY <1>5, <3>1 DEF TablesTo
    <3> QED
      BY <3>2, <3>3 DEF Refs
  <2> HIDE DEF D2
  <2>4. PICK c2 \in [Pages -> Nat] :
          IsDropped(z, m, e, E2, D2, c2) /\ \A p \in Pages : c2[p] = Refs(m, e, E2, D2, p)
    BY <1>1, DroppedFields
  <2>5. x \in Memory /\ z \in Memory
    BY <1>1, DroppedType
  <2>6. c2 = c
    <3>1. \A p \in Pages : c2[p] = c[p]
      BY <1>3, <2>3, <2>4
    <3> QED
      BY <1>3, <2>4, <3>1
  <2> HIDE DEF x, z
  <2>7. z.pp_ref = x.pp_ref /\ z.page_free_list = x.page_free_list
    BY <1>3, <2>4, <2>6 DEF IsDropped, CountedDown
  <2>8. z.env_pgdir = x.env_pgdir /\ z.panic = x.panic
    BY <1>3, <2>4 DEF IsDropped
  <2>9. z.pde = x.pde
    <3>1. \A y \in PDE : (IF y \in D2 THEN NULL ELSE m.pde[e][y])
                           = (IF y \in D THEN NULL ELSE m.pde[e][y])
      BY <1>5 DEF D2
    <3>2. [y \in PDE |-> IF y \in D2 THEN NULL ELSE m.pde[e][y]]
            = [y \in PDE |-> IF y \in D THEN NULL ELSE m.pde[e][y]]
      BY <3>1
    <3> QED
      BY <1>3, <2>4, <3>2 DEF IsDropped
  <2>10. z.pte = x.pte
    <3>1. \A y \in VA : (IF y \in E2 THEN Unmapped ELSE m.pte[e][y])
                          = (IF y \in Under(D) THEN Unmapped ELSE m.pte[e][y])
      BY <1>2, <2>2
    <3>2. [y \in VA |-> IF y \in E2 THEN Unmapped ELSE m.pte[e][y]]
            = [y \in VA |-> IF y \in Under(D) THEN Unmapped ELSE m.pte[e][y]]
      BY <3>1
    <3> QED
      BY <1>3, <2>4, <3>2 DEF IsDropped
  <2>11. z = x
    BY <2>5, <2>7, <2>8, <2>9, <2>10, SameMemory
  <2> QED
    BY <2>1, <2>11 DEF x, z, E2, D2
<1>6. CASE m.pde[e][d] # NULL
  <2> DEFINE y == Dropped(m, e, E2, D)
  <2>1. DropEntries(x, e, S) = y
    BY <1>1, <1>2, EntriesDropped
  <2>2. DropTable(x, e, d) = PageDecref([y EXCEPT !.pde[e][d] = NULL], m.pde[e][d])
    <3> HIDE DEF x, y
    <3> QED
      BY <1>4, <1>6, <2>1 DEF DropTable, S
  <2>3. PageDecref([y EXCEPT !.pde[e][d] = NULL], m.pde[e][d]) = z
    <3> HIDE DEF D2
    <3>1. d \in PDE \ D /\ E2 \in SUBSET VA /\ D \in SUBSET PDE
      BY <1>1
    <3>2. PageDecref([Dropped(m, e, E2, D) EXCEPT !.pde[e][d] = NULL], m.pde[e][d])
            = Dropped(m, e, E2, D \cup {d})
      BY <1>6, <3>1, TableDropped
    <3> QED
      BY <3>2 DEF D2
  <2> QED
    BY <2>2, <2>3 DEF x, z, E2
<1> QED
  BY <1>5, <1>6

\* Nothing is dropped to begin with.
LEMMA NothingDropped ==
  ASSUME NEW m, Booked(m, {}), NEW e \in Envs
  PROVE  Dropped(m, e, {}, {}) = m
<1> DEFINE x == Dropped(m, e, {}, {})
<1>1. /\ m \in Memory /\ m.pp_ref \in [Pages -> 0 .. RefMax]
      /\ m.pde \in [Envs -> [PDE -> Pages \cup {NULL}]]
      /\ m.pte \in [Envs -> [VA -> PTE]]
      /\ {} \in SUBSET VA /\ {} \in SUBSET PDE
  BY MemoryFields DEF Booked
<1>2. \A p \in Pages : Refs(m, e, {}, {}, p) = 0
  <2> SUFFICES ASSUME NEW p \in Pages
               PROVE  Refs(m, e, {}, {}, p) = 0
    OBVIOUS
  <2>1. EntriesTo(m, e, {}, p) = {} /\ TablesTo(m, e, {}, p) = {}
    BY DEF EntriesTo, TablesTo
  <2>2. Cardinality({}) = 0
    BY FS_EmptySet
  <2> QED
    BY <2>1, <2>2 DEF Refs
<1>3. PICK c \in [Pages -> Nat] :
        IsDropped(x, m, e, {}, {}, c) /\ \A p \in Pages : c[p] = Refs(m, e, {}, {}, p)
  BY <1>1, DroppedFields
<1>4. x \in Memory
  BY <1>1, DroppedType
<1> HIDE DEF x
<1>5. \A p \in Pages : c[p] = 0
  BY <1>2, <1>3
<1>6. x.pp_ref = m.pp_ref
  <2>1. x.pp_ref = [p \in Pages |-> m.pp_ref[p] - c[p]]
    BY <1>3 DEF IsDropped, CountedDown
  <2>2. \A p \in Pages : m.pp_ref[p] - c[p] = m.pp_ref[p]
    BY <1>1, <1>5, RefMaxAssumption
  <2> QED
    BY <1>1, <2>1, <2>2
<1>7. x.page_free_list = m.page_free_list
  <2>1. \A p \in Pages : ~(m.pp_ref[p] > 0 /\ m.pp_ref[p] = c[p])
    BY <1>1, <1>5, RefMaxAssumption
  <2>2. {p \in Pages : m.pp_ref[p] > 0 /\ m.pp_ref[p] = c[p]} = {}
    BY <2>1
  <2> QED
    BY <1>3, <2>2 DEF IsDropped, CountedDown
<1>8. x.pde = m.pde
  <2>1. m.pde[e] = [d \in PDE |-> m.pde[e][d]]
    BY <1>1
  <2>2. x.pde = [m.pde EXCEPT ![e] = [d \in PDE |-> m.pde[e][d]]]
    BY <1>3 DEF IsDropped
  <2> QED
    BY <1>1, <2>1, <2>2
<1>9. x.pte = m.pte
  <2>1. m.pte[e] = [va \in VA |-> m.pte[e][va]]
    BY <1>1
  <2>2. x.pte = [m.pte EXCEPT ![e] = [va \in VA |-> m.pte[e][va]]]
    BY <1>3 DEF IsDropped
  <2> QED
    BY <1>1, <2>1, <2>2
<1>10. x.env_pgdir = m.env_pgdir /\ x.panic = m.panic
  BY <1>3 DEF IsDropped
<1>11. x = m
  BY <1>1, <1>4, <1>6, <1>7, <1>8, <1>9, <1>10, SameMemory
<1> QED
  BY <1>11 DEF x

\* All tables, one after the other.
LEMMA TablesDropped ==
  ASSUME NEW m, Booked(m, {}), EntriesFit(m), NEW e \in Envs
  PROVE  DropTables(m, e) = Dropped(m, e, VA, PDE)
<1> DEFINE g == [s \in SUBSET PDE |-> Dropped(m, e, Under(s), s)]
           P(h) == h = [s \in SUBSET PDE |->
                          IF s = {} THEN m
                          ELSE DropTable(h[s \ {PickFrom(s)}], e, PickFrom(s))]
           it == CHOOSE h : P(h)
<1>1. DropTables(m, e) = it[PDE]
  BY DEF DropTables, FoldSet, MapThenFoldSet, PickFrom
<1>2. /\ \A s \in SUBSET PDE : g[s] = Dropped(m, e, Under(s), s)
      /\ g = [s \in SUBSET PDE |-> g[s]]
  OBVIOUS
<1>3. g[{}] = m
  <2>1. Under({}) = {} /\ {} \in SUBSET PDE
    BY DEF Under
  <2> QED
    BY <1>2, <2>1, NothingDropped
<1>4. ASSUME NEW s \in SUBSET PDE, s # {}
      PROVE  g[s] = DropTable(g[s \ {PickFrom(s)}], e, PickFrom(s))
  <2> DEFINE d == PickFrom(s)
             D == s \ {d}
  <2>1. d \in s
    BY <1>4 DEF PickFrom
  <2>2. D \in SUBSET PDE /\ d \in PDE \ D /\ D \cup {d} = s
    BY <2>1
  <2> HIDE DEF d, D, g
  <2>3. DropTable(Dropped(m, e, Under(D), D), e, d) = Dropped(m, e, Under(D \cup {d}), D \cup {d})
    BY <2>2, OneTableDropped
  <2>4. g[D] = Dropped(m, e, Under(D), D) /\ g[s] = Dropped(m, e, Under(D \cup {d}), D \cup {d})
    BY <1>2, <2>2
  <2> QED
    BY <2>3, <2>4 DEF d, D
<1> HIDE DEF g
<1>5. P(g)
  <2>1. \A s \in SUBSET PDE : g[s] = IF s = {} THEN m
                                     ELSE DropTable(g[s \ {PickFrom(s)}], e, PickFrom(s))
    BY <1>3, <1>4
  <2> QED
    BY <1>2, <2>1, Zenon
<1>6. P(it)
  <2> HIDE DEF P
  <2> QED
    BY <1>5
<1> HIDE DEF it
<1>7. /\ it[{}] = m
      /\ \A s \in SUBSET PDE :
           s # {} => it[s] = DropTable(it[s \ {PickFrom(s)}], e, PickFrom(s))
  BY <1>6
<1> HIDE DEF P
<1>8. it[PDE] = g[PDE]
  <2>1. it[{}] = g[{}]
    BY <1>3, <1>7
  <2>2. \A s \in SUBSET PDE :
          s # {} /\ it[s \ {PickFrom(s)}] = g[s \ {PickFrom(s)}] => it[s] = g[s]
    BY <1>4, <1>7
  <2> QED
    BY <2>1, <2>2, SameOnSubsets, VAAssumption
<1>9. Under(PDE) = VA /\ PDE \in SUBSET PDE
  BY VAAssumption DEF Under
<1> QED
  BY <1>1, <1>2, <1>8, <1>9

\* The directory goes last, and what is left is what FreeVm leaves.
LEMMA FreeVmByPage ==
  ASSUME NEW m, Booked(m, {}), EntriesFit(m), NEW e \in Envs, m.env_pgdir[e] # NULL
  PROVE  FreeVm(m, e) = EnvFreeByPage(m, e)
<1> DEFINE x == Dropped(m, e, VA, PDE)
           v == FreeVm(m, e)
           pg == m.env_pgdir[e]
           n == [x EXCEPT !.env_pgdir[e] = NULL]
           r == PageDecref(n, pg)
           c2 == [p \in Pages |-> Held(m, e, p)]
           freed == {p \in Pages : m.pp_ref[p] > 0 /\ m.pp_ref[p] <= Held(m, e, p)}
           left(p) == IF m.pp_ref[p] >= Held(m, e, p)
                      THEN m.pp_ref[p] - Held(m, e, p)
                      ELSE (m.pp_ref[p] - Held(m, e, p)) % (RefMax + 1)
<1>1. /\ m \in Memory /\ v \in Memory /\ FreeIsUnreferenced(m)
      /\ m.env_pgdir \in [Envs -> Pages \cup {NULL}]
      /\ pg \in Pages
      /\ VA \in SUBSET VA /\ PDE \in SUBSET PDE
  <2>1. m \in Memory /\ FreeIsUnreferenced(m)
    BY DEF Booked, FreeIsUnreferenced
  <2>2. v \in Memory
    BY <2>1, FreeVmType
  <2>3. m.env_pgdir \in [Envs -> Pages \cup {NULL}]
    BY <2>1, MemoryFields
  <2>4. pg \in Pages
    BY <2>3
  <2> HIDE DEF v, pg
  <2> QED
    BY <2>1, <2>2, <2>3, <2>4
<1>2. EnvFreeByPage(m, e) = r
  BY TablesDropped DEF EnvFreeByPage
<1>3. ASSUME NEW p \in Pages
      PROVE  /\ m.pp_ref[p] \in Nat
             /\ Refs(m, e, VA, PDE, p) \in Nat
             /\ Held(m, e, p) = Refs(m, e, VA, PDE, p) + One(pg = p)
             /\ Held(m, e, p) \in Nat /\ Held(m, e, p) <= m.pp_ref[p]
  BY RefsBound
<1>4. PICK c \in [Pages -> Nat] :
        IsDropped(x, m, e, VA, PDE, c) /\ \A p \in Pages : c[p] = Refs(m, e, VA, PDE, p)
  BY <1>1, DroppedFields
<1>5. x \in Memory
  BY <1>1, DroppedType
<1>6. v = [m EXCEPT !.pp_ref = [p \in Pages |-> left(p)],
                    !.page_free_list = m.page_free_list \cup freed,
                    !.env_pgdir = [m.env_pgdir EXCEPT ![e] = NULL],
                    !.pde = [m.pde EXCEPT ![e] = [d \in PDE |-> NULL]],
                    !.pte = [m.pte EXCEPT ![e] = [va \in VA |-> Unmapped]],
                    !.panic = IF freed \cap m.page_free_list # {} THEN "page_free" ELSE m.panic]
  BY <1>1 DEF FreeVm, Memory
<1> HIDE DEF v, x, left, freed, pg
<1>7. /\ v.pp_ref = [p \in Pages |-> left(p)]
      /\ v.page_free_list = m.page_free_list \cup freed
      /\ v.env_pgdir = [m.env_pgdir EXCEPT ![e] = NULL]
      /\ v.pde = [m.pde EXCEPT ![e] = [d \in PDE |-> NULL]]
      /\ v.pte = [m.pte EXCEPT ![e] = [va \in VA |-> Unmapped]]
      /\ v.panic = IF freed \cap m.page_free_list # {} THEN "page_free" ELSE m.panic
  BY <1>1, <1>6 DEF Memory
<1>8. v.panic = m.panic
  BY FreeVmBooked DEF v
<1>9. c2 \in [Pages -> Nat] /\ \A p \in Pages : c2[p] = Held(m, e, p)
  BY <1>3
<1> HIDE DEF c2
<1>10. CountedDown(v, m, c2)
  <2>1. \A p \in Pages : left(p) = m.pp_ref[p] - c2[p]
    BY <1>3, <1>9 DEF left
  <2>2. freed = {p \in Pages : m.pp_ref[p] > 0 /\ m.pp_ref[p] = c2[p]}
    BY <1>3, <1>9 DEF freed
  <2> QED
    BY <1>7, <2>1, <2>2 DEF CountedDown
<1>11. OneMore(m, c, c2, pg)
  BY <1>3, <1>4, <1>9 DEF OneMore
<1> DEFINE t == [x.env_pgdir EXCEPT ![e] = NULL]
<1>12. t \in [Envs -> Pages \cup {NULL}] /\ t = v.env_pgdir
  BY <1>1, <1>4, <1>7 DEF IsDropped
<1>13. n = [x EXCEPT !.env_pgdir = t]
  BY <1>5 DEF Memory
<1> HIDE DEF n, t
<1>14. /\ n \in Memory
       /\ n.pp_ref = x.pp_ref /\ n.page_free_list = x.page_free_list
       /\ n.env_pgdir = t /\ n.pde = x.pde /\ n.pte = x.pte /\ n.panic = x.panic
  BY <1>5, <1>12, <1>13 DEF Memory
<1>15. /\ r \in Memory /\ CountedDown(r, m, c2)
       /\ r.env_pgdir = n.env_pgdir /\ r.pde = n.pde /\ r.pte = n.pte /\ r.panic = n.panic
  <2>1. CountedDown(n, m, c)
    BY <1>4, <1>14 DEF IsDropped, CountedDown
  <2> QED
    BY <1>1, <1>4, <1>9, <1>11, <1>14, <2>1, DecrefDropped
<1> HIDE DEF r
<1>16. x.pde = v.pde /\ x.pte = v.pte
  <2>1. [d \in PDE |-> IF d \in PDE THEN NULL ELSE m.pde[e][d]] = [d \in PDE |-> NULL]
    OBVIOUS
  <2>2. [va \in VA |-> IF va \in VA THEN Unmapped ELSE m.pte[e][va]] = [va \in VA |-> Unmapped]
    OBVIOUS
  <2> QED
    BY <1>4, <1>7, <2>1, <2>2 DEF IsDropped
<1>17. /\ v.pp_ref = r.pp_ref /\ v.page_free_list = r.page_free_list
       /\ v.env_pgdir = r.env_pgdir /\ v.pde = r.pde /\ v.pte = r.pte /\ v.panic = r.panic
  BY <1>4, <1>8, <1>10, <1>12, <1>14, <1>15, <1>16 DEF IsDropped, CountedDown
<1>18. v = r
  BY <1>1, <1>15, <1>17, SameMemory
<1> QED
  BY <1>2, <1>18 DEF v

\* Dropping all references of an address space at once is what the loops of
\* env_free do page by page: on no way through them is a count dropped twice,
\* a page given back too early, or an entry passed over that holds a page.
THEOREM EnvFreeIsFreeVm == Spec /\ []CountsFit => []FreeVmIsEnvFree
<1>1. Init => EntriesFit(mem)
  BY FitsInit
<1>2. KernelInv /\ EntriesFit(mem) /\ [Next]_vars => EntriesFit(mem)'
  <2> SUFFICES ASSUME KernelInv, EntriesFit(mem), [Next]_vars
               PROVE  EntriesFit(mem)'
    OBVIOUS
  <2>1. EntriesFit(mem')
    BY FitsStep
  <2> QED
    BY <2>1 DEF EntriesFit
<1>3. PagesInv /\ EntriesFit(mem) => FreeVmIsEnvFree
  BY FreeVmByPage DEF PagesInv, FreeVmIsEnvFree, InUse
<1> QED
  BY <1>1, <1>2, <1>3, PagesInvariant, PTL DEF Spec
=============================================================================
