------------------------------ MODULE CowProofs ------------------------------
(***************************************************************************)
(* CowFork, proved for any number of environments, pages and forks: what   *)
(* the page fault handler writes is its own, and fork gives every          *)
(* environment a memory of its own (PrivateMemory).                        *)
(***************************************************************************)
EXTENDS CowFork, FiniteSetTheorems, NaturalsInduction, TLAPS

-----------------------------------------------------------------------------
(***************************************************************************)
(* The inductive invariant                                                 *)
(***************************************************************************)

Flags == {"W", "COW", "SHARE"}
Pcs == {"unused", "new", "run", "exofork", "dup", "own", "xstack", "start",
        "dumb", "dalloc", "dmap", "dcopy", "dunmap"}

\* Where an environment passes its pages on, to which child
Passes(e) == prog[e].pc \in {"dup", "own", "dalloc", "dmap", "dcopy", "dunmap"}
HasChild(e) == Passes(e) \/ prog[e].pc \in {"xstack", "start"}

CowTypes ==
  /\ pte \in [Envs -> [VA -> [page : Frames \cup {NULL}, perm : SUBSET Flags]]]
  /\ data \in [InUse(pte) -> Data]
  /\ prog \in [Envs -> [pc : Pcs, child : Envs \cup {NULL}, va : VA \cup {NULL}]]
  /\ fault \in [Envs -> [pc : {"none", "alloc", "copy", "map", "unmap"}, va : VA \cup {NULL}]]
  /\ forks \in 0 .. MaxForks
  /\ panic \in BOOLEAN

\* Shared places are mapped with PTE_SHARE and writable, others never so; what
\* is read-only is text.
PermsOK ==
  \A e \in Envs, va \in VA :
    IF va \in Shared
    THEN Page(e, va) # NULL => Perm(e, va) = {"W", "SHARE"}
    ELSE /\ Perm(e, va) \in {{}, {"W"}, {"COW"}}
         /\ Page(e, va) # NULL /\ Perm(e, va) = {} => va \in Text

\* Where an environment is in its program and in the handler agree with what it
\* has mapped.
ProgAt(e) ==
  /\ prog[e].pc = "unused" => prog[e] = Unused /\ \A va \in VA : Page(e, va) = NULL
  /\ prog[e].pc = "new" => prog[e] = New
  /\ prog[e].pc = "run" => prog[e] = Idle
  /\ fault[e].pc = "none" => fault[e] = NoFault
  /\ Alive(e) => Page(e, Stack) # NULL
  /\ HasChild(e) => prog[e].child \in Envs /\ prog[prog[e].child] = New
ProgOK == \A e \in Envs : ProgAt(e)

\* A child that is being made belongs to one parent.
OneParent ==
  \A e, f \in Envs : HasChild(e) /\ HasChild(f) /\ prog[e].child = prog[f].child => e = f

FaultAt(e) ==
  /\ Page(e, PFTEMP) # NULL <=> fault[e].pc \in {"copy", "map", "unmap"}
  /\ Page(e, UTEMP) # NULL <=> prog[e].pc \in {"dcopy", "dunmap"}
  /\ fault[e].pc # "none" =>
       /\ Alive(e)
       /\ fault[e].va \in Image \ Shared /\ Page(e, fault[e].va) # NULL
       /\ prog[e] = Idle \/ fault[e].va = Stack
  /\ fault[e].pc = "map" => data[Page(e, PFTEMP)] = data[Page(e, fault[e].va)]
FaultOK == \A e \in Envs : FaultAt(e)

\* e has mapped its page in its child f and is about to protect its own.
Giving(e, f, va) ==
  prog[e].pc = "own" /\ prog[e].va = va /\ prog[e].child = f /\ ~Writable(f, va)

\* e has the page of its child f at UTEMP, to fill it.
Filling(e, f, va, vb) ==
  va = UTEMP /\ prog[e].pc \in {"dcopy", "dunmap"} /\ f = prog[e].child /\ vb = prog[e].va

\* The handler of e is done but for the scratch mapping.
Moved(e, va, vb) == fault[e].pc = "unmap" /\ va = PFTEMP /\ vb = fault[e].va

\* Two mappings of one page: at the same shared place; at the same place, where
\* neither can write; or for a moment in fork, in dumbfork, in the handler.
Fine(e, f, va, vb) ==
  \/ e = f /\ va = vb
  \/ /\ e # f /\ va = vb /\ va \in Image
     /\ \/ va \in Shared
        \/ ~Writable(e, va) /\ ~Writable(f, va)
        \/ Giving(e, f, va) \/ Giving(f, e, va)
  \/ e = f /\ (Moved(e, va, vb) \/ Moved(e, vb, va))
  \/ e # f /\ (Filling(e, f, va, vb) \/ Filling(f, e, vb, va))
SharingOK ==
  \A e, f \in Envs, va, vb \in VA :
    Page(e, va) # NULL /\ Page(e, va) = Page(f, vb) => Fine(e, f, va, vb)

\* There is one page at a shared place, whoever has it.
SharedIsOne ==
  \A e, f \in Envs, va \in Shared :
    Page(e, va) # NULL /\ Page(f, va) # NULL => Page(e, va) = Page(f, va)

\* fork has gone on without a read-only page, for lack of a page table.
Lacks(c, va, kept) ==
  va \in Text /\ kept = Image /\ \A b \in Below(va) : Page(c, b) = NULL

\* The child c has at va what e has, if va is passed on at all.
Copied(e, c, va, kept) ==
  /\ Page(c, va) # NULL => va \in kept /\ Page(e, va) # NULL
  /\ va \in kept /\ Page(e, va) # NULL => Page(c, va) # NULL \/ Lacks(c, va, kept)
  /\ Page(c, va) # NULL /\ va # Stack => data[Page(c, va)] = data[Page(e, va)]

KeptPlaces(e) == IF prog[e].pc \in {"dup", "own", "xstack"} THEN Image ELSE Image \ Shared

\* The pages before the one e is at are in its child c, those after it are not.
UpTo(e, c) ==
  /\ prog[e].va \in KeptPlaces(e) /\ Page(e, prog[e].va) # NULL
  /\ \A x \in Image : /\ x < prog[e].va => Copied(e, c, x, KeptPlaces(e))
                      /\ x > prog[e].va => Page(c, x) = NULL

\* The one it is at: passed on or not yet.
Here(e, c, va) ==
  /\ prog[e].pc \in {"dup", "dalloc"} => Page(c, va) = NULL
  /\ prog[e].pc \in {"dmap", "dcopy"} => Page(c, va) # NULL /\ Writable(c, va)
  /\ prog[e].pc = "dcopy" => Page(e, UTEMP) = Page(c, va)
  /\ prog[e].pc = "own" => va \notin Shared
  /\ prog[e].pc \in {"own", "dunmap"} => Copied(e, c, va, KeptPlaces(e))

CopiedAll(e, c, kept) == \A x \in Image : Copied(e, c, x, kept)

\* How far the child of e is.
CopiesAt(e) ==
  /\ Passes(e) => UpTo(e, prog[e].child) /\ Here(e, prog[e].child, prog[e].va)
  /\ prog[e].pc = "xstack" => CopiedAll(e, prog[e].child, Image)
  /\ prog[e].pc = "start" => \/ CopiedAll(e, prog[e].child, Image)
                             \/ CopiedAll(e, prog[e].child, Image \ Shared)
CopiesOK == \A e \in Envs : CopiesAt(e)

CowInv ==
  /\ CowTypes
  /\ PermsOK
  /\ ProgOK
  /\ OneParent
  /\ FaultOK
  /\ SharingOK
  /\ SharedIsOne
  /\ CopiesOK

-----------------------------------------------------------------------------
(***************************************************************************)
(* Lemmas                                                                  *)
(***************************************************************************)

\* The places with a meaning of their own are different.
LEMMA Places ==
  /\ UTEMP \in VA /\ PFTEMP \in VA /\ UXStack \in VA
  /\ UTEMP # PFTEMP /\ UTEMP # UXStack /\ PFTEMP # UXStack
  /\ Image \subseteq VA /\ UTEMP \notin Image /\ PFTEMP \notin Image /\ UXStack \notin Image
  /\ Stack \in Image /\ Stack \notin Text /\ Stack \notin Shared
  /\ Shared \subseteq Image /\ Text \subseteq Image
<1>1. UTEMP # PFTEMP /\ UTEMP # UXStack /\ PFTEMP # UXStack
  <2>1. ASSUME NEW a, NEW b
        PROVE  Cardinality({a} \cup {b}) \in 1 .. 2
    <3>1. IsFiniteSet({a}) /\ Cardinality({a}) = 1
      BY FS_Singleton
    <3>2. Cardinality({a} \cup {b}) = IF b \in {a} THEN Cardinality({a}) ELSE Cardinality({a}) + 1
      BY <3>1, FS_AddElement
    <3> QED
      BY <3>1, <3>2
  <2>2. ASSUME NEW a, NEW b, {UTEMP, PFTEMP, UXStack} = {a} \cup {b}
        PROVE  FALSE
    <3>1. Cardinality({a} \cup {b}) = 3
      BY <2>2, PlacesAssumption
    <3>2. Cardinality({a} \cup {b}) \in 1 .. 2
      BY <2>1
    <3> QED
      BY ONLY <3>1, <3>2
  <2> QED
    BY <2>2
<1> QED
  BY <1>1, PlacesAssumption DEF Image

\* The least of some addresses.
LEMMA FirstPlace ==
  ASSUME NEW S \in SUBSET VA, S # {}
  PROVE  First(S) \in S /\ \A y \in S : First(S) <= y
<1>1. \E x \in S : \A y \in S : ~ (<<y, x>> \in OpToRel(<, Nat))
  BY NatLessThanWellFounded, WFMin, PlacesAssumption
<1>2. PICK x \in S : \A y \in S : ~ (<<y, x>> \in OpToRel(<, Nat))
  BY <1>1
<1>3. ASSUME NEW y \in S
      PROVE  x <= y
  <2>1. x \in Nat /\ y \in Nat
    BY PlacesAssumption
  <2>2. ~ (y < x)
    BY <1>2, <2>1 DEF OpToRel
  <2> QED
    BY <2>1, <2>2
<1> QED
  BY <1>3 DEF First

\* Every page in use is mapped somewhere.
LEMMA InUseIs ==
  ASSUME NEW table, NEW p
  PROVE  p \in InUse(table) <=>
           p # NULL /\ \E e \in Envs, va \in VA : table[e][va].page = p
<1>1. ASSUME NEW e \in Envs, NEW va \in VA
      PROVE  /\ <<e, va>> \in Envs \X VA
             /\ table[<<e, va>>[1]][<<e, va>>[2]].page = table[e][va].page
  OBVIOUS
<1>2. ASSUME NEW x \in Envs \X VA
      PROVE  x[1] \in Envs /\ x[2] \in VA
  OBVIOUS
<1> DEFINE T == {table[x[1]][x[2]].page : x \in Envs \X VA}
<1>3. p \in T <=> \E x \in Envs \X VA : table[x[1]][x[2]].page = p
  OBVIOUS
<1>4. (\E x \in Envs \X VA : table[x[1]][x[2]].page = p)
        <=> \E e \in Envs, va \in VA : table[e][va].page = p
  BY <1>1, <1>2
<1> QED
  BY <1>3, <1>4 DEF InUse

\* There is always a page that nobody has mapped.
LEMMA NewPageIsNew ==
  ASSUME CowTypes, NEW e \in Envs, NEW va \in VA
  PROVE  /\ NewPage(e, va) \in Frames /\ NewPage(e, va) \notin InUse(pte)
         /\ NewPage(e, va) # NULL
<1> DEFINE K == Cardinality(Envs \X VA)
           N == 0 .. K
           f == [x \in Envs \X VA |-> pte[x[1]][x[2]].page]
           T == {f[x] : x \in Envs \X VA}
           g == [n \in N |-> <<e, va, n>>]
<1>1. IsFiniteSet(Envs \X VA) /\ K \in Nat
  BY PlacesAssumption, ProgramsAssumption, FS_Product, FS_CardinalityType
<1>2. IsFiniteSet(T) /\ Cardinality(T) <= K
  <2>1. f \in [Envs \X VA -> T] /\ \A t \in T : \E x \in Envs \X VA : f[x] = t
    OBVIOUS
  <2> HIDE DEF f, T
  <2>2. f \in Surjection(Envs \X VA, T)
    BY <2>1 DEF Surjection
  <2> QED
    BY <1>1, <2>2, FS_Surjection
<1>3. InUse(pte) \subseteq T
  BY DEF InUse
<1>4. \E n \in N : <<e, va, n>> \notin InUse(pte)
  <2> SUFFICES ASSUME \A n \in N : <<e, va, n>> \in T
               PROVE  FALSE
    BY <1>3
  <2>1. g \in Injection(N, T)
    <3>1. g \in [N -> T]
      OBVIOUS
    <3>2. \A a, b \in N : g[a] = g[b] => a = b
      OBVIOUS
    <3> HIDE DEF g, N, T
    <3> QED
      BY <3>1, <3>2 DEF Injection, IsInjective
  <2>2. Cardinality(N) <= Cardinality(T) /\ Cardinality(T) \in Nat
    BY <1>2, <2>1, FS_Injection, FS_CardinalityType
  <2>3. Cardinality(N) = K + 1
    BY <1>1, FS_Interval
  <2> QED
    BY ONLY <1>1, <1>2, <2>2, <2>3
<1>5. NewPage(e, va) \in Frames /\ NewPage(e, va) \notin InUse(pte)
  BY <1>4 DEF NewPage, Frames
<1> QED
  BY <1>5, NULLAssumption

\* One mapping changes, to this page and these permissions.
OneChange(e, va, pg, perm) ==
  /\ pte'[e][va].page = pg /\ pte'[e][va].perm = perm
  /\ \A f \in Envs, x \in VA : f # e \/ x # va => pte'[f][x] = pte[f][x]

\* The pages that are mapped, but for one, keep their contents.
SameContents(pg) ==
  \A f \in Envs, x \in VA :
    LET q == pte'[f][x].page IN q \notin {NULL, pg} => data'[q] = data[q]

MapTypes ==
  /\ pte \in [Envs -> [VA -> [page : Frames \cup {NULL}, perm : SUBSET Flags]]]
  /\ data \in [InUse(pte) -> Data]

LEMMA OneMapping ==
  ASSUME CowTypes, NEW e \in Envs, NEW va \in VA, NEW pg \in Frames \cup {NULL},
         NEW perm \in SUBSET Flags, pte' = Mapped(e, va, pg, perm)
  PROVE  /\ pte' \in [Envs -> [VA -> [page : Frames \cup {NULL}, perm : SUBSET Flags]]]
         /\ OneChange(e, va, pg, perm)
         /\ \A p \in InUse(pte') : p = pg \/ p \in InUse(pte)
<1>1. pte' = [pte EXCEPT ![e][va] = [page |-> pg, perm |-> perm]]
  BY DEF Mapped
<1>2. pte' \in [Envs -> [VA -> [page : Frames \cup {NULL}, perm : SUBSET Flags]]]
  BY <1>1 DEF CowTypes
<1>3. OneChange(e, va, pg, perm)
  BY <1>1 DEF CowTypes, OneChange
<1>4. ASSUME NEW p \in InUse(pte'), p # pg
      PROVE  p \in InUse(pte)
  <2>1. p # NULL /\ \E f \in Envs, x \in VA : pte'[f][x].page = p
    BY InUseIs
  <2>2. PICK f \in Envs, x \in VA : pte'[f][x].page = p
    BY <2>1
  <2>3. pte[f][x].page = p
    BY <1>3, <1>4, <2>2 DEF OneChange
  <2> QED
    BY <2>1, <2>3, InUseIs
<1> QED
  BY <1>2, <1>3, <1>4

LEMMA RemapFrame ==
  ASSUME CowTypes, NEW e \in Envs, NEW va \in VA, NEW pg \in InUse(pte) \cup {NULL},
         NEW perm \in SUBSET Flags, Remap(Mapped(e, va, pg, perm))
  PROVE  MapTypes' /\ OneChange(e, va, pg, perm) /\ SameContents(NULL)
<1>1. pg \in Frames \cup {NULL}
  BY InUseIs DEF CowTypes
<1>2. /\ pte' = Mapped(e, va, pg, perm)
      /\ data' = [p \in InUse(pte') |-> data[p]]
  BY DEF Remap, Kept
<1>3. /\ pte' \in [Envs -> [VA -> [page : Frames \cup {NULL}, perm : SUBSET Flags]]]
      /\ OneChange(e, va, pg, perm)
      /\ \A p \in InUse(pte') : p = pg \/ p \in InUse(pte)
  BY <1>1, <1>2, OneMapping
<1>4. \A p \in InUse(pte') : p \in InUse(pte)
  BY <1>3, InUseIs
<1>5. data' \in [InUse(pte') -> Data]
  BY <1>2, <1>4 DEF CowTypes
<1>6. SameContents(NULL)
  BY <1>2, InUseIs DEF SameContents
<1> QED
  BY <1>3, <1>5, <1>6 DEF MapTypes

LEMMA AllocFrame ==
  ASSUME CowTypes, NEW e \in Envs, NEW va \in VA, NEW for \in VA, Alloc(e, va, for)
  PROVE  \E pg \in Frames :
           /\ pg # NULL /\ \A f \in Envs, x \in VA : pte[f][x].page # pg
           /\ MapTypes' /\ OneChange(e, va, pg, {"W"}) /\ SameContents(pg)
<1> DEFINE pg == NewPage(e, for)
<1>1. pg \in Frames /\ pg \notin InUse(pte) /\ pg # NULL
  BY NewPageIsNew
<1>2. /\ pte' = Mapped(e, va, pg, {"W"})
      /\ data' = Kept(pte', [p \in InUse(pte) \cup {pg} |-> IF p = pg THEN 0 ELSE data[p]])
  BY DEF Alloc
<1> HIDE DEF pg
<1>3. /\ pte' \in [Envs -> [VA -> [page : Frames \cup {NULL}, perm : SUBSET Flags]]]
      /\ OneChange(e, va, pg, {"W"})
      /\ \A p \in InUse(pte') : p = pg \/ p \in InUse(pte)
  BY <1>1, <1>2, OneMapping DEF Flags
<1>4. data' = [p \in InUse(pte') |-> IF p = pg THEN 0 ELSE data[p]]
  BY <1>2, <1>3 DEF Kept
<1>5. data' \in [InUse(pte') -> Data]
  BY <1>3, <1>4, ProgramsAssumption DEF CowTypes
<1>6. SameContents(pg)
  BY <1>4, InUseIs DEF SameContents
<1>7. \A f \in Envs, x \in VA : pte[f][x].page # pg
  BY <1>1, InUseIs
<1> QED
  BY <1>1, <1>3, <1>5, <1>6, <1>7 DEF MapTypes

\* A child that is being made has no child, is in no handler, and does not run.
LEMMA ChildIsNew ==
  ASSUME CowInv, NEW e \in Envs, HasChild(e)
  PROVE  /\ prog[e].child \in Envs /\ prog[e].child # e /\ prog[prog[e].child].pc = "new"
         /\ fault[prog[e].child] = NoFault
         /\ Page(prog[e].child, UTEMP) = NULL /\ Page(prog[e].child, PFTEMP) = NULL
<1>1. prog[e].child \in Envs /\ prog[prog[e].child].pc = "new"
  BY DEF CowInv, ProgOK, ProgAt, New, Prog
<1>2. ProgAt(prog[e].child) /\ FaultAt(prog[e].child)
  BY <1>1 DEF CowInv, ProgOK, FaultOK
<1>3. fault[prog[e].child].pc \in {"none", "alloc", "copy", "map", "unmap"}
  BY <1>1 DEF CowInv, CowTypes
<1> QED
  BY <1>1, <1>2, <1>3 DEF ProgAt, FaultAt, HasChild, Passes, Alive, NoFault, Fault

-----------------------------------------------------------------------------
(***************************************************************************)
(* What a step leaves alone                                                *)
(***************************************************************************)

\* An environment whose place in its program and its handler does not change.
LEMMA ProgStays ==
  ASSUME CowInv, NEW f \in Envs, prog'[f] = prog[f],
         fault'[f] = fault[f] \/ fault'[f].pc # "none" \/ fault'[f] = NoFault,
         HasChild(f) => prog'[prog[f].child] = prog[prog[f].child],
         Alive(f) => Page(f, Stack)' # NULL,
         prog[f].pc = "unused" => \A x \in VA : Page(f, x)' = Page(f, x)
  PROVE  ProgAt(f)'
<1>1. ProgAt(f)
  BY DEF CowInv, ProgOK
<1>2. (Alive(f)' <=> Alive(f)) /\ (HasChild(f)' <=> HasChild(f))
  BY DEF Alive, HasChild, Passes
<1> QED
  BY <1>1, <1>2 DEF ProgAt

\* Environments that keep their children, and get none.
LEMMA ParentsStay ==
  ASSUME CowInv,
         \A f \in Envs : HasChild(f)' => HasChild(f) /\ prog'[f].child = prog[f].child
  PROVE  OneParent'
BY DEF CowInv, OneParent

LEMMA FaultStays ==
  ASSUME CowInv, NEW f \in Envs, fault'[f] = fault[f],
         prog'[f].pc \in {"dcopy", "dunmap"} <=> prog[f].pc \in {"dcopy", "dunmap"},
         fault[f].pc # "none" => prog'[f] = prog[f],
         \A x \in VA \ {UXStack} : Page(f, x)' = Page(f, x),
         fault[f].pc = "map" =>
           /\ data'[Page(f, PFTEMP)] = data[Page(f, PFTEMP)]
           /\ data'[Page(f, fault[f].va)] = data[Page(f, fault[f].va)]
  PROVE  FaultAt(f)'
<1>1. FaultAt(f)
  BY DEF CowInv, FaultOK
<1>2. Page(f, PFTEMP)' = Page(f, PFTEMP) /\ Page(f, UTEMP)' = Page(f, UTEMP)
  BY Places
<1>3. fault[f].pc # "none" =>
        Page(f, fault[f].va)' = Page(f, fault[f].va) /\ (Alive(f) => Alive(f)')
  BY <1>1, Places DEF FaultAt, Alive
<1> QED
  BY <1>1, <1>2, <1>3 DEF FaultAt

LEMMA CopiesStay ==
  ASSUME CowInv, NEW f \in Envs, prog'[f] = prog[f],
         HasChild(f) =>
           /\ \A x \in Image :
                /\ Page(f, x)' = NULL <=> Page(f, x) = NULL
                /\ pte'[prog[f].child][x] = pte[prog[f].child][x]
                /\ /\ x # Stack /\ Page(f, x) # NULL /\ Page(prog[f].child, x) # NULL
                   /\ data[Page(prog[f].child, x)] = data[Page(f, x)]
                   => data'[Page(prog[f].child, x)'] = data'[Page(f, x)']
           /\ Page(f, UTEMP)' = Page(f, UTEMP)
  PROVE  CopiesAt(f)'
<1>1. CopiesAt(f)
  BY DEF CowInv, CopiesOK
<1>2. /\ Passes(f)' <=> Passes(f)
      /\ KeptPlaces(f)' = KeptPlaces(f) /\ KeptPlaces(f) \subseteq Image
  BY DEF Passes, KeptPlaces
<1> DEFINE c == prog[f].child
<1>3. prog'[f].child = c
  OBVIOUS
<1> HIDE DEF c
<1>4. ASSUME HasChild(f)
      PROVE  \A x \in Image : /\ Page(c, x)' = Page(c, x) /\ (Writable(c, x)' <=> Writable(c, x))
                              /\ \A kept : Copied(f, c, x, kept) => Copied(f, c, x, kept)'
  <2>1. \A x \in Image : Page(c, x)' = Page(c, x) /\ (Writable(c, x)' <=> Writable(c, x))
    BY <1>4 DEF Page, Writable, Perm, c
  <2>2. \A x \in Image : \A kept : Lacks(c, x, kept) => Lacks(c, x, kept)'
    BY <2>1 DEF Lacks, Below
  <2>3. ASSUME NEW x \in Image, NEW kept, Copied(f, c, x, kept)
        PROVE  Copied(f, c, x, kept)'
    <3>1. x \in kept /\ Page(f, x)' # NULL => Page(c, x)' # NULL \/ Lacks(c, x, kept)'
      BY <1>4, <2>1, <2>2, <2>3 DEF Copied
    <3>2. Page(c, x)' # NULL => x \in kept /\ Page(f, x)' # NULL
      BY <1>4, <2>1, <2>3 DEF Copied
    <3>3. Page(c, x)' # NULL /\ x # Stack => data'[Page(c, x)'] = data'[Page(f, x)']
      BY <1>4, <2>1, <2>3, <3>2 DEF Copied, c
    <3> QED
      BY <3>1, <3>2, <3>3 DEF Copied
  <2> QED
    BY <2>1, <2>3
<1>5. Passes(f) => UpTo(f, c)' /\ Here(f, c, prog[f].va)'
  <2> SUFFICES ASSUME Passes(f)
               PROVE  UpTo(f, c)' /\ Here(f, c, prog[f].va)'
    OBVIOUS
  <2>1. UpTo(f, c) /\ Here(f, c, prog[f].va) /\ HasChild(f)
    BY <1>1 DEF CopiesAt, HasChild, c
  <2>2. prog[f].va \in Image
    BY <1>2, <2>1 DEF UpTo
  <2>3. UpTo(f, c)'
    BY <1>2, <1>4, <2>1, <2>2 DEF UpTo
  <2>4. Here(f, c, prog[f].va)'
    BY <1>2, <1>4, <2>1, <2>2 DEF Here
  <2> QED
    BY <2>3, <2>4
<1>6. \A kept : prog[f].pc \in {"xstack", "start"} /\ CopiedAll(f, c, kept) => CopiedAll(f, c, kept)'
  BY <1>4 DEF CopiedAll, HasChild
<1> QED
  BY <1>1, <1>2, <1>3, <1>5, <1>6 DEF CopiesAt, c

\* The exceptions to what SharingOK says outlast a change of the mapping of va
\* in g, but for those that it ends.
Outlast(g, va) ==
  \A k \in Envs :
    /\ prog[k].pc = "own" => prog'[k] = prog[k] \/ (k = g /\ prog[k].va = va)
    /\ prog[k].pc \in {"dcopy", "dunmap"} =>
         \/ prog'[k].pc \in {"dcopy", "dunmap"} /\ prog'[k].child = prog[k].child
            /\ prog'[k].va = prog[k].va
         \/ k = g /\ va = UTEMP
    /\ fault[k].pc = "unmap" => fault'[k] = fault[k] \/ (k = g /\ va = PFTEMP)

LEMMA SharingStays ==
  ASSUME CowInv, NEW g \in Envs, NEW va \in VA, NEW pg, NEW perm,
         OneChange(g, va, pg, perm), Outlast(g, va),
         pg # NULL => \A f \in Envs, x \in VA : Page(f, x)' = pg => Fine(g, f, va, x)'
  PROVE  SharingOK'
<1> SUFFICES ASSUME NEW f \in Envs, NEW h \in Envs, NEW x \in VA, NEW y \in VA,
                    Page(f, x)' # NULL, Page(f, x)' = Page(h, y)'
             PROVE  Fine(f, h, x, y)'
  BY DEF SharingOK
<1>1. CASE f = g /\ x = va
  BY <1>1 DEF OneChange, Page
<1>2. CASE h = g /\ y = va
  <2>1. Fine(h, f, y, x)'
    BY <1>2 DEF OneChange, Page
  <2> QED
    BY <2>1 DEF Fine
<1>3. CASE (f # g \/ x # va) /\ (h # g \/ y # va)
  <2>1. pte'[f][x] = pte[f][x] /\ pte'[h][y] = pte[h][y]
    BY <1>3 DEF OneChange
  <2>2. Fine(f, h, x, y)
    BY <2>1 DEF CowInv, SharingOK, Page
  <2>3. (Writable(f, x)' <=> Writable(f, x)) /\ (Writable(h, y)' <=> Writable(h, y))
    BY <2>1 DEF Writable, Perm
  <2>4. x = y => (Giving(f, h, x) => Giving(f, h, x)') /\ (Giving(h, f, x) => Giving(h, f, x)')
    BY <1>3, <2>3 DEF Giving, Outlast
  <2>5. f = h => (Moved(f, x, y) => Moved(f, x, y)') /\ (Moved(f, y, x) => Moved(f, y, x)')
    BY <1>3 DEF Moved, Outlast
  <2>6. (Filling(f, h, x, y) => Filling(f, h, x, y)') /\ (Filling(h, f, y, x) => Filling(h, f, y, x)')
    BY <1>3 DEF Filling, Outlast
  <2> QED
    BY <2>2, <2>3, <2>4, <2>5, <2>6 DEF Fine
<1> QED
  BY <1>1, <1>2, <1>3

LEMMA PermsStay ==
  ASSUME CowInv, NEW g \in Envs, NEW va \in VA, NEW pg, NEW perm,
         OneChange(g, va, pg, perm),
         IF va \in Shared THEN pg # NULL => perm = {"W", "SHARE"} ELSE perm \in {{}, {"W"}, {"COW"}},
         va \notin Shared /\ pg # NULL /\ perm = {} => va \in Text,
         va \in Shared /\ pg # NULL => \A f \in Envs : Page(f, va) # NULL => Page(f, va) = pg
  PROVE  PermsOK' /\ SharedIsOne'
<1>1. PermsOK'
  <2> SUFFICES ASSUME NEW e \in Envs, NEW x \in VA
               PROVE  IF x \in Shared THEN Page(e, x)' # NULL => Perm(e, x)' = {"W", "SHARE"}
                                      ELSE /\ Perm(e, x)' \in {{}, {"W"}, {"COW"}}
                                           /\ Page(e, x)' # NULL /\ Perm(e, x)' = {} => x \in Text
    BY DEF PermsOK
  <2>1. CASE e = g /\ x = va
    BY <2>1 DEF OneChange, Page, Perm
  <2>2. CASE e # g \/ x # va
    <3>1. pte'[e][x] = pte[e][x]
      BY <2>2 DEF OneChange
    <3> QED
      BY <3>1 DEF CowInv, PermsOK, Page, Perm
  <2> QED
    BY <2>1, <2>2
<1>2. SharedIsOne'
  <2> SUFFICES ASSUME NEW e \in Envs, NEW f \in Envs, NEW x \in Shared,
                      Page(e, x)' # NULL, Page(f, x)' # NULL
               PROVE  Page(e, x)' = Page(f, x)'
    BY DEF SharedIsOne
  <2>1. x \in VA
    BY Places
  <2>2. \A h \in Envs : h # g \/ x # va => Page(h, x)' = Page(h, x)
    BY <2>1 DEF OneChange, Page
  <2>3. x = va => Page(g, x)' = pg
    BY DEF OneChange, Page
  <2> QED
    BY <2>2, <2>3 DEF CowInv, SharedIsOne
<1> QED
  BY <1>1, <1>2

\* q is nobody's page before the step.
Fresh(q) == \A f \in Envs, x \in VA : Page(f, x) = q => q = NULL

LEMMA CopiesOfOthers ==
  ASSUME CowInv, NEW g \in Envs, NEW va \in VA, NEW pg, NEW perm, NEW q,
         OneChange(g, va, pg, perm), SameContents(q), Fresh(q),
         NEW f \in Envs, prog'[f] = prog[f],
         \/ ~HasChild(f)
         \/ va \notin Image \cup {UTEMP}
         \/ g # f /\ g # prog[f].child
         \/ g = f /\ va = Stack /\ pg # NULL
  PROVE  CopiesAt(f)'
<1> SUFFICES ASSUME HasChild(f)
             PROVE  /\ \A x \in Image :
                         /\ Page(f, x)' = NULL <=> Page(f, x) = NULL
                         /\ pte'[prog[f].child][x] = pte[prog[f].child][x]
                         /\ /\ x # Stack /\ Page(f, x) # NULL /\ Page(prog[f].child, x) # NULL
                            /\ data[Page(prog[f].child, x)] = data[Page(f, x)]
                            => data'[Page(prog[f].child, x)'] = data'[Page(f, x)']
                    /\ Page(f, UTEMP)' = Page(f, UTEMP)
  BY CopiesStay
<1> DEFINE c == prog[f].child
<1>1. c \in Envs /\ c # f /\ c' = c
  BY ChildIsNew
<1> HIDE DEF c
<1>2. Page(f, Stack) # NULL
  BY DEF CowInv, ProgOK, ProgAt, HasChild, Passes, Alive
<1>3. \A x \in Image : /\ pte'[c][x] = pte[c][x]
                       /\ x # Stack => pte'[f][x] = pte[f][x]
                       /\ Page(f, x)' = NULL <=> Page(f, x) = NULL
  <2> SUFFICES ASSUME NEW x \in Image
               PROVE  /\ pte'[c][x] = pte[c][x]
                      /\ x # Stack => pte'[f][x] = pte[f][x]
                      /\ Page(f, x)' = NULL <=> Page(f, x) = NULL
    OBVIOUS
  <2>1. x \in VA
    BY Places
  <2>2. pte'[c][x] = pte[c][x]
    BY <1>1, <2>1 DEF OneChange, c
  <2>3. x # Stack => pte'[f][x] = pte[f][x]
    BY <1>1, <2>1 DEF OneChange, c
  <2>4. Page(f, x)' = NULL <=> Page(f, x) = NULL
    <3>1. CASE g = f /\ va = Stack /\ pg # NULL /\ x = Stack
      BY <1>2, <3>1 DEF OneChange, Page
    <3>2. CASE ~(g = f /\ va = Stack /\ pg # NULL /\ x = Stack)
      <4>1. pte'[f][x] = pte[f][x]
        BY <2>1, <3>2 DEF OneChange
      <4> QED
        BY <4>1 DEF Page
    <3> QED
      BY <3>1, <3>2
  <2> QED
    BY <2>2, <2>3, <2>4
<1>4. Page(f, UTEMP)' = Page(f, UTEMP)
  <2>1. f # g \/ UTEMP # va
    BY Places
  <2> QED
    BY <2>1, Places DEF OneChange, Page
<1>5. ASSUME NEW h \in Envs, NEW x \in VA, Page(h, x) # NULL, pte'[h][x] = pte[h][x]
      PROVE  data'[Page(h, x)] = data[Page(h, x)]
  BY <1>5 DEF SameContents, Fresh, Page
<1>6. \A x \in Image : x # Stack /\ Page(f, x) # NULL /\ Page(c, x) # NULL
                         /\ data[Page(c, x)] = data[Page(f, x)]
        => data'[Page(c, x)'] = data'[Page(f, x)']
  <2> SUFFICES ASSUME NEW x \in Image, x # Stack, Page(f, x) # NULL, Page(c, x) # NULL,
                      data[Page(c, x)] = data[Page(f, x)]
               PROVE  data'[Page(c, x)'] = data'[Page(f, x)']
    OBVIOUS
  <2>1. data'[Page(c, x)] = data[Page(c, x)] /\ data'[Page(f, x)] = data[Page(f, x)]
    BY <1>1, <1>3, <1>5, Places
  <2>2. Page(c, x)' = Page(c, x) /\ Page(f, x)' = Page(f, x)
    BY <1>1, <1>3 DEF Page
  <2> QED
    BY <2>1, <2>2
<1> QED
  BY <1>3, <1>4, <1>6 DEF c

LEMMA FaultOfOthers ==
  ASSUME CowInv, NEW g \in Envs, NEW va \in VA, NEW pg, NEW perm, NEW q,
         OneChange(g, va, pg, perm), SameContents(q), Fresh(q),
         NEW f \in Envs, fault'[f] = fault[f],
         prog'[f].pc \in {"dcopy", "dunmap"} <=> prog[f].pc \in {"dcopy", "dunmap"},
         fault[f].pc # "none" => prog'[f] = prog[f],
         f # g \/ va = UXStack \/ (pg = Page(g, va) /\ fault[g].pc = "none")
  PROVE  FaultAt(f)'
<1>1. \A x \in VA \ {UXStack} : Page(f, x)' = Page(f, x)
  BY DEF OneChange, Page
<1>2. fault[f].pc = "map" => /\ Page(f, PFTEMP) # NULL
                             /\ Page(f, fault[f].va) # NULL /\ fault[f].va \in VA
  BY Places DEF CowInv, FaultOK, FaultAt
<1>3. ASSUME NEW x \in VA \ {UXStack}, Page(f, x) # NULL
      PROVE  data'[Page(f, x)] = data[Page(f, x)]
  BY <1>1, <1>3 DEF SameContents, Fresh, Page
<1>4. fault[f].pc = "map" =>
        /\ data'[Page(f, PFTEMP)] = data[Page(f, PFTEMP)]
        /\ data'[Page(f, fault[f].va)] = data[Page(f, fault[f].va)]
  <2>1. fault[f].pc = "map" => fault[f].va \in Image
    BY DEF CowInv, FaultOK, FaultAt
  <2> QED
    BY <1>2, <1>3, <2>1, Places
<1> QED
  BY <1>1, <1>4, FaultStays

LEMMA ProgOfOthers ==
  ASSUME CowInv, NEW g \in Envs, NEW va \in VA, NEW pg, NEW perm,
         OneChange(g, va, pg, perm),
         NEW f \in Envs, prog'[f] = prog[f],
         fault'[f] = fault[f] \/ fault'[f].pc # "none" \/ fault'[f] = NoFault,
         HasChild(f) => prog'[prog[f].child] = prog[prog[f].child],
         f = g => prog[f].pc # "unused" /\ (va = Stack => pg # NULL)
  PROVE  ProgAt(f)'
<1>1. Alive(f) => Page(f, Stack)' # NULL
  <2>1. Alive(f) => Page(f, Stack) # NULL
    BY DEF CowInv, ProgOK, ProgAt
  <2> QED
    BY <2>1, Places DEF OneChange, Page
<1>2. prog[f].pc = "unused" => \A x \in VA : Page(f, x)' = Page(f, x)
  BY DEF OneChange, Page
<1> QED
  BY <1>1, <1>2, ProgStays

\* No mapping changes.
LEMMA SharingSame ==
  ASSUME CowInv, pte' = pte, Outlast(NULL, NULL)
  PROVE  SharingOK' /\ SharedIsOne' /\ PermsOK'
<1>1. SharingOK'
  <2> SUFFICES ASSUME NEW f \in Envs, NEW h \in Envs, NEW x \in VA, NEW y \in VA,
                      Page(f, x) # NULL, Page(f, x) = Page(h, y)
               PROVE  Fine(f, h, x, y)'
    BY DEF SharingOK, Page
  <2>1. Fine(f, h, x, y) /\ f # NULL /\ h # NULL
    BY NULLAssumption DEF CowInv, SharingOK
  <2>2. (Writable(f, x)' <=> Writable(f, x)) /\ (Writable(h, y)' <=> Writable(h, y))
    BY DEF Writable, Perm
  <2>3. x = y => (Giving(f, h, x) => Giving(f, h, x)') /\ (Giving(h, f, x) => Giving(h, f, x)')
    BY <2>1, <2>2 DEF Giving, Outlast
  <2>4. f = h => (Moved(f, x, y) => Moved(f, x, y)') /\ (Moved(f, y, x) => Moved(f, y, x)')
    BY <2>1 DEF Moved, Outlast
  <2>5. (Filling(f, h, x, y) => Filling(f, h, x, y)') /\ (Filling(h, f, y, x) => Filling(h, f, y, x)')
    BY <2>1 DEF Filling, Outlast
  <2> QED
    BY <2>1, <2>2, <2>3, <2>4, <2>5 DEF Fine
<1>2. SharedIsOne' /\ PermsOK'
  BY DEF CowInv, SharedIsOne, PermsOK, Page, Perm
<1> QED
  BY <1>1, <1>2

-----------------------------------------------------------------------------
(***************************************************************************)
(* Every step keeps the invariant                                          *)
(***************************************************************************)

\* A program decides to use dumbfork.
LEMMA DumbForkKeeps ==
  ASSUME CowInv, NEW e \in Envs, DumbFork(e)
  PROVE  CowInv'
<1> DEFINE n == Prog("dumb", NULL, NULL)
<1>1. /\ prog[e].pc = "run" /\ fault[e] = NoFault
      /\ prog' = [prog EXCEPT ![e] = n] /\ UNCHANGED <<pte, data, fault, forks, panic>>
      /\ n.pc = "dumb"
  BY DEF DumbFork, At, Goto, Prog
<1>2. prog'[e] = n /\ \A f \in Envs \ {e} : prog'[f] = prog[f]
  BY <1>1 DEF CowInv, CowTypes
<1>3. CowTypes'
  BY <1>1 DEF CowInv, CowTypes, Prog, Pcs
<1> HIDE DEF n
<1>4. Outlast(NULL, NULL)
  BY <1>1, <1>2 DEF Outlast
<1>5. SharingOK' /\ SharedIsOne' /\ PermsOK'
  BY <1>1, <1>4, SharingSame
<1>6. OneParent'
  BY <1>1, <1>2, ParentsStay DEF HasChild, Passes
<1>7. ASSUME NEW f \in Envs \ {e}
      PROVE  ProgAt(f)' /\ FaultAt(f)' /\ CopiesAt(f)'
  <2>1. HasChild(f) => prog[f].child # e
    BY <1>1, ChildIsNew
  <2>2. ProgAt(f)
    BY DEF CowInv, ProgOK
  <2>3. HasChild(f) => prog[f].child \in Envs
    BY ChildIsNew
  <2>4. ProgAt(f)'
    BY <1>1, <1>2, <2>1, <2>2, <2>3, ProgStays DEF ProgAt, Page
  <2>5. FaultAt(f)'
    BY <1>1, <1>2, FaultStays DEF Page
  <2>6. CopiesAt(f)'
    BY <1>1, <1>2, CopiesStay DEF Page
  <2> QED
    BY <2>4, <2>5, <2>6
<1>8. ProgAt(e)'
  BY <1>1, <1>2 DEF CowInv, ProgOK, ProgAt, Alive, HasChild, Passes, Page
<1>9. FaultAt(e)'
  BY <1>1, <1>2 DEF CowInv, FaultOK, FaultAt, Page, NoFault, Fault
<1>10. CopiesAt(e)'
  BY <1>1, <1>2 DEF CopiesAt, Passes
<1> QED
  BY <1>3, <1>5, <1>6, <1>7, <1>8, <1>9, <1>10 DEF CowInv, ProgOK, FaultOK, CopiesOK

\* A page or a directory cannot be had: the machine stops.
LEMMA NoMemoryKeeps ==
  ASSUME CowInv, UNCHANGED <<pte, data, prog, fault, forks>>, panic' \in BOOLEAN
  PROVE  CowInv'
<1>1. CowTypes'
  BY DEF CowInv, CowTypes
<1>2. Outlast(NULL, NULL)
  BY DEF Outlast
<1>3. SharingOK' /\ SharedIsOne' /\ PermsOK'
  BY <1>2, SharingSame
<1>4. OneParent'
  BY ParentsStay DEF HasChild, Passes
<1>5. ASSUME NEW f \in Envs
      PROVE  ProgAt(f)' /\ FaultAt(f)' /\ CopiesAt(f)'
  <2>1. ProgAt(f)
    BY DEF CowInv, ProgOK
  <2>2. ProgAt(f)'
    BY <2>1, ProgStays DEF ProgAt, Page
  <2>3. FaultAt(f)'
    BY FaultStays DEF Page
  <2>4. CopiesAt(f)'
    BY CopiesStay DEF Page
  <2> QED
    BY <2>2, <2>3, <2>4
<1> QED
  BY <1>1, <1>3, <1>4, <1>5 DEF CowInv, ProgOK, FaultOK, CopiesOK

\* A new environment, without memory; its creator begins to pass pages on.
LEMMA ExoforkKeeps ==
  ASSUME CowInv, NEW e \in Envs, NEW c \in Envs, Exofork(e, c)
  PROVE  CowInv'
<1> DEFINE S == IF prog[e].pc = "dumb" THEN From(e, UTEMP) \ Shared ELSE From(e, UTEMP)
           n == Prog(IF prog[e].pc = "dumb" THEN "dalloc" ELSE "dup", c, First(S))
<1>1. /\ prog[e].pc \in {"exofork", "dumb"} /\ fault[e] = NoFault
      /\ prog[c] = Unused /\ forks < MaxForks /\ forks' = forks + 1
      /\ prog' = [prog EXCEPT ![c] = New, ![e] = n]
      /\ UNCHANGED <<pte, data, fault, panic>>
  BY DEF Exofork, At
<1>2. c # e /\ Prog("dumb", NULL, NULL).pc = "dumb" /\ prog[c].pc = "unused"
  BY <1>1 DEF Unused, Prog
<1>3. S \subseteq Image /\ Stack \in S /\ \A x \in S : Page(e, x) # NULL
  <2>1. Page(e, UTEMP) = NULL /\ Page(e, PFTEMP) = NULL
    BY <1>1 DEF CowInv, FaultOK, FaultAt, NoFault, Fault
  <2>2. Page(e, Stack) # NULL
    BY <1>1 DEF CowInv, ProgOK, ProgAt, Alive
  <2>3. From(e, UTEMP) \subseteq Image /\ Stack \in From(e, UTEMP)
    BY <2>1, <2>2, Places, PlacesAssumption DEF From, Image
  <2>4. \A x \in From(e, UTEMP) : Page(e, x) # NULL
    BY DEF From
  <2> QED
    BY <2>3, <2>4, Places
<1>4. First(S) \in S /\ \A x \in S : First(S) <= x
  BY <1>3, Places, FirstPlace
<1>5. n.pc = (IF prog[e].pc = "dumb" THEN "dalloc" ELSE "dup") /\ n.child = c /\ n.va = First(S)
  BY DEF Prog
<1>6. \A x \in Image : x < First(S) =>
        Page(e, x) = NULL \/ (prog[e].pc = "dumb" /\ x \in Shared)
  <2> SUFFICES ASSUME NEW x \in Image, x < First(S), Page(e, x) # NULL
               PROVE  prog[e].pc = "dumb" /\ x \in Shared
    OBVIOUS
  <2>1. x \in From(e, UTEMP)
    BY Places, PlacesAssumption DEF From
  <2>2. x \notin S
    <3> HIDE DEF S
    <3>1. First(S) \in Nat /\ x \in Nat
      BY <1>3, <1>4, Places, PlacesAssumption
    <3> QED
      BY <1>4, <3>1
  <2> QED
    BY <2>1, <2>2
<1>7. n \in [pc : Pcs, child : Envs \cup {NULL}, va : VA \cup {NULL}]
  BY <1>3, <1>4, Places DEF Prog, Pcs
<1>8. S \subseteq KeptPlaces(e)'
  BY <1>1, <1>2, <1>3, <1>5 DEF KeptPlaces, CowInv, CowTypes
<1> HIDE DEF n, S
<1>9. prog'[e] = n /\ prog'[c] = New /\ \A f \in Envs \ {e, c} : prog'[f] = prog[f]
  BY <1>1, <1>2 DEF CowInv, CowTypes
<1>10. New.pc = "new" /\ New \in [pc : Pcs, child : Envs \cup {NULL}, va : VA \cup {NULL}]
  BY DEF New, Prog, Pcs
<1>11. CowTypes'
  <2>1. prog' \in [Envs -> [pc : Pcs, child : Envs \cup {NULL}, va : VA \cup {NULL}]]
    BY <1>1, <1>7, <1>10 DEF CowInv, CowTypes
  <2>2. forks' \in 0 .. MaxForks
    BY <1>1, ProgramsAssumption DEF CowInv, CowTypes
  <2> QED
    BY <1>1, <2>1, <2>2 DEF CowInv, CowTypes
<1>12. Outlast(NULL, NULL)
  BY <1>1, <1>2, <1>9 DEF Outlast
<1>13. SharingOK' /\ SharedIsOne' /\ PermsOK'
  BY <1>1, <1>12, SharingSame
<1>14. \A va \in VA : Page(c, va) = NULL
  BY <1>2 DEF CowInv, ProgOK, ProgAt
<1>15. \A f \in Envs : HasChild(f) => prog[f].child \notin {c, e}
  BY <1>1, <1>2, ChildIsNew
<1>16. \A f \in Envs : HasChild(f)' => f = e \/ (f \notin {c, e} /\ HasChild(f))
  BY <1>9, <1>10 DEF HasChild, Passes
<1>17. OneParent'
  BY <1>5, <1>9, <1>15, <1>16 DEF CowInv, OneParent
<1>18. ASSUME NEW f \in Envs \ {c, e}
      PROVE  ProgAt(f)' /\ FaultAt(f)' /\ CopiesAt(f)'
  <2>1. ProgAt(f)
    BY DEF CowInv, ProgOK
  <2>2. HasChild(f) => prog[f].child \in Envs
    BY ChildIsNew
  <2>3. ProgAt(f)'
    BY <1>1, <1>9, <1>15, <2>1, <2>2, ProgStays DEF ProgAt, Page
  <2>4. FaultAt(f)'
    BY <1>1, <1>9, FaultStays DEF Page
  <2>5. CopiesAt(f)'
    BY <1>1, <1>9, CopiesStay DEF Page
  <2> QED
    BY <2>3, <2>4, <2>5
<1>19. ProgAt(c)' /\ FaultAt(c)' /\ CopiesAt(c)'
  <2>1. ProgAt(c) /\ FaultAt(c)
    BY DEF CowInv, ProgOK, FaultOK
  <2>2. ProgAt(c)'
    BY <1>1, <1>9, <1>10, <2>1 DEF ProgAt, HasChild, Passes, Alive
  <2>3. FaultAt(c)'
    BY <1>1, <1>2, <1>9, <1>10, <2>1 DEF FaultAt, Alive, Page
  <2>4. CopiesAt(c)'
    BY <1>9, <1>10 DEF CopiesAt, Passes
  <2> QED
    BY <2>2, <2>3, <2>4
<1>20. ProgAt(e)' /\ FaultAt(e)'
  <2>1. ProgAt(e) /\ FaultAt(e)
    BY DEF CowInv, ProgOK, FaultOK
  <2>2. n.pc \in {"dalloc", "dup"}
    BY <1>5
  <2>3. ProgAt(e)'
    BY <1>1, <1>5, <1>9, <2>1, <2>2 DEF ProgAt, HasChild, Passes, Alive, Page
  <2>4. FaultAt(e)'
    BY <1>1, <1>9, <2>1, <2>2 DEF FaultAt, Page, NoFault, Fault
  <2> QED
    BY <2>3, <2>4
<1>21. CopiesAt(e)'
  <2>1. n.pc \in {"dalloc", "dup"} /\ n.child = c /\ n.va = First(S)
    BY <1>5
  <2>2. First(S) \in KeptPlaces(e)' /\ Page(e, First(S)) # NULL /\ First(S) \in VA
    BY <1>3, <1>4, <1>8, Places
  <2>3. Passes(e)' /\ prog'[e] = n
    BY <1>9, <2>1 DEF Passes
  <2>4. \A x \in Image : x < First(S) => ~(x \in KeptPlaces(e)' /\ Page(e, x) # NULL)
    BY <1>1, <1>5, <1>6, <2>3 DEF KeptPlaces
  <2>5. \A x \in VA : Page(c, x)' = NULL /\ Page(e, x)' = Page(e, x)
    BY <1>1, <1>14 DEF Page
  <2>6. UpTo(e, c)'
    BY <2>1, <2>2, <2>3, <2>4, <2>5, Places DEF UpTo, Copied
  <2>7. ASSUME NEW va, va = First(S)
        PROVE  Here(e, c, va)'
    BY <2>1, <2>2, <2>3, <2>5, <2>7 DEF Here
  <2> QED
    BY <2>1, <2>3, <2>6, <2>7 DEF CopiesAt
<1> QED
  BY <1>11, <1>13, <1>17, <1>18, <1>19, <1>20, <1>21 DEF CowInv, ProgOK, FaultOK, CopiesOK

\* The child runs.
LEMMA StartKeeps ==
  ASSUME CowInv, NEW e \in Envs, Start(e)
  PROVE  CowInv'
<1> DEFINE c == prog[e].child
<1>1. /\ prog[e].pc = "start" /\ fault[e] = NoFault
      /\ prog' = [prog EXCEPT ![e] = Idle, ![c] = Idle]
      /\ UNCHANGED <<pte, data, fault, forks, panic>>
  BY DEF Start, At
<1>2. HasChild(e)
  BY <1>1 DEF HasChild
<1>3. c \in Envs /\ c # e /\ prog[c].pc = "new" /\ fault[c] = NoFault
  BY <1>2, ChildIsNew
<1>4. Page(c, Stack) # NULL
  <2>1. \E kept : Copied(e, c, Stack, kept) /\ Stack \in kept
    BY <1>1, Places DEF CowInv, CopiesOK, CopiesAt, CopiedAll
  <2>2. Page(e, Stack) # NULL
    BY <1>1 DEF CowInv, ProgOK, ProgAt, Alive
  <2> QED
    BY <2>1, <2>2, Places DEF Copied, Lacks
<1> HIDE DEF c
<1>5. prog'[e] = Idle /\ prog'[c] = Idle /\ \A f \in Envs \ {e, c} : prog'[f] = prog[f]
  BY <1>1, <1>3 DEF CowInv, CowTypes
<1>6. Idle.pc = "run" /\ Idle \in [pc : Pcs, child : Envs \cup {NULL}, va : VA \cup {NULL}]
  BY DEF Idle, Prog, Pcs
<1>7. CowTypes'
  BY <1>1, <1>6 DEF CowInv, CowTypes
<1>8. Outlast(NULL, NULL)
  BY <1>1, <1>3, <1>5 DEF Outlast
<1>9. SharingOK' /\ SharedIsOne' /\ PermsOK'
  BY <1>1, <1>8, SharingSame
<1>10. \A f \in Envs : HasChild(f)' => f \notin {e, c} /\ HasChild(f)
  BY <1>5, <1>6 DEF HasChild, Passes
<1>11. OneParent'
  BY <1>5, <1>10, ParentsStay
<1>12. \A f \in Envs \ {e} : HasChild(f) => prog[f].child \notin {c, e}
  BY <1>1, <1>2, ChildIsNew DEF CowInv, OneParent, c
<1>13. ASSUME NEW f \in Envs \ {c, e}
      PROVE  ProgAt(f)' /\ FaultAt(f)' /\ CopiesAt(f)'
  <2>1. ProgAt(f)
    BY DEF CowInv, ProgOK
  <2>2. HasChild(f) => prog[f].child \in Envs
    BY ChildIsNew
  <2>3. ProgAt(f)'
    <3>1. \A x \in VA : Page(f, x)' = Page(f, x)
      BY <1>1, <1>5 DEF Page
    <3>2. HasChild(f) => prog'[prog[f].child] = prog[prog[f].child]
      BY <1>5, <1>12, <2>2
    <3>3. Alive(f) => Page(f, Stack)' # NULL
      BY <1>1, <1>5, <2>1 DEF ProgAt, Page
    <3>4. prog'[f] = prog[f] /\ fault'[f] = fault[f]
      BY <1>1, <1>5
    <3> QED
      BY <3>1, <3>2, <3>3, <3>4, ProgStays
  <2>4. FaultAt(f)'
    BY <1>1, <1>5, FaultStays DEF Page
  <2>5. CopiesAt(f)'
    BY <1>1, <1>5, CopiesStay DEF Page
  <2> QED
    BY <2>3, <2>4, <2>5
<1>14. ASSUME NEW f \in {e, c}
      PROVE  ProgAt(f)' /\ FaultAt(f)' /\ CopiesAt(f)'
  <2>1. ProgAt(f) /\ FaultAt(f) /\ prog'[f] = Idle /\ f \in Envs
    BY <1>3, <1>5 DEF CowInv, ProgOK, FaultOK
  <2>2. fault[f] = NoFault /\ Page(f, Stack) # NULL /\ prog[f].pc \notin {"dcopy", "dunmap"}
    BY <1>1, <1>3, <1>4, <2>1 DEF ProgAt, Alive
  <2>3. ProgAt(f)'
    BY <1>1, <1>6, <2>1, <2>2 DEF ProgAt, HasChild, Passes, Alive, Page
  <2>4. FaultAt(f)'
    BY <1>1, <1>6, <2>1, <2>2 DEF FaultAt, Alive, Page, NoFault, Fault
  <2>5. CopiesAt(f)'
    BY <1>6, <2>1 DEF CopiesAt, Passes
  <2> QED
    BY <2>3, <2>4, <2>5
<1> QED
  BY <1>7, <1>9, <1>11, <1>13, <1>14 DEF CowInv, ProgOK, FaultOK, CopiesOK

-----------------------------------------------------------------------------
\* The page the handler fills is nobody else's.
LEMMA ScratchIsMine ==
  ASSUME CowInv, NEW e \in Envs, fault[e].pc \in {"copy", "map"},
         NEW f \in Envs, NEW x \in VA, Page(f, x) = Page(e, PFTEMP)
  PROVE  f = e /\ x = PFTEMP
<1>1. FaultAt(e) /\ Alive(e)
  BY DEF CowInv, FaultOK, FaultAt
<1>2. Page(e, PFTEMP) # NULL
  BY <1>1 DEF FaultAt
<1>3. Fine(e, f, PFTEMP, x)
  BY <1>2, Places DEF CowInv, SharingOK
<1>4. ~Filling(e, f, PFTEMP, x)
  BY Places DEF Filling
<1>5. ~Filling(f, e, x, PFTEMP)
  <2>1. HasChild(f) => prog[prog[f].child].pc = "new"
    BY ChildIsNew
  <2> QED
    BY <1>1, <2>1 DEF Filling, HasChild, Passes, Alive
<1> QED
  BY <1>3, <1>4, <1>5, Places DEF Fine, Moved

\* The handler goes on; its environment stays where it is in its program.
LEMMA HandlerGoes ==
  ASSUME CowInv, NEW e \in Envs, NEW pc \in {"alloc", "copy", "map", "unmap"},
         fault' = [fault EXCEPT ![e].pc = pc]
  PROVE  /\ fault' \in [Envs -> [pc : {"none", "alloc", "copy", "map", "unmap"}, va : VA \cup {NULL}]]
         /\ fault'[e].pc = pc /\ fault'[e].va = fault[e].va
         /\ \A f \in Envs \ {e} : fault'[f] = fault[f]
BY DEF CowInv, CowTypes

LEMMA PgAllocKeeps ==
  ASSUME CowInv, NEW e \in Envs, PgAlloc(e)
  PROVE  CowInv'
<1>1. /\ fault[e].pc = "alloc" /\ Alloc(e, PFTEMP, fault[e].va)
      /\ fault' = [fault EXCEPT ![e].pc = "copy"] /\ UNCHANGED <<prog, forks, panic>>
  BY DEF PgAlloc, InHandler, Handle
<1>2. /\ fault' \in [Envs -> [pc : {"none", "alloc", "copy", "map", "unmap"}, va : VA \cup {NULL}]]
      /\ fault'[e].pc = "copy" /\ fault'[e].va = fault[e].va
      /\ \A f \in Envs \ {e} : fault'[f] = fault[f]
  BY <1>1, HandlerGoes
<1>3. FaultAt(e) /\ fault[e].va \in Image /\ fault[e].va \in VA
  BY <1>1, Places DEF CowInv, FaultOK, FaultAt
<1>4. PICK pg \in Frames :
        /\ pg # NULL /\ \A f \in Envs, x \in VA : pte[f][x].page # pg
        /\ MapTypes' /\ OneChange(e, PFTEMP, pg, {"W"}) /\ SameContents(pg)
  BY <1>1, <1>3, Places, AllocFrame DEF CowInv
<1>5. CowTypes'
  BY <1>1, <1>2, <1>4 DEF CowInv, CowTypes, MapTypes
<1>6. PermsOK' /\ SharedIsOne'
  BY <1>4, Places, PermsStay
<1>7. Outlast(e, PFTEMP)
  BY <1>1, <1>2 DEF Outlast
<1>8. SharingOK'
  <2>1. \A f \in Envs, x \in VA : Page(f, x)' = pg => Fine(e, f, PFTEMP, x)'
    BY <1>4 DEF OneChange, Page, Fine
  <2> QED
    BY <1>4, <1>7, <2>1, Places, SharingStays
<1>9. OneParent'
  BY <1>1, ParentsStay DEF HasChild, Passes
<1>10. Fresh(pg)
  BY <1>4 DEF Fresh, Page
<1>11. ASSUME NEW f \in Envs
       PROVE  ProgAt(f)' /\ CopiesAt(f)'
  <2>1. fault'[f] = fault[f] \/ fault'[f].pc # "none"
    BY <1>2
  <2>2. f = e => prog[f].pc # "unused"
    BY <1>1, <1>3 DEF FaultAt, Alive
  <2>3. ProgAt(f)'
    BY <1>1, <1>4, <2>1, <2>2, Places, ProgOfOthers
  <2>4. CopiesAt(f)'
    BY <1>1, <1>4, <1>10, Places, CopiesOfOthers
  <2> QED
    BY <2>3, <2>4
<1>12. ASSUME NEW f \in Envs \ {e}
       PROVE  FaultAt(f)'
  BY <1>1, <1>2, <1>4, <1>10, Places, FaultOfOthers
<1>13. FaultAt(e)'
  <2>1. \A x \in VA \ {PFTEMP} : Page(e, x)' = Page(e, x)
    BY <1>4 DEF OneChange, Page
  <2>2. Page(e, PFTEMP)' = pg
    BY <1>4 DEF OneChange, Page
  <2>3. Page(e, fault[e].va)' = Page(e, fault[e].va)
    BY <1>2, <1>3, <2>1, Places DEF Page
  <2> QED
    BY <1>1, <1>2, <1>3, <1>4, <2>1, <2>2, <2>3, Places DEF FaultAt, Alive, Page
<1> QED
  BY <1>5, <1>6, <1>8, <1>9, <1>11, <1>12, <1>13 DEF CowInv, ProgOK, FaultOK, CopiesOK

LEMMA PgCopyKeeps ==
  ASSUME CowInv, NEW e \in Envs, PgCopy(e)
  PROVE  CowInv'
<1> DEFINE new == Page(e, PFTEMP)
           va == fault[e].va
<1>1. /\ fault[e].pc = "copy" /\ data' = [data EXCEPT ![new] = data[Page(e, va)]]
      /\ fault' = [fault EXCEPT ![e].pc = "map"] /\ UNCHANGED <<pte, prog, forks, panic>>
  BY DEF PgCopy, InHandler, Handle
<1>2. /\ fault' \in [Envs -> [pc : {"none", "alloc", "copy", "map", "unmap"}, va : VA \cup {NULL}]]
      /\ fault'[e].pc = "map" /\ fault'[e].va = va
      /\ \A f \in Envs \ {e} : fault'[f] = fault[f]
  BY <1>1, HandlerGoes
<1>3. FaultAt(e) /\ va \in Image /\ va \in VA /\ Page(e, va) # NULL /\ new # NULL
  BY <1>1, Places DEF CowInv, FaultOK, FaultAt
<1>4. Page(e, va) \in InUse(pte) /\ new \in InUse(pte)
  BY <1>3, Places, InUseIs DEF Page
<1>5. data \in [InUse(pte) -> Data]
  BY DEF CowInv, CowTypes
<1>6. \A f \in Envs, x \in VA : Page(f, x) = new => f = e /\ x = PFTEMP
  BY <1>1, ScratchIsMine
<1> HIDE DEF new, va
<1>7. data' \in [InUse(pte) -> Data] /\ data'[new] = data[Page(e, va)]
  BY <1>1, <1>4, <1>5
<1>8. \A f \in Envs, x \in VA : f # e \/ x # PFTEMP => data'[Page(f, x)] = data[Page(f, x)]
  <2>1. \A p : p # new => data'[p] = data[p]
    <3> SUFFICES ASSUME NEW p, p # new
                 PROVE  data'[p] = data[p]
      OBVIOUS
    <3> QED
      BY <1>1, <1>5
  <2> QED
    BY <1>6, <2>1
<1>9. CowTypes'
  BY <1>1, <1>2, <1>7 DEF CowInv, CowTypes
<1>10. Outlast(NULL, NULL)
  BY <1>1, <1>2 DEF Outlast
<1>11. SharingOK' /\ SharedIsOne' /\ PermsOK'
  BY <1>1, <1>10, SharingSame
<1>12. OneParent'
  BY <1>1, ParentsStay DEF HasChild, Passes
<1>13. ASSUME NEW f \in Envs
       PROVE  ProgAt(f)' /\ CopiesAt(f)'
  <2>1. fault'[f] = fault[f] \/ fault'[f].pc # "none"
    BY <1>2
  <2>2. ProgAt(f)
    BY DEF CowInv, ProgOK
  <2>3. ProgAt(f)'
    BY <1>1, <2>1, <2>2, ProgStays DEF ProgAt, Page
  <2>4. HasChild(f) => prog[f].child \in Envs
    BY ChildIsNew
  <2>5. CopiesAt(f)'
    BY <1>1, <1>8, <2>4, Places, CopiesStay DEF Page
  <2> QED
    BY <2>3, <2>5
<1>14. ASSUME NEW f \in Envs \ {e}
       PROVE  FaultAt(f)'
  <2>1. FaultAt(f)
    BY DEF CowInv, FaultOK
  <2> QED
    BY <1>1, <1>2, <1>8, <2>1, Places, FaultStays DEF FaultAt, Page
<1>15. FaultAt(e)'
  <2>1. data'[Page(e, va)] = data[Page(e, va)]
    BY <1>3, <1>8, Places
  <2> QED
    BY <1>1, <1>2, <1>3, <1>7, <2>1 DEF FaultAt, Alive, Page, new, va
<1> QED
  BY <1>9, <1>11, <1>12, <1>13, <1>14, <1>15 DEF CowInv, ProgOK, FaultOK, CopiesOK

LEMMA PgMapKeeps ==
  ASSUME CowInv, NEW e \in Envs, PgMap(e)
  PROVE  CowInv'
<1>a. PICK va \in Image \ Shared, pg \in {Page(e, PFTEMP)} : va = fault[e].va
  BY DEF CowInv, FaultOK, FaultAt, PgMap, InHandler
<1>1. /\ fault[e].pc = "map" /\ Remap(Mapped(e, va, pg, {"W"}))
      /\ fault' = [fault EXCEPT ![e].pc = "unmap"] /\ UNCHANGED <<prog, forks, panic>>
  BY <1>a DEF PgMap, InHandler, Handle
<1>2. /\ fault' \in [Envs -> [pc : {"none", "alloc", "copy", "map", "unmap"}, va : VA \cup {NULL}]]
      /\ fault'[e].pc = "unmap" /\ fault'[e].va = va
      /\ \A f \in Envs \ {e} : fault'[f] = fault[f]
  BY <1>1, <1>a, HandlerGoes
<1>3. /\ FaultAt(e) /\ va \in Image \ Shared /\ va \in VA /\ Page(e, va) # NULL /\ pg # NULL
      /\ Alive(e) /\ (prog[e] = Idle \/ va = Stack)
  BY <1>1, <1>a, Places DEF CowInv, FaultOK, FaultAt
<1>4. pg \in InUse(pte)
  BY <1>3, <1>a, Places, InUseIs DEF Page
<1>5. MapTypes' /\ OneChange(e, va, pg, {"W"}) /\ SameContents(NULL)
  BY <1>1, <1>3, <1>4, RemapFrame DEF CowInv, Flags
<1>6. CowTypes'
  BY <1>1, <1>2, <1>5 DEF CowInv, CowTypes, MapTypes
<1>7. PermsOK' /\ SharedIsOne'
  BY <1>3, <1>5, PermsStay
<1>8. Outlast(e, va)
  BY <1>1, <1>2 DEF Outlast
<1>9. SharingOK'
  <2>1. ASSUME NEW f \in Envs, NEW x \in VA, Page(f, x)' = pg, f # e \/ x # va
        PROVE  f = e /\ x = PFTEMP
    <3>1. Page(f, x) = Page(e, PFTEMP)
      BY <1>5, <1>a, <2>1 DEF OneChange, Page
    <3> QED
      BY <1>1, <3>1, ScratchIsMine
  <2>2. Moved(e, PFTEMP, va)'
    BY <1>2 DEF Moved
  <2>3. ASSUME NEW f \in Envs, NEW x \in VA, Page(f, x)' = pg
        PROVE  Fine(e, f, va, x)'
    BY <2>1, <2>2, <2>3 DEF Fine
  <2> QED
    BY <1>3, <1>5, <1>8, <2>3, SharingStays
<1>10. OneParent'
  BY <1>1, ParentsStay DEF HasChild, Passes
<1>11. Fresh(NULL)
  BY DEF Fresh
<1>12. ~HasChild(e) \/ va = Stack
  BY <1>3 DEF Idle, Prog, HasChild, Passes
<1>13. ASSUME NEW f \in Envs
       PROVE  ProgAt(f)' /\ CopiesAt(f)'
  <2>1. fault'[f] = fault[f] \/ fault'[f].pc # "none"
    BY <1>2
  <2>2. f = e => prog[f].pc # "unused"
    BY <1>3 DEF Alive
  <2>3. ProgAt(f)'
    BY <1>1, <1>3, <1>5, <2>1, <2>2, ProgOfOthers
  <2>4. HasChild(f) => e # prog[f].child
    BY <1>3, ChildIsNew DEF Alive
  <2>5. \/ ~HasChild(f) \/ (e # f /\ e # prog[f].child) \/ (e = f /\ va = Stack /\ pg # NULL)
    BY <1>3, <1>12, <2>4
  <2>6. CopiesAt(f)'
    BY <1>1, <1>3, <1>5, <1>11, <2>5, CopiesOfOthers
  <2> QED
    BY <2>3, <2>6
<1>14. ASSUME NEW f \in Envs \ {e}
       PROVE  FaultAt(f)'
  BY <1>1, <1>2, <1>3, <1>5, <1>11, FaultOfOthers
<1>15. FaultAt(e)'
  <2>1. Page(e, PFTEMP)' = Page(e, PFTEMP) /\ Page(e, UTEMP)' = Page(e, UTEMP)
    BY <1>3, <1>5, Places DEF OneChange, Page
  <2>2. pte'[e][va].page = pg
    BY <1>5 DEF OneChange
  <2> QED
    BY <1>1, <1>2, <1>3, <1>a, <2>1, <2>2 DEF FaultAt, Alive, Page
<1> QED
  BY <1>6, <1>7, <1>9, <1>10, <1>13, <1>14, <1>15 DEF CowInv, ProgOK, FaultOK, CopiesOK

LEMMA PgUnmapKeeps ==
  ASSUME CowInv, NEW e \in Envs, PgUnmap(e)
  PROVE  CowInv'
<1>1. /\ fault[e].pc = "unmap" /\ Remap(Mapped(e, PFTEMP, NULL, {}))
      /\ fault' = [fault EXCEPT ![e] = NoFault] /\ UNCHANGED <<prog, forks, panic>>
  BY DEF PgUnmap, InHandler, Mapped, Unmapped
<1>2. /\ fault' \in [Envs -> [pc : {"none", "alloc", "copy", "map", "unmap"}, va : VA \cup {NULL}]]
      /\ fault'[e] = NoFault /\ \A f \in Envs \ {e} : fault'[f] = fault[f]
  BY <1>1 DEF CowInv, CowTypes, NoFault, Fault
<1>3. FaultAt(e) /\ Alive(e)
  BY <1>1 DEF CowInv, FaultOK, FaultAt
<1>4. MapTypes' /\ OneChange(e, PFTEMP, NULL, {}) /\ SameContents(NULL)
  BY <1>1, Places, RemapFrame DEF CowInv
<1>5. CowTypes'
  BY <1>1, <1>2, <1>4 DEF CowInv, CowTypes, MapTypes
<1>6. PermsOK' /\ SharedIsOne'
  BY <1>4, Places, PermsStay
<1>7. Outlast(e, PFTEMP)
  BY <1>1, <1>2 DEF Outlast
<1>8. SharingOK'
  BY <1>4, <1>7, Places, SharingStays
<1>9. OneParent'
  BY <1>1, ParentsStay DEF HasChild, Passes
<1>10. Fresh(NULL)
  BY DEF Fresh
<1>11. ASSUME NEW f \in Envs
       PROVE  ProgAt(f)' /\ CopiesAt(f)'
  <2>1. fault'[f] = fault[f] \/ fault'[f] = NoFault
    BY <1>2
  <2>2. f = e => prog[f].pc # "unused"
    BY <1>3 DEF Alive
  <2>3. ProgAt(f)'
    BY <1>1, <1>4, <2>1, <2>2, Places, ProgOfOthers
  <2>4. CopiesAt(f)'
    BY <1>1, <1>4, <1>10, Places, CopiesOfOthers
  <2> QED
    BY <2>3, <2>4
<1>12. ASSUME NEW f \in Envs \ {e}
       PROVE  FaultAt(f)'
  BY <1>1, <1>2, <1>4, <1>10, Places, FaultOfOthers
<1>13. FaultAt(e)'
  <2>1. Page(e, PFTEMP)' = NULL /\ Page(e, UTEMP)' = Page(e, UTEMP)
    BY <1>4, Places DEF OneChange, Page
  <2> QED
    BY <1>1, <1>2, <1>3, <2>1 DEF FaultAt, NoFault, Fault
<1> QED
  BY <1>5, <1>6, <1>8, <1>9, <1>11, <1>12, <1>13 DEF CowInv, ProgOK, FaultOK, CopiesOK

-----------------------------------------------------------------------------
\* Who reads a page that a program writes: those it shares it with, and the
\* child to which it is just passing its stack on.
LEMMA WhoReads ==
  ASSUME CowInv, NEW e \in Envs, NEW va \in Image, Alive(e), fault[e] = NoFault,
         prog[e] = Idle \/ va = Stack, Page(e, va) # NULL, Writable(e, va),
         NEW f \in Envs, NEW x \in VA, Page(f, x) = Page(e, va)
  PROVE  /\ x = va
         /\ f = e \/ va \in Shared \/ (va = Stack /\ prog[e].pc = "own" /\ f = prog[e].child)
<1>1. Fine(e, f, va, x)
  BY Places DEF CowInv, SharingOK
<1>2. \A h \in Envs : HasChild(h) => prog[h].child # e
  BY ChildIsNew DEF Alive
<1>3. ~Moved(e, va, x) /\ ~Moved(e, x, va)
  BY DEF Moved, NoFault, Fault
<1>4. ~Filling(e, f, va, x) /\ ~Filling(f, e, x, va)
  BY <1>2, Places DEF Filling, HasChild, Passes
<1>5. ~Giving(f, e, va)
  BY DEF Giving
<1>6. Giving(e, f, va) => va = Stack /\ prog[e].pc = "own" /\ f = prog[e].child
  BY DEF Giving, Idle, Prog
<1> QED
  BY <1>1, <1>3, <1>4, <1>5, <1>6 DEF Fine

\* A program writes to a page of its own.
LEMMA WriteKeeps ==
  ASSUME CowInv, NEW e \in Envs, NEW va \in Image, NEW v \in Data,
         Alive(e), fault[e] = NoFault, prog[e] = Idle \/ va = Stack,
         Page(e, va) # NULL, Writable(e, va),
         data' = [data EXCEPT ![Page(e, va)] = v],
         UNCHANGED <<pte, prog, fault, forks, panic>>
  PROVE  /\ CowInv'
         /\ data'[Page(e, va)] = v /\ \A p : p # Page(e, va) => data'[p] = data[p]
<1> DEFINE pg == Page(e, va)
<1>1. pg \in InUse(pte) /\ data \in [InUse(pte) -> Data]
  BY Places, InUseIs DEF Page, CowInv, CowTypes
<1> HIDE DEF pg
<1>2. data' = [data EXCEPT ![pg] = v]
  BY DEF pg
<1>3. data' \in [InUse(pte) -> Data] /\ data'[pg] = v
  BY <1>1, <1>2
<1>4. ASSUME NEW p, p # pg
      PROVE  data'[p] = data[p]
  BY <1>1, <1>2, <1>4
<1>5. \A f \in Envs, x \in VA : Page(f, x) = pg =>
        x = va /\ (f = e \/ va \in Shared \/ (va = Stack /\ prog[e].pc = "own" /\ f = prog[e].child))
  BY WhoReads DEF pg
<1>6. CowTypes'
  BY <1>3 DEF CowInv, CowTypes
<1>7. Outlast(NULL, NULL)
  BY DEF Outlast
<1>8. SharingOK' /\ SharedIsOne' /\ PermsOK'
  BY <1>7, SharingSame
<1>9. OneParent'
  BY ParentsStay DEF HasChild, Passes
<1>10. ASSUME NEW f \in Envs
       PROVE  ProgAt(f)' /\ FaultAt(f)' /\ CopiesAt(f)'
  <2>1. ProgAt(f) /\ FaultAt(f)
    BY DEF CowInv, ProgOK, FaultOK
  <2>2. ProgAt(f)'
    BY <2>1, ProgStays DEF ProgAt, Page
  <2>3. fault[f].pc = "map" => Page(f, PFTEMP) # pg /\ Page(f, fault[f].va) # pg
    <3>1. fault[f].pc = "map" => f # e /\ Alive(f) /\ fault[f].va \in Image \ Shared
      BY <2>1 DEF FaultAt, NoFault, Fault
    <3>2. HasChild(e) => prog[e].child # f \/ fault[f].pc # "map"
      BY <3>1, ChildIsNew DEF Alive
    <3> QED
      BY <1>5, <3>1, <3>2, Places DEF HasChild, Passes
  <2>4. FaultAt(f)'
    BY <1>4, <2>3, FaultStays DEF Page
  <2>5. ASSUME HasChild(f), NEW x \in Image, x # Stack,
               data[Page(prog[f].child, x)] = data[Page(f, x)],
               Page(f, x) # NULL, Page(prog[f].child, x) # NULL
        PROVE  data'[Page(prog[f].child, x)] = data'[Page(f, x)]
    <3> DEFINE c == prog[f].child
    <3>1. c \in Envs /\ c # f /\ c # e
      BY <2>5, ChildIsNew DEF Alive
    <3> HIDE DEF c
    <3>2. CASE x \in Shared
      <4>1. Page(c, x) = Page(f, x)
        BY <2>5, <3>1, <3>2 DEF CowInv, SharedIsOne, c
      <4> QED
        BY <4>1 DEF c
    <3>3. CASE x \notin Shared
      <4>1. Page(c, x) # pg
        BY <1>5, <2>5, <3>1, <3>3, Places DEF c
      <4>2. Page(f, x) # pg
        BY <1>5, <2>5, <3>3, Places DEF Idle, Prog, HasChild, Passes
      <4> QED
        BY <1>4, <2>5, <4>1, <4>2 DEF c
    <3> QED
      BY <3>2, <3>3
  <2>6. CopiesAt(f)'
    BY <2>5, CopiesStay DEF Page
  <2> QED
    BY <2>2, <2>4, <2>6
<1>11. CowInv'
  BY <1>6, <1>8, <1>9, <1>10 DEF CowInv, ProgOK, FaultOK, CopiesOK
<1> QED
  BY <1>3, <1>4, <1>11 DEF pg

\* A program writes to a page that is copy-on-write: the handler is called.
LEMMA FaultKeeps ==
  ASSUME CowInv, NEW e \in Envs, NEW va \in Image,
         Alive(e), fault[e] = NoFault, prog[e] = Idle \/ va = Stack,
         Page(e, va) # NULL, "COW" \in Perm(e, va),
         fault' = [fault EXCEPT ![e] = Fault("alloc", va)],
         UNCHANGED <<pte, data, prog, forks, panic>>
  PROVE  CowInv'
<1>1. va \in VA \ Shared
  BY Places DEF CowInv, PermsOK
<1>2. fault'[e].pc = "alloc" /\ fault'[e].va = va /\ \A f \in Envs \ {e} : fault'[f] = fault[f]
  BY DEF CowInv, CowTypes, Fault
<1>3. CowTypes'
  BY <1>1 DEF CowInv, CowTypes, Fault
<1>4. Outlast(NULL, NULL)
  BY <1>2 DEF Outlast, NoFault, Fault
<1>5. SharingOK' /\ SharedIsOne' /\ PermsOK'
  BY <1>4, SharingSame
<1>6. OneParent'
  BY ParentsStay DEF HasChild, Passes
<1>7. ASSUME NEW f \in Envs
      PROVE  ProgAt(f)' /\ CopiesAt(f)'
  <2>1. ProgAt(f)
    BY DEF CowInv, ProgOK
  <2>2. fault'[f] = fault[f] \/ fault'[f].pc # "none"
    BY <1>2
  <2>3. ProgAt(f)'
    BY <2>1, <2>2, ProgStays DEF ProgAt, Page
  <2>4. CopiesAt(f)'
    BY CopiesStay DEF Page
  <2> QED
    BY <2>3, <2>4
<1>8. ASSUME NEW f \in Envs \ {e}
      PROVE  FaultAt(f)'
  BY <1>2, FaultStays DEF Page
<1>9. FaultAt(e)'
  <2>1. FaultAt(e)
    BY DEF CowInv, FaultOK
  <2> QED
    BY <1>1, <1>2, <2>1 DEF FaultAt, Alive, Page, NoFault, Fault
<1> QED
  BY <1>3, <1>5, <1>6, <1>7, <1>8, <1>9 DEF CowInv, ProgOK, FaultOK, CopiesOK

LEMMA StoreKeeps ==
  ASSUME CowInv, NEW e \in Envs, NEW va \in Image, NEW v \in Data, Store(e, va, v)
  PROVE  CowInv'
<1>1. CASE Writable(e, va)
  BY <1>1, WriteKeeps DEF Store
<1>2. CASE ~Writable(e, va)
  BY <1>2, FaultKeeps DEF Store
<1> QED
  BY <1>1, <1>2

-----------------------------------------------------------------------------
\* The program of e goes on, with no child before or after.
LEMMA AloneGoes ==
  ASSUME CowInv, NEW e \in Envs, NEW n, prog[e].pc = "run", prog' = [prog EXCEPT ![e] = n],
         n \in [pc : Pcs, child : Envs \cup {NULL}, va : VA \cup {NULL}],
         n.pc \in {"exofork", "unused"}, fault' = fault
  PROVE  /\ prog' \in [Envs -> [pc : Pcs, child : Envs \cup {NULL}, va : VA \cup {NULL}]]
         /\ prog'[e] = n /\ \A f \in Envs \ {e} : prog'[f] = prog[f]
         /\ OneParent'
         /\ \A f \in Envs : HasChild(f) => f # e /\ prog[f].child \in Envs \ {e}
         /\ \A g, va : Outlast(g, va)
<1>1. prog'[e] = n /\ \A f \in Envs \ {e} : prog'[f] = prog[f]
  BY DEF CowInv, CowTypes
<1>2. prog' \in [Envs -> [pc : Pcs, child : Envs \cup {NULL}, va : VA \cup {NULL}]]
  BY DEF CowInv, CowTypes
<1>3. \A f \in Envs : HasChild(f) => f # e /\ prog[f].child \in Envs \ {e}
  BY ChildIsNew DEF HasChild, Passes
<1>4. OneParent'
  <2>1. \A f \in Envs : HasChild(f)' => HasChild(f) /\ prog'[f].child = prog[f].child
    BY <1>1 DEF HasChild, Passes
  <2> QED
    BY <2>1, ParentsStay
<1>5. \A g, va : Outlast(g, va)
  BY <1>1 DEF Outlast
<1> QED
  BY <1>1, <1>2, <1>3, <1>4, <1>5

LEMMA SetHandlerKeeps ==
  ASSUME CowInv, NEW e \in Envs, SetHandler(e)
  PROVE  CowInv'
<1>a. PICK n \in {Prog("exofork", NULL, NULL)} : TRUE
  OBVIOUS
<1>1. /\ prog[e].pc = "run" /\ fault[e] = NoFault
      /\ IF Page(e, UXStack) = NULL THEN Alloc(e, UXStack, UXStack) ELSE UNCHANGED <<pte, data>>
      /\ prog' = [prog EXCEPT ![e] = n] /\ UNCHANGED <<fault, forks, panic>>
      /\ n.pc = "exofork"
  <2>1. n = Prog("exofork", NULL, NULL) /\ n.pc = "exofork"
    BY <1>a DEF Prog
  <2> QED
    BY <2>1 DEF SetHandler, At, Goto
<1>2. n \in [pc : Pcs, child : Envs \cup {NULL}, va : VA \cup {NULL}]
  BY <1>a DEF Prog, Pcs
<1>3. /\ prog' \in [Envs -> [pc : Pcs, child : Envs \cup {NULL}, va : VA \cup {NULL}]]
      /\ prog'[e] = n /\ \A f \in Envs \ {e} : prog'[f] = prog[f]
      /\ OneParent'
      /\ \A f \in Envs : HasChild(f) => f # e /\ prog[f].child \in Envs \ {e}
      /\ \A g, va : Outlast(g, va)
  BY <1>1, <1>2, AloneGoes
<1>4. ProgAt(e) /\ FaultAt(e)
  BY DEF CowInv, ProgOK, FaultOK
<1>5. CopiesAt(e)'
  BY <1>1, <1>3 DEF CopiesAt, Passes
<1>6. CASE Page(e, UXStack) # NULL
  <2>1. UNCHANGED <<pte, data>>
    BY <1>1, <1>6
  <2>2. CowTypes'
    BY <1>1, <1>3, <2>1 DEF CowInv, CowTypes
  <2>3. SharingOK' /\ SharedIsOne' /\ PermsOK'
    BY <1>3, <2>1, SharingSame
  <2>4. ASSUME NEW f \in Envs \ {e}
        PROVE  ProgAt(f)' /\ FaultAt(f)' /\ CopiesAt(f)'
    <3>1. ProgAt(f)
      BY DEF CowInv, ProgOK
    <3>2. ProgAt(f)'
      BY <1>1, <1>3, <2>1, <3>1, ProgStays DEF ProgAt, Page
    <3>3. FaultAt(f)'
      BY <1>1, <1>3, <2>1, FaultStays DEF Page
    <3>4. CopiesAt(f)'
      BY <1>1, <1>3, <2>1, CopiesStay DEF Page
    <3> QED
      BY <3>2, <3>3, <3>4
  <2>5. ProgAt(e)' /\ FaultAt(e)'
    BY <1>1, <1>3, <1>4, <2>1 DEF ProgAt, FaultAt, Page, Alive, HasChild, Passes, NoFault, Fault
  <2> QED
    BY <1>3, <1>5, <2>2, <2>3, <2>4, <2>5 DEF CowInv, ProgOK, FaultOK, CopiesOK
<1>7. CASE Page(e, UXStack) = NULL
  <2>1. PICK pg \in Frames :
          /\ pg # NULL /\ \A f \in Envs, x \in VA : pte[f][x].page # pg
          /\ MapTypes' /\ OneChange(e, UXStack, pg, {"W"}) /\ SameContents(pg)
    BY <1>1, <1>7, Places, AllocFrame DEF CowInv
  <2>2. CowTypes'
    BY <1>1, <1>3, <2>1 DEF CowInv, CowTypes, MapTypes
  <2>3. PermsOK' /\ SharedIsOne'
    BY <2>1, Places, PermsStay
  <2>4. SharingOK'
    <3>1. \A f \in Envs, x \in VA : Page(f, x)' = pg => Fine(e, f, UXStack, x)'
      BY <2>1 DEF OneChange, Page, Fine
    <3> QED
      BY <1>3, <2>1, <3>1, Places, SharingStays
  <2>5. Fresh(pg)
    BY <2>1 DEF Fresh, Page
  <2>6. ASSUME NEW f \in Envs \ {e}
        PROVE  ProgAt(f)' /\ FaultAt(f)' /\ CopiesAt(f)'
    <3>1. ProgAt(f)'
      BY <1>1, <1>3, <2>1, Places, ProgOfOthers
    <3>2. FaultAt(f)'
      BY <1>1, <1>3, <2>1, <2>5, Places, FaultOfOthers
    <3>3. CopiesAt(f)'
      BY <1>1, <1>3, <2>1, <2>5, Places, CopiesOfOthers
    <3> QED
      BY <3>1, <3>2, <3>3
  <2>7. FaultAt(e)'
    <3>1. n.pc \notin {"dcopy", "dunmap"} /\ fault[e].pc = "none"
      BY <1>1 DEF NoFault, Fault
    <3> QED
      BY <1>1, <1>3, <2>1, <2>5, <3>1, Places, FaultOfOthers
  <2>8. ProgAt(e)'
    <3>1. Page(e, Stack)' # NULL
      BY <1>1, <1>4, <2>1, Places DEF ProgAt, Alive, OneChange, Page
    <3> QED
      BY <1>1, <1>3, <1>4, <3>1 DEF ProgAt, HasChild, Passes
  <2> QED
    BY <1>3, <1>5, <2>2, <2>3, <2>4, <2>6, <2>7, <2>8 DEF CowInv, ProgOK, FaultOK, CopiesOK
<1> QED
  BY <1>6, <1>7

\* An environment is gone, and its pages with it.
LEMMA ExitKeeps ==
  ASSUME CowInv, NEW e \in Envs, Exit(e)
  PROVE  CowInv' /\ \A f \in Envs \ {e} : pte'[f] = pte[f]
<1>1. /\ prog[e].pc = "run" /\ fault[e] = NoFault
      /\ pte' = [pte EXCEPT ![e] = NoSpace] /\ data' = [p \in InUse(pte') |-> data[p]]
      /\ prog' = [prog EXCEPT ![e] = Unused] /\ UNCHANGED <<fault, forks, panic>>
      /\ Unused.pc = "unused"
  BY DEF Exit, At, Goto, Remap, Kept, Unused, Prog
<1>2. Unused \in [pc : Pcs, child : Envs \cup {NULL}, va : VA \cup {NULL}]
  BY DEF Unused, Prog, Pcs
<1>3. /\ prog' \in [Envs -> [pc : Pcs, child : Envs \cup {NULL}, va : VA \cup {NULL}]]
      /\ prog'[e] = Unused /\ \A f \in Envs \ {e} : prog'[f] = prog[f]
      /\ OneParent'
      /\ \A f \in Envs : HasChild(f) => f # e /\ prog[f].child \in Envs \ {e}
      /\ \A g, va : Outlast(g, va)
  BY <1>1, <1>2, AloneGoes
<1>4. NoSpace \in [VA -> [page : Frames \cup {NULL}, perm : SUBSET Flags]]
  BY DEF NoSpace, Unmapped
<1>5. /\ pte' \in [Envs -> [VA -> [page : Frames \cup {NULL}, perm : SUBSET Flags]]]
      /\ \A f \in Envs \ {e} : pte'[f] = pte[f]
      /\ \A x \in VA : pte'[e][x].page = NULL /\ pte'[e][x].perm = {}
  <2>1. \A x \in VA : NoSpace[x].page = NULL /\ NoSpace[x].perm = {}
    BY DEF NoSpace, Unmapped
  <2> HIDE DEF NoSpace
  <2> QED
    BY <1>1, <1>4, <2>1 DEF CowInv, CowTypes
<1>6. \A p \in InUse(pte') : p \in InUse(pte)
  BY <1>5, InUseIs
<1>7. data' \in [InUse(pte') -> Data]
  BY <1>1, <1>6 DEF CowInv, CowTypes
<1>8. CowTypes'
  BY <1>1, <1>3, <1>5, <1>7 DEF CowInv, CowTypes
<1>9. PermsOK' /\ SharedIsOne'
  <2>1. PermsOK'
    BY <1>5 DEF CowInv, PermsOK, Page, Perm
  <2>2. SharedIsOne'
    <3> SUFFICES ASSUME NEW f \in Envs, NEW h \in Envs, NEW x \in Shared,
                        Page(f, x)' # NULL, Page(h, x)' # NULL
                 PROVE  Page(f, x)' = Page(h, x)'
      BY DEF SharedIsOne
    <3>1. pte'[f] = pte[f] /\ pte'[h] = pte[h]
      BY <1>5, Places DEF Page
    <3> QED
      BY <3>1 DEF CowInv, SharedIsOne, Page
  <2> QED
    BY <2>1, <2>2
<1>10. SharingOK'
  <2> SUFFICES ASSUME NEW f \in Envs, NEW h \in Envs, NEW x \in VA, NEW y \in VA,
                      Page(f, x)' # NULL, Page(f, x)' = Page(h, y)'
               PROVE  Fine(f, h, x, y)'
    BY DEF SharingOK
  <2>1. f # e /\ h # e /\ pte'[f] = pte[f] /\ pte'[h] = pte[h]
    BY <1>5 DEF Page
  <2>2. Fine(f, h, x, y) /\ prog'[f] = prog[f] /\ prog'[h] = prog[h]
    BY <1>3, <2>1 DEF CowInv, SharingOK, Page
  <2> QED
    BY <1>1, <2>1, <2>2 DEF Fine, Giving, Filling, Moved, Writable, Perm
<1>11. ASSUME NEW f \in Envs \ {e}, NEW x \in VA, Page(f, x) # NULL
       PROVE  data'[Page(f, x)] = data[Page(f, x)]
  <2>1. Page(f, x) \in InUse(pte')
    BY <1>5, <1>11, InUseIs DEF Page
  <2> QED
    BY <1>1, <2>1
<1>12. ASSUME NEW f \in Envs \ {e}
       PROVE  ProgAt(f)' /\ FaultAt(f)' /\ CopiesAt(f)'
  <2>1. ProgAt(f) /\ FaultAt(f)
    BY DEF CowInv, ProgOK, FaultOK
  <2>2. ProgAt(f)'
    BY <1>1, <1>3, <1>5, <2>1, ProgStays DEF ProgAt, Page
  <2>3. fault[f].pc = "map" => Page(f, PFTEMP) # NULL /\ Page(f, fault[f].va) # NULL
                               /\ fault[f].va \in VA
    BY <2>1, Places DEF FaultAt
  <2>4. FaultAt(f)'
    <3>1. \A x \in VA : Page(f, x)' = Page(f, x)
      BY <1>5 DEF Page
    <3>2. fault[f].pc = "map" =>
            /\ data'[Page(f, PFTEMP)] = data[Page(f, PFTEMP)]
            /\ data'[Page(f, fault[f].va)] = data[Page(f, fault[f].va)]
      BY <1>11, <2>3, Places
    <3> QED
      BY <1>1, <1>3, <3>1, <3>2, FaultStays
  <2>5. CopiesAt(f)'
    <3>1. HasChild(f) => prog[f].child \in Envs \ {e}
      BY <1>3
    <3>2. \A x \in VA : Page(f, x)' = Page(f, x)
      BY <1>5 DEF Page
    <3>3. HasChild(f) => \A x \in VA : /\ pte'[prog[f].child][x] = pte[prog[f].child][x]
                                       /\ Page(prog[f].child, x)' = Page(prog[f].child, x)
      BY <1>3, <1>5, <3>1 DEF Page
    <3>4. HasChild(f) => \A x \in VA :
            /\ Page(f, x) # NULL => data'[Page(f, x)] = data[Page(f, x)]
            /\ Page(prog[f].child, x) # NULL =>
                 data'[Page(prog[f].child, x)] = data[Page(prog[f].child, x)]
      BY <1>11, <3>1
    <3> QED
      BY <1>3, <3>2, <3>3, <3>4, Places, CopiesStay
  <2> QED
    BY <2>2, <2>4, <2>5
<1>13. ProgAt(e)'
  BY <1>1, <1>3, <1>5 DEF CowInv, ProgOK, ProgAt, Alive, HasChild, Passes, Page
<1>14. FaultAt(e)'
  BY <1>1, <1>3, <1>5, Places DEF FaultAt, Page, NoFault, Fault
<1>15. CopiesAt(e)'
  BY <1>1, <1>3 DEF CopiesAt, Passes
<1> QED
  BY <1>3, <1>5, <1>8, <1>9, <1>10, <1>12, <1>13, <1>14, <1>15
     DEF CowInv, ProgOK, FaultOK, CopiesOK

-----------------------------------------------------------------------------
\* An environment that makes a child goes on,
Works(e, n) ==
  /\ HasChild(e) /\ fault[e] = NoFault
  /\ n \in [pc : Pcs, child : Envs \cup {NULL}, va : VA \cup {NULL}]
  /\ n.child = prog[e].child
  /\ n.pc \in {"dup", "own", "xstack", "start", "dalloc", "dmap", "dcopy", "dunmap"}
  /\ prog' = [prog EXCEPT ![e] = n] /\ UNCHANGED <<fault, forks, panic>>

\* and changes one mapping, to the page q if that is a new one.
Changes(g, va, pg, perm, q) ==
  MapTypes' /\ OneChange(g, va, pg, perm) /\ SameContents(q) /\ Fresh(q)

LEMMA WorkKeeps ==
  ASSUME CowInv, NEW e \in Envs, NEW n, Works(e, n),
         NEW g \in {e, prog[e].child}, NEW va \in VA, NEW pg, NEW perm, NEW q,
         Changes(g, va, pg, perm, q),
         va = Stack => pg # NULL, g # e => va \notin {PFTEMP, UTEMP}
  PROVE  /\ CowTypes' /\ ProgOK' /\ OneParent'
         /\ prog'[e] = n /\ \A f \in Envs \ {e} : prog'[f] = prog[f]
         /\ \A f \in Envs \ {e} : FaultAt(f)' /\ CopiesAt(f)'
<1> DEFINE c == prog[e].child
<1> USE DEF Works, Changes
<1>1. /\ c \in Envs /\ c # e /\ prog[c].pc = "new" /\ fault[c] = NoFault
      /\ Page(c, UTEMP) = NULL /\ Page(c, PFTEMP) = NULL
  BY ChildIsNew
<1>2. prog'[e] = n /\ \A f \in Envs \ {e} : prog'[f] = prog[f]
  BY DEF CowInv, CowTypes
<1>3. CowTypes'
  BY DEF CowInv, CowTypes, MapTypes
<1>4. OneParent'
  <2>1. \A f \in Envs : HasChild(f)' => HasChild(f) /\ prog'[f].child = prog[f].child
    BY <1>2 DEF HasChild, Passes
  <2> QED
    BY <2>1, ParentsStay
<1>5. g \in Envs
  BY <1>1
<1> HIDE DEF c
<1>6. \A f \in Envs \ {e} : HasChild(f) => prog[f].child \in Envs \ {e, c}
  <2>1. prog[e].pc # "new"
    BY DEF HasChild, Passes
  <2> QED
    BY <2>1, ChildIsNew DEF CowInv, OneParent, c
<1>7. ~HasChild(c)
  BY <1>1 DEF HasChild, Passes
<1>8. ASSUME NEW f \in Envs \ {e}
      PROVE  ProgAt(f)' /\ FaultAt(f)' /\ CopiesAt(f)'
  <2>1. ProgAt(f)'
    <3>1. f = g => prog[f].pc # "unused"
      BY <1>1 DEF c
    <3>2. HasChild(f) => prog'[prog[f].child] = prog[prog[f].child]
      BY <1>2, <1>6
    <3> QED
      BY <1>2, <1>5, <3>1, <3>2, ProgOfOthers
  <2>2. FaultAt(f)'
    <3>1. CASE f # g
      BY <1>2, <1>5, <3>1, FaultOfOthers
    <3>2. CASE f = g
      <4>1. f = c /\ va \notin {PFTEMP, UTEMP} /\ FaultAt(c)
        BY <1>1, <3>2 DEF c, CowInv, FaultOK
      <4>2. Page(f, PFTEMP)' = NULL /\ Page(f, UTEMP)' = NULL
        <5>1. pte'[f][PFTEMP] = pte[f][PFTEMP] /\ pte'[f][UTEMP] = pte[f][UTEMP]
          BY <4>1, Places DEF OneChange
        <5> QED
          BY <1>1, <4>1, <5>1 DEF Page
      <4>3. fault'[f] = fault[f] /\ prog'[f] = prog[f] /\ fault[f].pc = "none"
        BY <1>1, <1>2, <4>1 DEF NoFault, Fault
      <4>4. prog'[f].pc = "new"
        BY <1>1, <4>1, <4>3
      <4> QED
        BY <4>2, <4>3, <4>4 DEF FaultAt
    <3> QED
      BY <3>1, <3>2
  <2>3. CopiesAt(f)'
    <3>1. ~HasChild(f) \/ (g # f /\ g # prog[f].child)
      BY <1>6, <1>7 DEF c
    <3> QED
      BY <1>2, <1>5, <3>1, CopiesOfOthers
  <2> QED
    BY <2>1, <2>2, <2>3
<1>9. ProgAt(e)'
  <2>1. ProgAt(e) /\ Alive(e)
    BY DEF CowInv, ProgOK, HasChild, Passes, Alive
  <2>2. Page(e, Stack)' # NULL
    BY <2>1, Places DEF ProgAt, OneChange, Page
  <2>3. prog'[e].child = c /\ prog'[c] = New
    BY <1>1, <1>2, <2>1 DEF ProgAt, c
  <2>4. fault'[e] = NoFault
    OBVIOUS
  <2>5. Alive(e)'
    BY <1>2 DEF Alive
  <2>6. prog'[e].pc \notin {"unused", "new", "run"}
    BY <1>2
  <2>7. prog'[prog'[e].child] = New /\ prog'[e].child \in Envs
    BY <1>1, <2>3
  <2> QED
    BY <2>2, <2>4, <2>5, <2>6, <2>7 DEF ProgAt
<1> QED
  BY <1>2, <1>3, <1>4, <1>8, <1>9 DEF ProgOK

\* Where the loop of fork or of dumbfork goes from a page it is done with.
NextOf(e) == IF prog[e].pc = "dunmap" THEN DumbNext(e) ELSE NextPage(e)

\* No page that is passed on lies between.
Skips(e, n) ==
  \/ /\ n.pc = IF prog[e].pc = "dunmap" THEN "start" ELSE "xstack"
     /\ \A x \in KeptPlaces(e) : x > prog[e].va => Page(e, x) = NULL
  \/ /\ n.pc = IF prog[e].pc = "dunmap" THEN "dalloc" ELSE "dup"
     /\ n.va \in KeptPlaces(e) /\ n.va > prog[e].va /\ Page(e, n.va) # NULL
     /\ \A x \in KeptPlaces(e) : x > prog[e].va /\ x < n.va => Page(e, x) = NULL

LEMMA NextSkips ==
  ASSUME CowInv, NEW e \in Envs, fault[e] = NoFault, prog[e].pc \in {"dup", "own", "dunmap"}
  PROVE  /\ NextOf(e) \in [pc : Pcs, child : Envs \cup {NULL}, va : VA \cup {NULL}]
         /\ NextOf(e).child = prog[e].child
         /\ NextOf(e).pc \in {"xstack", "start", "dup", "dalloc"}
         /\ Skips(e, NextOf(e))
<1> DEFINE S == From(e, prog[e].va + 1) \cap KeptPlaces(e)
           n == NextOf(e)
           c == prog[e].child
<1>1. Passes(e) /\ HasChild(e) /\ c \in Envs
  BY ChildIsNew DEF Passes, HasChild
<1>2. prog[e].va \in KeptPlaces(e) /\ KeptPlaces(e) \subseteq Image /\ prog[e].va \in VA
  BY <1>1, Places DEF CowInv, CopiesOK, CopiesAt, UpTo, KeptPlaces
<1>3. Page(e, PFTEMP) = NULL
  BY DEF CowInv, FaultOK, FaultAt, NoFault, Fault
<1>4. \A x \in VA : x \in Nat /\ UTEMP \in Nat /\ UTEMP <= x
  BY PlacesAssumption
<1>5. ASSUME NEW x
      PROVE  x \in S <=> x \in KeptPlaces(e) /\ x > prog[e].va /\ Page(e, x) # NULL
  <2>1. CASE x \notin KeptPlaces(e)
    BY <2>1
  <2>2. CASE x \in KeptPlaces(e)
    <3>1. x \in VA /\ x # UXStack
      BY <1>2, <2>2, Places
    <3>2. x \in Nat /\ prog[e].va \in Nat
      BY <1>2, <1>4, <3>1
    <3>3. x \in From(e, prog[e].va + 1) <=> x >= prog[e].va + 1 /\ Page(e, x) # NULL
      BY <3>1 DEF From
    <3> QED
      BY <2>2, <3>2, <3>3
  <2> QED
    BY <2>1, <2>2
<1>6. From(e, prog[e].va + 1) \subseteq Image
  <2> SUFFICES ASSUME NEW x \in From(e, prog[e].va + 1)
               PROVE  x \in Image
    OBVIOUS
  <2>1. x \in VA \ {UXStack} /\ x >= prog[e].va + 1 /\ Page(e, x) # NULL
    BY DEF From
  <2>2. x # UTEMP
    <3>1. x \in Nat /\ prog[e].va \in Nat /\ UTEMP \in Nat /\ UTEMP <= prog[e].va
      BY <1>2, <1>4, <2>1
    <3> QED
      BY <2>1, <3>1
  <2> QED
    BY <1>3, <2>1, <2>2 DEF Image
<1>7. n = IF S = {} THEN Prog(IF prog[e].pc = "dunmap" THEN "start" ELSE "xstack", c, NULL)
          ELSE Prog(IF prog[e].pc = "dunmap" THEN "dalloc" ELSE "dup", c, First(S))
  <2>1. CASE prog[e].pc = "dunmap"
    <3>1. S = From(e, prog[e].va + 1) \ Shared
      BY <1>6, <2>1 DEF KeptPlaces
    <3> QED
      BY <2>1, <3>1 DEF NextOf, DumbNext
  <2>2. CASE prog[e].pc # "dunmap"
    <3>1. S = From(e, prog[e].va + 1)
      BY <1>6, <2>2 DEF KeptPlaces
    <3> QED
      BY <2>2, <3>1 DEF NextOf, NextPage
  <2> QED
    BY <2>1, <2>2
<1> HIDE DEF S, n, c
<1>8. S \subseteq VA
  BY <1>2, <1>5, Places
<1>9. CASE S = {}
  <2>1. n = Prog(IF prog[e].pc = "dunmap" THEN "start" ELSE "xstack", c, NULL)
    BY <1>7, <1>9
  <2>2. n.pc = (IF prog[e].pc = "dunmap" THEN "start" ELSE "xstack") /\ n.child = c /\ n.va = NULL
    BY <2>1 DEF Prog
  <2>3. n \in [pc : Pcs, child : Envs \cup {NULL}, va : VA \cup {NULL}]
    BY <1>1, <2>1 DEF Prog, Pcs
  <2>4. Skips(e, n)
    BY <1>5, <1>9, <2>2 DEF Skips
  <2> QED
    BY <2>2, <2>3, <2>4 DEF n, c
<1>10. CASE S # {}
  <2>1. First(S) \in S /\ \A y \in S : First(S) <= y
    BY <1>8, <1>10, FirstPlace
  <2>2. n = Prog(IF prog[e].pc = "dunmap" THEN "dalloc" ELSE "dup", c, First(S))
    BY <1>7, <1>10
  <2>3. n.pc = (IF prog[e].pc = "dunmap" THEN "dalloc" ELSE "dup") /\ n.child = c /\ n.va = First(S)
    BY <2>2 DEF Prog
  <2>4. n \in [pc : Pcs, child : Envs \cup {NULL}, va : VA \cup {NULL}]
    BY <1>1, <1>8, <2>1, <2>2 DEF Prog, Pcs
  <2>5. \A x \in KeptPlaces(e) : x > prog[e].va /\ x < First(S) => Page(e, x) = NULL
    <3> SUFFICES ASSUME NEW x \in KeptPlaces(e), x > prog[e].va, x < First(S), Page(e, x) # NULL
                 PROVE  FALSE
      OBVIOUS
    <3>1. x \in S
      BY <1>5
    <3>2. x \in Nat /\ First(S) \in Nat
      BY <1>4, <1>8, <2>1, <3>1
    <3> QED
      BY <2>1, <3>1, <3>2
  <2>6. Skips(e, n)
    BY <1>5, <2>1, <2>3, <2>5 DEF Skips
  <2> QED
    BY <2>3, <2>4, <2>6 DEF n, c
<1> QED
  BY <1>9, <1>10

\* When the page it is at is copied, the child is complete up to the next one.
LEMMA NextKeeps ==
  ASSUME CowInv, NEW e \in Envs, prog[e].pc \in {"dup", "own", "dunmap"},
         NEW n, prog'[e] = n, n.child = prog[e].child, Skips(e, n),
         NEW c \in {prog[e].child}, NEW kept \in {KeptPlaces(e)}, NEW va \in {prog[e].va},
         \A x \in Image : Page(e, x)' = Page(e, x),
         \A x \in Image : x <= va => Copied(e, c, x, kept)',
         \A x \in Image : x > va => Page(c, x)' = NULL
  PROVE  CopiesAt(e)'
<1>1. va \in kept /\ kept \subseteq Image /\ va \in VA
  <2>1. Passes(e)
    BY DEF Passes
  <2> QED
    BY <2>1, Places DEF CowInv, CopiesOK, CopiesAt, UpTo, KeptPlaces
<1>2. \A x \in VA : x \in Nat
  BY PlacesAssumption
<1>3. kept = IF prog[e].pc = "dunmap" THEN Image \ Shared ELSE Image
  BY DEF KeptPlaces
<1>4. CASE n.pc \in {"start", "xstack"}
  <2>1. /\ n.pc = IF prog[e].pc = "dunmap" THEN "start" ELSE "xstack"
        /\ \A x \in kept : x > va => Page(e, x) = NULL
    BY <1>4 DEF Skips
  <2>2. ASSUME NEW x \in Image
        PROVE  Copied(e, c, x, kept)'
    <3>1. CASE x <= va
      BY <2>2, <3>1
    <3>2. CASE x > va
      BY <2>1, <3>2 DEF Copied
    <3> QED
      BY <1>1, <1>2, <3>1, <3>2, Places
  <2>3. CopiedAll(e, c, kept)'
    BY <2>2 DEF CopiedAll
  <2> QED
    BY <1>3, <2>1, <2>3 DEF CopiesAt, Passes
<1>5. CASE n.pc \in {"dup", "dalloc"}
  <2>1. /\ n.pc = IF prog[e].pc = "dunmap" THEN "dalloc" ELSE "dup"
        /\ n.va \in kept /\ n.va > va /\ Page(e, n.va) # NULL
        /\ \A x \in kept : x > va /\ x < n.va => Page(e, x) = NULL
    BY <1>5 DEF Skips
  <2>2. KeptPlaces(e)' = kept
    BY <1>3, <2>1 DEF KeptPlaces
  <2>3. ASSUME NEW x \in Image, x < n.va
        PROVE  Copied(e, c, x, kept)'
    <3>1. CASE x <= va
      BY <2>3, <3>1
    <3>2. CASE x > va
      BY <2>1, <2>3, <3>2 DEF Copied
    <3> QED
      BY <1>1, <1>2, <3>1, <3>2, Places
  <2>4. ASSUME NEW x \in Image, x >= n.va
        PROVE  Page(c, x)' = NULL
    <3>1. x \in Nat /\ n.va \in Nat /\ va \in Nat
      BY <1>1, <1>2, <2>1, Places
    <3> QED
      BY <2>1, <2>4, <3>1
  <2>5. n.va \in Nat /\ n.va \in Image
    BY <1>1, <1>2, <2>1, Places
  <2>6. UpTo(e, c)'
    <3>1. \A x \in Image : x > n.va => x >= n.va
      BY <1>2, <2>5, Places
    <3> QED
      BY <2>1, <2>2, <2>3, <2>4, <2>5, <3>1 DEF UpTo
  <2>7. Here(e, c, n.va)'
    BY <2>1, <2>4, <2>5 DEF Here
  <2> QED
    BY <1>5, <2>6, <2>7 DEF CopiesAt
<1> QED
  BY <1>4, <1>5 DEF Skips

\* The pages of e and of its child, but for the one it is at.
LEMMA BesidesStay ==
  ASSUME CowInv, NEW e \in Envs, Passes(e),
         NEW c \in {prog[e].child}, NEW kept \in {KeptPlaces(e)}, NEW va \in {prog[e].va},
         NEW q, SameContents(q),
         \A x \in Image \ {va} : /\ pte'[e][x] = pte[e][x] /\ pte'[c][x] = pte[c][x]
                                 /\ Page(e, x) = q => q = NULL
                                 /\ Page(c, x) = q => q = NULL
  PROVE  \A x \in Image : /\ x < va => Copied(e, c, x, kept)'
                          /\ x > va => Page(c, x)' = NULL
<1> SUFFICES ASSUME NEW x \in Image
             PROVE  /\ x < va => Copied(e, c, x, kept)'
                    /\ x > va => Page(c, x)' = NULL
  OBVIOUS
<1>1. UpTo(e, c)
  BY DEF CowInv, CopiesOK, CopiesAt
<1>2. va \in Nat /\ x \in Nat /\ x \in VA
  <2>1. va \in Image
    BY <1>1 DEF UpTo, KeptPlaces
  <2> QED
    BY <2>1, Places, PlacesAssumption
<1>3. c \in Envs
  BY ChildIsNew DEF HasChild
<1>4. SUFFICES ASSUME x # va
               PROVE  /\ x < va => Copied(e, c, x, kept)'
                      /\ x > va => Page(c, x)' = NULL
  BY <1>2
<1>5. Page(e, x)' = Page(e, x) /\ Page(c, x)' = Page(c, x)
  BY <1>4 DEF Page
<1>6. /\ Page(e, x) # NULL => data'[Page(e, x)] = data[Page(e, x)]
      /\ Page(c, x) # NULL => data'[Page(c, x)] = data[Page(c, x)]
  BY <1>2, <1>3, <1>4 DEF SameContents, Page
<1>7. x < va => Copied(e, c, x, kept)
  BY <1>1 DEF UpTo
<1>8. x > va => Page(c, x) = NULL
  BY <1>1 DEF UpTo
<1>9. x < va => (Lacks(c, x, kept) => Lacks(c, x, kept)')
  <2>1. \A y \in Below(x) : y \in Image /\ y \in Nat /\ y <= x
    BY Places, PlacesAssumption DEF Below
  <2>2. x < va => \A y \in Below(x) : Page(c, y)' = Page(c, y)
    BY <1>2, <2>1 DEF Page
  <2> QED
    BY <2>2 DEF Lacks
<1>10. x < va /\ Copied(e, c, x, kept) => Copied(e, c, x, kept)'
  BY <1>5, <1>6, <1>9 DEF Copied
<1> QED
  BY <1>5, <1>7, <1>8, <1>10

\* Who else has the page that fork is passing on.
LEMMA WhoHas ==
  ASSUME CowInv, NEW e \in Envs, fault[e] = NoFault, prog[e].pc \in {"dup", "own"},
         NEW va \in Image, Page(e, va) # NULL,
         NEW f \in Envs, NEW x \in VA, Page(f, x) = Page(e, va), f # e \/ x # va
  PROVE  /\ x = va /\ f # e
         /\ \/ va \in Shared
            \/ ~Writable(f, va) /\ (prog[e].pc = "dup" => ~Writable(e, va))
<1>1. Fine(e, f, va, x)
  BY Places DEF CowInv, SharingOK
<1>2. \A h \in Envs : HasChild(h) => prog[h].child # e
  BY ChildIsNew
<1>3. ~Moved(e, va, x) /\ ~Moved(e, x, va)
  BY DEF Moved, NoFault, Fault
<1>4. ~Filling(e, f, va, x) /\ ~Filling(f, e, x, va) /\ ~Giving(f, e, va)
  BY <1>2, Places DEF Filling, Giving, HasChild, Passes
<1>5. Giving(e, f, va) => prog[e].pc = "own" /\ ~Writable(f, va)
  BY DEF Giving
<1> QED
  BY <1>1, <1>3, <1>4, <1>5 DEF Fine

\* The page goes to the child.
Pass(e) ==
  LET va == prog[e].va
  IN  /\ At(e, "dup")
      /\ Remap(Mapped(prog[e].child, va, Page(e, va), DupPerm(e, va)))
      /\ Goto(e, IF "COW" \in DupPerm(e, va) THEN [prog[e] EXCEPT !.pc = "own"] ELSE NextPage(e))
      /\ UNCHANGED <<fault, forks, panic>>

\* Or fork goes on without it, when it is read-only.
Lose(e) ==
  LET va == prog[e].va
  IN  /\ At(e, "dup") /\ DupPerm(e, va) = {} /\ NoTable(prog[e].child, va)
      /\ Goto(e, NextPage(e))
      /\ UNCHANGED <<pte, data, fault, forks, panic>>

LEMMA DupPageIs ==
  ASSUME NEW e \in Envs, DupPage(e)
  PROVE  Pass(e) \/ Lose(e)
BY DEF DupPage, DupOrder, Pass, Lose

LEMMA PassKeeps ==
  ASSUME CowInv, NEW e \in Envs, Pass(e)
  PROVE  CowInv'
<1>a. PICK c \in {prog[e].child}, va \in {prog[e].va}, pg \in {Page(e, prog[e].va)},
           perm \in {DupPerm(e, prog[e].va)},
           n \in {IF "COW" \in DupPerm(e, prog[e].va) THEN [prog[e] EXCEPT !.pc = "own"]
                                                      ELSE NextPage(e)} :
        TRUE
  OBVIOUS
<1>1. /\ prog[e].pc = "dup" /\ fault[e] = NoFault /\ Remap(Mapped(c, va, pg, perm))
      /\ prog' = [prog EXCEPT ![e] = n] /\ UNCHANGED <<fault, forks, panic>>
  BY <1>a DEF Pass, At, Goto
<1>2. Passes(e) /\ HasChild(e) /\ KeptPlaces(e) = Image
  BY <1>1 DEF Passes, HasChild, KeptPlaces
<1>3. /\ va \in Image /\ va \in VA /\ pg # NULL /\ Page(e, va) = pg /\ pte[c][va].page = NULL
      /\ UpTo(e, c)
  BY <1>1, <1>2, <1>a, Places DEF CowInv, CopiesOK, CopiesAt, UpTo, Here, Page
<1>4. c \in Envs /\ c # e /\ prog[e].child = c /\ prog[e].va = va
  BY <1>2, <1>a, ChildIsNew
<1>5. \/ va \in Shared /\ perm = {"W", "SHARE"}
      \/ va \notin Shared /\ perm = {} /\ ~Writable(e, va) /\ va \in Text
      \/ va \notin Shared /\ perm = {"COW"}
  <2>1. perm = DupPerm(e, va)
    BY <1>a
  <2>2. CASE va \in Shared
    <3>1. Perm(e, va) = {"W", "SHARE"}
      BY <1>3, <2>2 DEF CowInv, PermsOK
    <3> QED
      BY <2>1, <2>2, <3>1 DEF DupPerm
  <2>3. CASE va \notin Shared
    <3>1. Perm(e, va) \in {{}, {"W"}, {"COW"}} /\ (Perm(e, va) = {} => va \in Text)
      BY <1>3, <2>3 DEF CowInv, PermsOK
    <3> QED
      BY <2>1, <2>3, <3>1 DEF DupPerm, Writable
  <2> QED
    BY <2>2, <2>3
<1>6. pg \in InUse(pte)
  BY <1>3, InUseIs DEF Page
<1>7. MapTypes' /\ OneChange(c, va, pg, perm) /\ SameContents(NULL)
  <2>1. perm \in SUBSET Flags
    BY <1>5 DEF Flags
  <2> QED
    BY <1>1, <1>3, <1>4, <1>6, <2>1, RemapFrame DEF CowInv
<1>8. /\ n \in [pc : Pcs, child : Envs \cup {NULL}, va : VA \cup {NULL}] /\ n.child = c
      /\ n.pc \in {"dup", "own", "xstack", "start", "dalloc"}
      /\ perm = {"COW"} => n.pc = "own" /\ n.va = va
      /\ perm # {"COW"} => Skips(e, n)
  <2>1. CASE perm = {"COW"}
    <3>1. n = [prog[e] EXCEPT !.pc = "own"]
      BY <1>a, <2>1
    <3>2. prog[e] \in [pc : Pcs, child : Envs \cup {NULL}, va : VA \cup {NULL}]
      BY DEF CowInv, CowTypes
    <3> QED
      BY <1>4, <2>1, <3>1, <3>2 DEF Pcs
  <2>2. CASE perm # {"COW"}
    <3>1. "COW" \notin perm
      BY <1>5, <2>2
    <3>2. n = NextOf(e)
      BY <1>1, <1>a, <3>1 DEF NextOf
    <3> QED
      BY <1>1, <1>4, <2>2, <3>2, NextSkips
  <2> QED
    BY <2>1, <2>2
<1>9. Fresh(NULL)
  BY DEF Fresh
<1>10. /\ CowTypes' /\ ProgOK' /\ OneParent'
       /\ prog'[e] = n /\ \A f \in Envs \ {e} : prog'[f] = prog[f]
       /\ \A f \in Envs \ {e} : FaultAt(f)' /\ CopiesAt(f)'
  <2>1. c \in {e, prog[e].child} /\ va \notin {PFTEMP, UTEMP}
    BY <1>3, <1>4, Places
  <2>2. Works(e, n)
    BY <1>1, <1>2, <1>4, <1>8 DEF Works
  <2>3. Changes(c, va, pg, perm, NULL)
    BY <1>7, <1>9 DEF Changes
  <2>4. /\ va = Stack => pg # NULL
        /\ c # e => va \notin {PFTEMP, UTEMP}
        /\ va \in VA
    BY <1>3, <2>1
  <2> QED
    BY <2>1, <2>2, <2>3, <2>4, WorkKeeps, Zenon
<1>11. FaultAt(e)'
  BY <1>1, <1>3, <1>4, <1>7, <1>8, <1>9, <1>10, FaultOfOthers DEF NoFault, Fault
<1>12. PermsOK' /\ SharedIsOne'
  <2>1. IF va \in Shared THEN pg # NULL => perm = {"W", "SHARE"} ELSE perm \in {{}, {"W"}, {"COW"}}
    BY <1>5
  <2>2. va \in Shared /\ pg # NULL => \A f \in Envs : Page(f, va) # NULL => Page(f, va) = pg
    BY <1>3 DEF CowInv, SharedIsOne
  <2> QED
    BY <1>3, <1>4, <1>5, <1>7, <2>1, <2>2, PermsStay
<1>13. Outlast(c, va)
  BY <1>1, <1>10 DEF Outlast
<1>14. SharingOK'
  <2>1. ASSUME NEW f \in Envs, NEW x \in VA, Page(f, x)' = pg
        PROVE  Fine(c, f, va, x)'
    <3>1. pte'[c][va].perm = perm
      BY <1>7 DEF OneChange
    <3>2. va \in Shared \/ ~Writable(c, va)'
      BY <1>5, <3>1 DEF Writable, Perm
    <3>3. CASE f = c /\ x = va
      BY <3>3 DEF Fine
    <3>4. CASE f = e /\ x = va
      <4>1. pte'[e][va] = pte[e][va]
        BY <1>3, <1>4, <1>7 DEF OneChange
      <4>2. Writable(e, va)' <=> Writable(e, va)
        BY <4>1 DEF Writable, Perm
      <4>3. perm = {"COW"} /\ va \notin Shared => Giving(e, c, va)'
        BY <1>8, <1>10, <3>2 DEF Giving
      <4> QED
        BY <1>3, <1>4, <1>5, <3>2, <3>4, <4>2, <4>3 DEF Fine
    <3>5. CASE (f # c \/ x # va) /\ (f # e \/ x # va)
      <4>1. pte'[f][x] = pte[f][x]
        BY <1>7, <3>5 DEF OneChange
      <4>2. Page(f, x) = Page(e, va)
        BY <1>3, <2>1, <4>1 DEF Page
      <4>3. x = va /\ f # e /\ (va \in Shared \/ ~Writable(f, va))
        BY <1>1, <1>3, <3>5, <4>2, WhoHas
      <4>4. Writable(f, va)' <=> Writable(f, va)
        BY <4>1, <4>3 DEF Writable, Perm
      <4>5. f # c
        BY <3>5, <4>3
      <4> QED
        BY <1>3, <3>2, <4>3, <4>4, <4>5 DEF Fine
    <3> QED
      BY <3>3, <3>4, <3>5
  <2> QED
    BY <1>3, <1>4, <1>7, <1>13, <2>1, SharingStays
<1>15. CopiesAt(e)'
  <2>1. \A x \in Image : /\ x < va => Copied(e, c, x, Image)'
                         /\ x > va => Page(c, x)' = NULL
    <3>1. \A x \in Image \ {va} : /\ pte'[e][x] = pte[e][x] /\ pte'[c][x] = pte[c][x]
                                  /\ Page(e, x) = NULL => NULL = NULL
                                  /\ Page(c, x) = NULL => NULL = NULL
      BY <1>4, <1>7, Places DEF OneChange
    <3>2. Image \in {KeptPlaces(e)} /\ c \in {prog[e].child} /\ va \in {prog[e].va}
      BY <1>2, <1>4
    <3> QED
      BY <1>2, <1>7, <3>1, <3>2, BesidesStay
  <2>2. \A x \in Image : Page(e, x)' = Page(e, x)
    BY <1>4, <1>7, Places DEF OneChange, Page
  <2>3. Page(c, va)' = pg /\ Page(e, va)' = pg
    BY <1>3, <1>7, <2>2 DEF OneChange, Page
  <2>4. Copied(e, c, va, Image)'
    BY <1>3, <2>3 DEF Copied
  <2>5. CASE perm = {"COW"}
    <3>1. n.pc = "own" /\ n.va = va /\ va \notin Shared
      BY <1>5, <1>8, <2>5
    <3>2. KeptPlaces(e)' = Image /\ prog'[e].va = va /\ prog'[e].child = c
      BY <1>8, <1>10, <3>1 DEF KeptPlaces
    <3>3. UpTo(e, c)'
      BY <1>3, <2>1, <2>3, <3>2 DEF UpTo
    <3>4. Here(e, c, va)'
      BY <1>10, <2>4, <3>1, <3>2 DEF Here
    <3> QED
      BY <1>10, <3>1, <3>2, <3>3, <3>4 DEF CopiesAt
  <2>6. CASE perm # {"COW"}
    <3>1. \A x \in Image : x <= va => Copied(e, c, x, Image)'
      <4>1. \A x \in Image : x \in Nat /\ va \in Nat
        BY <1>3, Places, PlacesAssumption
      <4>2. \A x \in Image : x <= va => x < va \/ x = va
        BY <4>1
      <4> QED
        BY <2>1, <2>4, <4>2
    <3>2. Image \in {KeptPlaces(e)} /\ c \in {prog[e].child} /\ va \in {prog[e].va}
      BY <1>2, <1>4
    <3>3. n.child = prog[e].child /\ Skips(e, n) /\ prog[e].pc \in {"dup", "own", "dunmap"}
      BY <1>1, <1>4, <1>8, <2>6
    <3> QED
      BY <1>10, <2>1, <2>2, <3>1, <3>2, <3>3, NextKeeps
  <2> QED
    BY <2>5, <2>6
<1> QED
  BY <1>10, <1>11, <1>12, <1>14, <1>15 DEF CowInv, FaultOK, CopiesOK

\* The child does without a read-only page.
LEMMA LoseKeeps ==
  ASSUME CowInv, NEW e \in Envs, Lose(e)
  PROVE  CowInv'
<1>a. PICK c \in {prog[e].child}, va \in {prog[e].va}, n \in {NextPage(e)} : TRUE
  OBVIOUS
<1>1. /\ prog[e].pc = "dup" /\ fault[e] = NoFault /\ prog' = [prog EXCEPT ![e] = n]
      /\ DupPerm(e, va) = {} /\ NoTable(c, va)
      /\ UNCHANGED <<pte, data, fault, forks, panic>>
  BY <1>a DEF Lose, At, Goto
<1>2. Passes(e) /\ HasChild(e) /\ Alive(e) /\ KeptPlaces(e) = Image
  BY <1>1 DEF Passes, HasChild, Alive, KeptPlaces
<1>3. c \in Envs /\ c # e /\ prog[e].child = c /\ prog[e].va = va
  BY <1>2, <1>a, ChildIsNew
<1>4. va \in Image /\ va \in VA /\ Page(e, va) # NULL /\ UpTo(e, c)
  BY <1>2, <1>3, Places DEF CowInv, CopiesOK, CopiesAt, UpTo
<1>5. va \in Text
  <2>1. Perm(e, va) \cap {"W", "COW", "SHARE"} = {}
    <3>1. Perm(e, va) \in SUBSET Flags
      BY <1>4 DEF CowInv, CowTypes, Perm
    <3> QED
      BY <1>1, <3>1 DEF DupPerm, Flags
  <2>2. va \notin Shared
    BY <1>4, <2>1 DEF CowInv, PermsOK
  <2>3. Perm(e, va) = {}
    BY <1>4, <2>1, <2>2 DEF CowInv, PermsOK
  <2> QED
    BY <1>4, <2>2, <2>3 DEF CowInv, PermsOK
<1>6. Lacks(c, va, Image)
  BY <1>1, <1>4, <1>5, Places DEF NoTable, Lacks, Below
<1>7. /\ n \in [pc : Pcs, child : Envs \cup {NULL}, va : VA \cup {NULL}] /\ n.child = c
      /\ n.pc \in {"xstack", "start", "dup", "dalloc"} /\ Skips(e, n)
  <2>1. n = NextOf(e)
    BY <1>1, <1>a DEF NextOf
  <2> QED
    BY <1>1, <1>3, <2>1, NextSkips
<1>8. /\ CowTypes' /\ ProgOK' /\ OneParent'
      /\ prog'[e] = n /\ \A f \in Envs \ {e} : prog'[f] = prog[f]
      /\ \A f \in Envs \ {e} : FaultAt(f)' /\ CopiesAt(f)'
  <2>1. Works(e, n)
    BY <1>1, <1>2, <1>3, <1>7 DEF Works
  <2>2. Changes(e, Stack, Page(e, Stack), Perm(e, Stack), NULL)
    BY <1>1, Places
       DEF Changes, MapTypes, CowInv, CowTypes, OneChange, SameContents, Fresh, Page, Perm
  <2>3. Page(e, Stack) # NULL
    BY <1>2 DEF CowInv, ProgOK, ProgAt
  <2>4. e \in {e, prog[e].child} /\ Stack \in VA
    BY Places
  <2> QED
    BY <2>1, <2>2, <2>3, <2>4, WorkKeeps, Zenon
<1>9. FaultAt(e)'
  BY <1>1, <1>7, <1>8 DEF CowInv, FaultOK, FaultAt, Page, NoFault, Fault
<1>10. Outlast(NULL, NULL)
  BY <1>1, <1>8 DEF Outlast
<1>11. SharingOK' /\ SharedIsOne' /\ PermsOK'
  BY <1>1, <1>10, SharingSame
<1>12. CopiesAt(e)'
  <2>1. Image \in {KeptPlaces(e)} /\ c \in {prog[e].child} /\ va \in {prog[e].va}
    BY <1>2, <1>3
  <2>2. \A x \in Image : Page(e, x)' = Page(e, x) /\ Page(c, x)' = Page(c, x)
    BY <1>1 DEF Page
  <2>3. Copied(e, c, va, Image)
    <3>1. Page(c, va) = NULL
      BY <1>1, <1>4 DEF NoTable
    <3> QED
      BY <1>6, <3>1 DEF Copied
  <2>4. ASSUME NEW x \in Image, x <= va
        PROVE  Copied(e, c, x, Image)'
    <3>1. x \in Nat /\ va \in Nat
      BY <1>4, Places, PlacesAssumption
    <3>2. Copied(e, c, x, Image)
      <4>1. CASE x = va
        BY <2>3, <4>1
      <4>2. CASE x < va
        BY <1>2, <1>3, <1>4, <4>2 DEF UpTo
      <4> QED
        BY <2>4, <3>1, <4>1, <4>2
    <3> QED
      BY <1>1, <3>2 DEF Copied, Lacks, Page
  <2>5. \A x \in Image : x > va => Page(c, x)' = NULL
    BY <1>3, <1>4, <2>2 DEF UpTo
  <2>6. n.child = prog[e].child /\ Skips(e, n) /\ prog[e].pc \in {"dup", "own", "dunmap"}
    BY <1>1, <1>3, <1>7
  <2> QED
    BY <1>8, <2>1, <2>2, <2>4, <2>5, <2>6, NextKeeps
<1> QED
  BY <1>8, <1>9, <1>11, <1>12 DEF CowInv, FaultOK, CopiesOK

LEMMA DupPageKeeps ==
  ASSUME CowInv, NEW e \in Envs, DupPage(e)
  PROVE  CowInv'
BY DupPageIs, PassKeeps, LoseKeeps

\* Its own page becomes copy-on-write, too.
LEMMA DupOwnKeeps ==
  ASSUME CowInv, NEW e \in Envs, DupOwn(e)
  PROVE  CowInv'
<1>a. PICK c \in {prog[e].child}, va \in {prog[e].va}, pg \in {Page(e, prog[e].va)},
           n \in {NextPage(e)} :
        TRUE
  OBVIOUS
<1>1. /\ prog[e].pc = "own" /\ fault[e] = NoFault /\ Remap(Mapped(e, va, pg, {"COW"}))
      /\ prog' = [prog EXCEPT ![e] = n] /\ UNCHANGED <<fault, forks, panic>>
  BY <1>a DEF DupOwn, At, Goto, DupOrder
<1>2. Passes(e) /\ HasChild(e) /\ KeptPlaces(e) = Image
  BY <1>1 DEF Passes, HasChild, KeptPlaces
<1>3. /\ va \in Image /\ va \in VA /\ pg # NULL /\ Page(e, va) = pg /\ va \notin Shared
      /\ Copied(e, c, va, Image)
  BY <1>1, <1>2, <1>a, Places DEF CowInv, CopiesOK, CopiesAt, UpTo, Here, Page
<1>4. c \in Envs /\ c # e /\ prog[e].child = c /\ prog[e].va = va
  BY <1>2, <1>a, ChildIsNew
<1>5. pg \in InUse(pte)
  BY <1>3, InUseIs DEF Page
<1>6. MapTypes' /\ OneChange(e, va, pg, {"COW"}) /\ SameContents(NULL)
  BY <1>1, <1>3, <1>5, RemapFrame DEF CowInv, Flags
<1>7. n \in [pc : Pcs, child : Envs \cup {NULL}, va : VA \cup {NULL}]
      /\ n.child = c /\ n.pc \in {"xstack", "start", "dup", "dalloc"} /\ Skips(e, n)
  <2>1. n = NextOf(e)
    BY <1>1, <1>a DEF NextOf
  <2> QED
    BY <1>1, <1>4, <2>1, NextSkips
<1>8. Fresh(NULL)
  BY DEF Fresh
<1>9. /\ CowTypes' /\ ProgOK' /\ OneParent'
      /\ prog'[e] = n /\ \A f \in Envs \ {e} : prog'[f] = prog[f]
      /\ \A f \in Envs \ {e} : FaultAt(f)' /\ CopiesAt(f)'
  <2>1. e \in {e, prog[e].child}
    OBVIOUS
  <2>2. Works(e, n)
    BY <1>1, <1>2, <1>4, <1>7 DEF Works
  <2>3. Changes(e, va, pg, {"COW"}, NULL)
    BY <1>6, <1>8 DEF Changes
  <2>4. /\ va = Stack => pg # NULL
        /\ e # e => va \notin {PFTEMP, UTEMP}
        /\ va \in VA
    BY <1>3, <2>1
  <2> QED
    BY <2>1, <2>2, <2>3, <2>4, WorkKeeps, Zenon
<1>10. FaultAt(e)'
  <2>1. pg = Page(e, va) /\ fault[e].pc = "none" /\ fault'[e] = fault[e]
    BY <1>1, <1>3 DEF NoFault, Fault
  <2>2. prog'[e].pc \in {"dcopy", "dunmap"} <=> prog[e].pc \in {"dcopy", "dunmap"}
    BY <1>1, <1>7, <1>9
  <2> QED
    BY <1>3, <1>6, <1>8, <2>1, <2>2, FaultOfOthers
<1>11. PermsOK' /\ SharedIsOne'
  BY <1>3, <1>6, PermsStay
<1>12. Outlast(e, va)
  BY <1>1, <1>4, <1>9 DEF Outlast
<1>13. SharingOK'
  <2>1. ASSUME NEW f \in Envs, NEW x \in VA, Page(f, x)' = pg
        PROVE  Fine(e, f, va, x)'
    <3>1. pte'[e][va].perm = {"COW"}
      BY <1>6 DEF OneChange
    <3>2. ~Writable(e, va)'
      BY <3>1 DEF Writable, Perm
    <3>3. CASE f = e /\ x = va
      BY <3>3 DEF Fine
    <3>4. CASE f # e \/ x # va
      <4>1. pte'[f][x] = pte[f][x]
        BY <1>6, <3>4 DEF OneChange
      <4>2. Page(f, x) = Page(e, va)
        BY <1>3, <2>1, <4>1 DEF Page
      <4>3. x = va /\ f # e /\ ~Writable(f, va)
        BY <1>1, <1>3, <3>4, <4>2, WhoHas
      <4>4. Writable(f, va)' <=> Writable(f, va)
        BY <4>1, <4>3 DEF Writable, Perm
      <4> QED
        BY <1>3, <3>2, <4>3, <4>4 DEF Fine
    <3> QED
      BY <3>3, <3>4
  <2> QED
    BY <1>3, <1>6, <1>12, <2>1, SharingStays
<1>14. CopiesAt(e)'
  <2>1. Image \in {KeptPlaces(e)} /\ c \in {prog[e].child} /\ va \in {prog[e].va}
    BY <1>2, <1>4
  <2>2. \A x \in Image : /\ x < va => Copied(e, c, x, Image)'
                         /\ x > va => Page(c, x)' = NULL
    <3>1. \A x \in Image \ {va} : /\ pte'[e][x] = pte[e][x] /\ pte'[c][x] = pte[c][x]
                                  /\ Page(e, x) = NULL => NULL = NULL
                                  /\ Page(c, x) = NULL => NULL = NULL
      BY <1>4, <1>6, Places DEF OneChange
    <3> QED
      BY <1>2, <1>6, <2>1, <3>1, BesidesStay
  <2>3. \A x \in Image : Page(e, x)' = Page(e, x) /\ Page(c, x)' = Page(c, x)
    BY <1>3, <1>4, <1>6, Places DEF OneChange, Page
  <2>4. Copied(e, c, va, Image)'
    <3>1. /\ data'[Page(e, va)] = data[Page(e, va)]
          /\ Page(c, va) # NULL => data'[Page(c, va)] = data[Page(c, va)]
      BY <1>3, <1>4, <1>6, <2>3 DEF SameContents, Page
    <3>2. Lacks(c, va, Image) => Lacks(c, va, Image)'
      BY <2>3 DEF Lacks, Below
    <3> QED
      BY <1>3, <2>3, <3>1, <3>2 DEF Copied
  <2>5. \A x \in Image : x <= va => Copied(e, c, x, Image)'
    <3>1. \A x \in Image : x \in Nat /\ va \in Nat
      BY <1>3, Places, PlacesAssumption
    <3>2. \A x \in Image : x <= va => x < va \/ x = va
      BY <3>1
    <3> QED
      BY <2>2, <2>4, <3>2
  <2>6. n.child = prog[e].child /\ Skips(e, n) /\ prog[e].pc \in {"dup", "own", "dunmap"}
    BY <1>1, <1>4, <1>7
  <2> QED
    BY <1>9, <2>1, <2>2, <2>3, <2>5, <2>6, NextKeeps
<1> QED
  BY <1>9, <1>10, <1>11, <1>13, <1>14 DEF CowInv, FaultOK, CopiesOK

\* The child gets an exception stack.
LEMMA GiveStackKeeps ==
  ASSUME CowInv, NEW e \in Envs, GiveStack(e)
  PROVE  CowInv'
<1>a. PICK c \in {prog[e].child}, n \in {[prog[e] EXCEPT !.pc = "start"]} : TRUE
  OBVIOUS
<1>1. /\ prog[e].pc = "xstack" /\ fault[e] = NoFault /\ Alloc(c, UXStack, UXStack)
      /\ prog' = [prog EXCEPT ![e] = n] /\ UNCHANGED <<fault, forks, panic>>
  BY <1>a DEF GiveStack, At, Goto
<1>2. HasChild(e) /\ CopiedAll(e, c, Image)
  BY <1>1, <1>a DEF HasChild, CowInv, CopiesOK, CopiesAt
<1>3. c \in Envs /\ c # e /\ prog[e].child = c
  BY <1>2, <1>a, ChildIsNew
<1>4. PICK pg \in Frames :
        /\ pg # NULL /\ \A f \in Envs, x \in VA : pte[f][x].page # pg
        /\ MapTypes' /\ OneChange(c, UXStack, pg, {"W"}) /\ SameContents(pg)
  BY <1>1, <1>3, Places, AllocFrame DEF CowInv
<1>5. n \in [pc : Pcs, child : Envs \cup {NULL}, va : VA \cup {NULL}]
      /\ n.child = c /\ n.pc = "start"
  <2>1. prog[e] \in [pc : Pcs, child : Envs \cup {NULL}, va : VA \cup {NULL}]
    BY DEF CowInv, CowTypes
  <2> QED
    BY <1>3, <1>a, <2>1 DEF Pcs
<1>6. Fresh(pg)
  BY <1>4 DEF Fresh, Page
<1>7. /\ CowTypes' /\ ProgOK' /\ OneParent'
      /\ prog'[e] = n /\ \A f \in Envs \ {e} : prog'[f] = prog[f]
      /\ \A f \in Envs \ {e} : FaultAt(f)' /\ CopiesAt(f)'
  <2>1. c \in {e, prog[e].child}
    BY <1>3
  <2>2. Works(e, n)
    BY <1>1, <1>2, <1>3, <1>5 DEF Works
  <2>3. Changes(c, UXStack, pg, {"W"}, pg)
    BY <1>4, <1>6 DEF Changes
  <2>4. /\ UXStack = Stack => pg # NULL
        /\ c # e => UXStack \notin {PFTEMP, UTEMP}
        /\ UXStack \in VA
    BY <1>4, Places
  <2> QED
    BY <2>1, <2>2, <2>3, <2>4, WorkKeeps, Zenon
<1>8. FaultAt(e)'
  <2>1. fault[e].pc = "none" /\ fault'[e] = fault[e]
    BY <1>1 DEF NoFault, Fault
  <2>2. prog'[e].pc \in {"dcopy", "dunmap"} <=> prog[e].pc \in {"dcopy", "dunmap"}
    BY <1>1, <1>5, <1>7
  <2> QED
    BY <1>3, <1>4, <1>6, <2>1, <2>2, Places, FaultOfOthers
<1>9. PermsOK' /\ SharedIsOne'
  BY <1>3, <1>4, Places, PermsStay
<1>10. Outlast(c, UXStack)
  BY <1>1, <1>7 DEF Outlast
<1>11. SharingOK'
  <2>1. \A f \in Envs, x \in VA : Page(f, x)' = pg => Fine(c, f, UXStack, x)'
    BY <1>4 DEF OneChange, Page, Fine
  <2> QED
    BY <1>3, <1>4, <1>10, <2>1, Places, SharingStays
<1>12. CopiesAt(e)'
  <2>1. \A x \in Image : pte'[e][x] = pte[e][x] /\ pte'[c][x] = pte[c][x]
    BY <1>3, <1>4, Places DEF OneChange
  <2>2. \A x \in Image : /\ Page(e, x) # NULL => data'[Page(e, x)] = data[Page(e, x)]
                         /\ Page(c, x) # NULL => data'[Page(c, x)] = data[Page(c, x)]
    BY <1>3, <1>4, <2>1, Places DEF SameContents, Page
  <2>3. \A x \in Image : Lacks(c, x, Image) => Lacks(c, x, Image)'
    BY <2>1 DEF Lacks, Below, Page
  <2>4. CopiedAll(e, c, Image)'
    BY <1>2, <2>1, <2>2, <2>3 DEF CopiedAll, Copied, Page
  <2> QED
    BY <1>5, <1>7, <2>4 DEF CopiesAt, Passes
<1> QED
  BY <1>7, <1>8, <1>9, <1>11, <1>12 DEF CowInv, FaultOK, CopiesOK

-----------------------------------------------------------------------------
\* The page that dumbfork fills is the child's, and nobody else has it.
LEMMA FillsAlone ==
  ASSUME CowInv, NEW e \in Envs, prog[e].pc \in {"dmap", "dcopy"},
         NEW c \in {prog[e].child}, NEW va \in {prog[e].va},
         NEW f \in Envs, NEW x \in VA, Page(f, x) = Page(c, va)
  PROVE  (f = c /\ x = va) \/ (prog[e].pc = "dcopy" /\ f = e /\ x = UTEMP)
<1>1. Passes(e) /\ HasChild(e)
  BY DEF Passes, HasChild
<1>2. /\ va \in Image \ Shared /\ va \in VA
      /\ Page(c, va) # NULL /\ Writable(c, va)
  BY <1>1, Places DEF CowInv, CopiesOK, CopiesAt, UpTo, Here, KeptPlaces
<1>3. /\ c \in Envs /\ c # e /\ prog[c].pc = "new" /\ fault[c] = NoFault
  BY <1>1, ChildIsNew
<1>4. Fine(c, f, va, x)
  BY <1>2, <1>3 DEF CowInv, SharingOK
<1>5. HasChild(f) /\ prog[f].child = c => f = e
  BY <1>1 DEF CowInv, OneParent
<1>6. ~Giving(c, f, va) /\ ~Giving(f, c, va)
  BY <1>3, <1>5 DEF Giving, HasChild, Passes
<1>7. ~Moved(c, va, x) /\ ~Moved(c, x, va) /\ ~Filling(c, f, va, x)
  BY <1>3 DEF Moved, Filling, NoFault, Fault
<1>8. Filling(f, c, x, va) => prog[e].pc = "dcopy" /\ f = e /\ x = UTEMP
  BY <1>5 DEF Filling, HasChild, Passes
<1> QED
  BY <1>2, <1>4, <1>6, <1>7, <1>8 DEF Fine

\* dumbfork goes on with the page it is at.
LEMMA DumbGoes ==
  ASSUME CowInv, NEW e \in Envs, fault[e] = NoFault,
         prog[e].pc \in {"dalloc", "dmap", "dcopy"},
         NEW pc \in {"dmap", "dcopy", "dunmap"},
         Goto(e, [prog[e] EXCEPT !.pc = pc]), UNCHANGED <<fault, forks, panic>>
  PROVE  \E n :
           /\ Works(e, n) /\ n.pc = pc /\ n.child = prog[e].child /\ n.va = prog[e].va
           /\ Passes(e) /\ KeptPlaces(e) = Image \ Shared
           /\ prog[e].child \in Envs /\ prog[e].child # e
           /\ prog[e].va \in Image \ Shared /\ prog[e].va \in VA
           /\ Page(e, prog[e].va) # NULL
           /\ UpTo(e, prog[e].child) /\ Here(e, prog[e].child, prog[e].va)
<1>a. PICK n \in {[prog[e] EXCEPT !.pc = pc]} : TRUE
  OBVIOUS
<1>1. n \in [pc : Pcs, child : Envs \cup {NULL}, va : VA \cup {NULL}]
      /\ n.pc = pc /\ n.child = prog[e].child /\ n.va = prog[e].va
  <2>1. prog[e] \in [pc : Pcs, child : Envs \cup {NULL}, va : VA \cup {NULL}]
    BY DEF CowInv, CowTypes
  <2> QED
    BY <1>a, <2>1 DEF Pcs
<1>2. Passes(e) /\ HasChild(e) /\ KeptPlaces(e) = Image \ Shared
  BY DEF Passes, HasChild, KeptPlaces
<1>3. prog[e].child \in Envs /\ prog[e].child # e
  BY <1>2, ChildIsNew
<1>4. UpTo(e, prog[e].child) /\ Here(e, prog[e].child, prog[e].va)
  BY <1>2 DEF CowInv, CopiesOK, CopiesAt
<1>5. /\ prog[e].va \in Image \ Shared /\ prog[e].va \in VA
      /\ Page(e, prog[e].va) # NULL
  BY <1>2, <1>4, Places DEF UpTo
<1>6. Works(e, n)
  BY <1>1, <1>2, <1>a DEF Works, Goto
<1> QED
  BY <1>1, <1>2, <1>3, <1>4, <1>5, <1>6

\* A page for the child.
LEMMA DumbAllocKeeps ==
  ASSUME CowInv, NEW e \in Envs, DumbAlloc(e)
  PROVE  CowInv'
<1>a. PICK c \in {prog[e].child}, va \in {prog[e].va} : TRUE
  OBVIOUS
<1>1. /\ prog[e].pc = "dalloc" /\ fault[e] = NoFault /\ Alloc(c, va, va)
      /\ Goto(e, [prog[e] EXCEPT !.pc = "dmap"]) /\ UNCHANGED <<fault, forks, panic>>
  BY <1>a DEF DumbAlloc, At
<1>2. PICK n :
        /\ Works(e, n) /\ n.pc = "dmap" /\ n.child = prog[e].child /\ n.va = prog[e].va
        /\ Passes(e) /\ KeptPlaces(e) = Image \ Shared
        /\ prog[e].child \in Envs /\ prog[e].child # e
        /\ prog[e].va \in Image \ Shared /\ prog[e].va \in VA
        /\ Page(e, prog[e].va) # NULL
        /\ UpTo(e, prog[e].child) /\ Here(e, prog[e].child, prog[e].va)
  BY <1>1, DumbGoes
<1>3. /\ c = prog[e].child /\ va = prog[e].va /\ c \in Envs /\ c # e
      /\ va \in Image \ Shared /\ va \in VA /\ Page(e, va) # NULL
      /\ n.child = c /\ n.va = va
  BY <1>2, <1>a
<1>4. PICK pg \in Frames :
        /\ pg # NULL /\ \A f \in Envs, x \in VA : pte[f][x].page # pg
        /\ MapTypes' /\ OneChange(c, va, pg, {"W"}) /\ SameContents(pg)
  BY <1>1, <1>3, AllocFrame DEF CowInv
<1>5. Fresh(pg)
  BY <1>4 DEF Fresh, Page
<1>6. /\ CowTypes' /\ ProgOK' /\ OneParent'
      /\ prog'[e] = n /\ \A f \in Envs \ {e} : prog'[f] = prog[f]
      /\ \A f \in Envs \ {e} : FaultAt(f)' /\ CopiesAt(f)'
  <2>1. c \in {e, prog[e].child}
    BY <1>3
  <2>2. Works(e, n)
    BY <1>2
  <2>3. Changes(c, va, pg, {"W"}, pg)
    BY <1>4, <1>5 DEF Changes
  <2>4. /\ va = Stack => pg # NULL
        /\ c # e => va \notin {PFTEMP, UTEMP}
        /\ va \in VA
    BY <1>3, <1>4, Places
  <2> QED
    BY <2>1, <2>2, <2>3, <2>4, WorkKeeps, Zenon
<1>7. FaultAt(e)'
  <2>1. fault[e].pc = "none" /\ fault'[e] = fault[e]
    BY <1>1 DEF NoFault, Fault
  <2>2. prog'[e].pc \in {"dcopy", "dunmap"} <=> prog[e].pc \in {"dcopy", "dunmap"}
    BY <1>1, <1>2, <1>6
  <2> QED
    BY <1>3, <1>4, <1>5, <2>1, <2>2, FaultOfOthers
<1>8. PermsOK' /\ SharedIsOne'
  BY <1>3, <1>4, PermsStay
<1>9. Outlast(c, va)
  BY <1>1, <1>6 DEF Outlast
<1>10. SharingOK'
  <2>1. \A f \in Envs, x \in VA : Page(f, x)' = pg => Fine(c, f, va, x)'
    BY <1>4 DEF OneChange, Page, Fine
  <2> QED
    BY <1>3, <1>4, <1>9, <2>1, SharingStays
<1>11. CopiesAt(e)'
  <2>1. \A x \in Image : /\ x < va => Copied(e, c, x, Image \ Shared)'
                         /\ x > va => Page(c, x)' = NULL
    <3>1. \A x \in Image \ {va} : /\ pte'[e][x] = pte[e][x] /\ pte'[c][x] = pte[c][x]
                                  /\ Page(e, x) = pg => pg = NULL
                                  /\ Page(c, x) = pg => pg = NULL
      BY <1>3, <1>4, Places DEF OneChange, Page
    <3>2. Image \ Shared \in {KeptPlaces(e)} /\ c \in {prog[e].child} /\ va \in {prog[e].va}
      BY <1>2, <1>3
    <3> QED
      BY <1>2, <1>4, <3>1, <3>2, BesidesStay
  <2>2. Page(e, va)' = Page(e, va) /\ Page(c, va)' = pg /\ Writable(c, va)'
    BY <1>3, <1>4 DEF OneChange, Page, Writable, Perm
  <2>3. KeptPlaces(e)' = Image \ Shared /\ prog'[e].va = va /\ prog'[e].child = c
        /\ prog'[e].pc = "dmap"
    BY <1>2, <1>3, <1>6 DEF KeptPlaces
  <2>4. UpTo(e, c)'
    BY <1>3, <2>1, <2>2, <2>3 DEF UpTo
  <2>5. Here(e, c, va)'
    BY <1>4, <2>2, <2>3 DEF Here
  <2> QED
    BY <2>3, <2>4, <2>5 DEF CopiesAt
<1> QED
  BY <1>6, <1>7, <1>8, <1>10, <1>11 DEF CowInv, FaultOK, CopiesOK

\* The child's page is mapped at UTEMP, too.
LEMMA DumbMapKeeps ==
  ASSUME CowInv, NEW e \in Envs, DumbMap(e)
  PROVE  CowInv'
<1>a. PICK c \in {prog[e].child}, va \in {prog[e].va},
           pg \in {Page(prog[e].child, prog[e].va)} : TRUE
  OBVIOUS
<1>1. /\ prog[e].pc = "dmap" /\ fault[e] = NoFault /\ Remap(Mapped(e, UTEMP, pg, {"W"}))
      /\ Goto(e, [prog[e] EXCEPT !.pc = "dcopy"]) /\ UNCHANGED <<fault, forks, panic>>
  BY <1>a DEF DumbMap, At
<1>2. PICK n :
        /\ Works(e, n) /\ n.pc = "dcopy" /\ n.child = prog[e].child /\ n.va = prog[e].va
        /\ Passes(e) /\ KeptPlaces(e) = Image \ Shared
        /\ prog[e].child \in Envs /\ prog[e].child # e
        /\ prog[e].va \in Image \ Shared /\ prog[e].va \in VA
        /\ Page(e, prog[e].va) # NULL
        /\ UpTo(e, prog[e].child) /\ Here(e, prog[e].child, prog[e].va)
  BY <1>1, DumbGoes
<1>3. /\ c = prog[e].child /\ va = prog[e].va /\ c \in Envs /\ c # e
      /\ va \in Image \ Shared /\ va \in VA /\ Page(e, va) # NULL
      /\ n.child = c /\ n.va = va
      /\ Page(c, va) = pg /\ pg # NULL /\ Writable(c, va)
  BY <1>1, <1>2, <1>a DEF Here
<1>4. pg \in InUse(pte)
  BY <1>3, InUseIs DEF Page
<1>5. MapTypes' /\ OneChange(e, UTEMP, pg, {"W"}) /\ SameContents(NULL)
  BY <1>1, <1>4, Places, RemapFrame DEF CowInv, Flags
<1>6. Fresh(NULL)
  BY DEF Fresh
<1>7. /\ CowTypes' /\ ProgOK' /\ OneParent'
      /\ prog'[e] = n /\ \A f \in Envs \ {e} : prog'[f] = prog[f]
      /\ \A f \in Envs \ {e} : FaultAt(f)' /\ CopiesAt(f)'
  <2>1. e \in {e, prog[e].child}
    OBVIOUS
  <2>2. Works(e, n)
    BY <1>2
  <2>3. Changes(e, UTEMP, pg, {"W"}, NULL)
    BY <1>5, <1>6 DEF Changes
  <2>4. /\ UTEMP = Stack => pg # NULL
        /\ e # e => UTEMP \notin {PFTEMP, UTEMP}
        /\ UTEMP \in VA
    BY Places
  <2> QED
    BY <2>1, <2>2, <2>3, <2>4, WorkKeeps, Zenon
<1>8. FaultAt(e)'
  <2>1. FaultAt(e)
    BY DEF CowInv, FaultOK
  <2>2. Page(e, PFTEMP)' = Page(e, PFTEMP) /\ Page(e, UTEMP)' = pg
    BY <1>5, Places DEF OneChange, Page
  <2> QED
    BY <1>1, <1>2, <1>3, <1>7, <2>1, <2>2 DEF FaultAt, NoFault, Fault
<1>9. PermsOK' /\ SharedIsOne'
  BY <1>5, Places, PermsStay
<1>10. Outlast(e, UTEMP)
  BY <1>1, <1>7 DEF Outlast
<1>11. SharingOK'
  <2>1. ASSUME NEW f \in Envs, NEW x \in VA, Page(f, x)' = pg
        PROVE  Fine(e, f, UTEMP, x)'
    <3>1. CASE f = e /\ x = UTEMP
      BY <3>1 DEF Fine
    <3>2. CASE f # e \/ x # UTEMP
      <4>1. Page(f, x) = Page(c, va)
        BY <1>3, <1>5, <2>1, <3>2 DEF OneChange, Page
      <4>2. f = c /\ x = va
        BY <1>1, <1>3, <4>1, FillsAlone
      <4>3. Filling(e, c, UTEMP, va)'
        BY <1>2, <1>3, <1>7 DEF Filling
      <4> QED
        BY <1>3, <4>2, <4>3 DEF Fine
    <3> QED
      BY <3>1, <3>2
  <2> QED
    BY <1>5, <1>10, <2>1, Places, SharingStays
<1>12. CopiesAt(e)'
  <2>1. \A x \in Image : pte'[e][x] = pte[e][x] /\ pte'[c][x] = pte[c][x]
    BY <1>3, <1>5, Places DEF OneChange
  <2>2. \A x \in Image : /\ x < va => Copied(e, c, x, Image \ Shared)'
                         /\ x > va => Page(c, x)' = NULL
    <3>1. \A x \in Image \ {va} : /\ pte'[e][x] = pte[e][x] /\ pte'[c][x] = pte[c][x]
                                  /\ Page(e, x) = NULL => NULL = NULL
                                  /\ Page(c, x) = NULL => NULL = NULL
      BY <2>1
    <3>2. Image \ Shared \in {KeptPlaces(e)} /\ c \in {prog[e].child} /\ va \in {prog[e].va}
      BY <1>2, <1>3
    <3> QED
      BY <1>2, <1>5, <3>1, <3>2, BesidesStay
  <2>3. /\ Page(e, va)' = Page(e, va) /\ Page(c, va)' = pg /\ Writable(c, va)'
        /\ Page(e, UTEMP)' = pg
    BY <1>3, <1>5, <2>1 DEF OneChange, Page, Writable, Perm
  <2>4. KeptPlaces(e)' = Image \ Shared /\ prog'[e].va = va /\ prog'[e].child = c
        /\ prog'[e].pc = "dcopy"
    BY <1>2, <1>3, <1>7 DEF KeptPlaces
  <2>5. UpTo(e, c)'
    BY <1>3, <2>2, <2>3, <2>4 DEF UpTo
  <2>6. Here(e, c, va)'
    BY <1>3, <2>3, <2>4 DEF Here
  <2> QED
    BY <2>4, <2>5, <2>6 DEF CopiesAt
<1> QED
  BY <1>7, <1>8, <1>9, <1>11, <1>12 DEF CowInv, FaultOK, CopiesOK

\* The page is filled.
LEMMA DumbCopyKeeps ==
  ASSUME CowInv, NEW e \in Envs, DumbCopy(e)
  PROVE  CowInv'
<1>a. PICK c \in {prog[e].child}, va \in {prog[e].va}, pg \in {Page(e, UTEMP)} : TRUE
  OBVIOUS
<1>1. /\ prog[e].pc = "dcopy" /\ fault[e] = NoFault
      /\ data' = [data EXCEPT ![pg] = data[Page(e, va)]]
      /\ Goto(e, [prog[e] EXCEPT !.pc = "dunmap"]) /\ UNCHANGED <<pte, fault, forks, panic>>
  BY <1>a DEF DumbCopy, At
<1>2. PICK n :
        /\ Works(e, n) /\ n.pc = "dunmap" /\ n.child = prog[e].child /\ n.va = prog[e].va
        /\ Passes(e) /\ KeptPlaces(e) = Image \ Shared
        /\ prog[e].child \in Envs /\ prog[e].child # e
        /\ prog[e].va \in Image \ Shared /\ prog[e].va \in VA
        /\ Page(e, prog[e].va) # NULL
        /\ UpTo(e, prog[e].child) /\ Here(e, prog[e].child, prog[e].va)
  BY <1>1, DumbGoes
<1>3. /\ c = prog[e].child /\ va = prog[e].va /\ c \in Envs /\ c # e
      /\ va \in Image \ Shared /\ va \in VA /\ Page(e, va) # NULL
      /\ n.child = c /\ n.va = va
      /\ Page(c, va) = pg /\ Page(e, UTEMP) = pg /\ pg # NULL
  BY <1>1, <1>2, <1>a DEF Here
<1>4. \A f \in Envs, x \in VA : Page(f, x) = pg => (f = c /\ x = va) \/ (f = e /\ x = UTEMP)
  BY <1>1, <1>3, FillsAlone
<1>5. HasChild(e) /\ Alive(e) /\ prog[c].pc = "new" /\ fault[c] = NoFault
  BY <1>2, <1>3, ChildIsNew DEF HasChild, Passes, Alive
<1>6. pg \in InUse(pte) /\ Page(e, va) \in InUse(pte)
  BY <1>3, InUseIs DEF Page
<1>7. data \in [InUse(pte) -> Data]
  BY DEF CowInv, CowTypes
<1>8. data' \in [InUse(pte) -> Data] /\ data'[pg] = data[Page(e, va)]
  BY <1>1, <1>6, <1>7
<1>9. ASSUME NEW p, p # pg
      PROVE  data'[p] = data[p]
  BY <1>1, <1>7, <1>9
<1>10. /\ prog' \in [Envs -> [pc : Pcs, child : Envs \cup {NULL}, va : VA \cup {NULL}]]
       /\ prog'[e] = n /\ \A f \in Envs \ {e} : prog'[f] = prog[f]
  BY <1>2 DEF Works, CowInv, CowTypes
<1>11. CowTypes'
  BY <1>1, <1>8, <1>10 DEF CowInv, CowTypes
<1>12. Outlast(NULL, NULL)
  BY <1>1, <1>2, <1>10 DEF Outlast
<1>13. SharingOK' /\ SharedIsOne' /\ PermsOK'
  BY <1>1, <1>12, SharingSame
<1>14. OneParent'
  <2>1. \A f \in Envs : HasChild(f)' => HasChild(f) /\ prog'[f].child = prog[f].child
    BY <1>2, <1>5, <1>10 DEF HasChild, Passes
  <2> QED
    BY <2>1, ParentsStay
<1>15. \A f \in Envs \ {e} : HasChild(f) => f # c /\ prog[f].child \in Envs \ {e, c}
  BY <1>3, <1>5, ChildIsNew DEF CowInv, OneParent, HasChild, Passes, Alive
<1>16. ASSUME NEW f \in Envs \ {e}
       PROVE  ProgAt(f)' /\ FaultAt(f)' /\ CopiesAt(f)'
  <2>1. ProgAt(f) /\ FaultAt(f)
    BY DEF CowInv, ProgOK, FaultOK
  <2>2. ProgAt(f)'
    BY <1>1, <1>10, <1>15, <2>1, ProgStays DEF ProgAt, Page
  <2>3. FaultAt(f)'
    <3>1. fault[f].pc = "map" => Page(f, PFTEMP) # pg /\ Page(f, fault[f].va) # pg
      <4>1. fault[f].pc = "map" => f # c /\ fault[f].va \in VA
        BY <1>5, <2>1, Places DEF FaultAt, NoFault, Fault
      <4> QED
        BY <1>4, <4>1, Places
    <3>2. fault[f].pc = "map" =>
            /\ data'[Page(f, PFTEMP)] = data[Page(f, PFTEMP)]
            /\ data'[Page(f, fault[f].va)] = data[Page(f, fault[f].va)]
      BY <1>9, <3>1
    <3>3. fault'[f] = fault[f] /\ prog'[f] = prog[f]
      BY <1>1, <1>10
    <3>4. \A x \in VA : Page(f, x)' = Page(f, x)
      BY <1>1 DEF Page
    <3> QED
      BY <3>2, <3>3, <3>4, FaultStays
  <2>4. CopiesAt(f)'
    <3>1. HasChild(f) => \A x \in VA :
            data'[Page(prog[f].child, x)] = data[Page(prog[f].child, x)]
      BY <1>4, <1>9, <1>15
    <3>2. HasChild(f) => \A x \in VA : data'[Page(f, x)] = data[Page(f, x)]
      BY <1>4, <1>9, <1>15
    <3> QED
      BY <1>1, <1>10, <3>1, <3>2, Places, CopiesStay DEF Page
  <2> QED
    BY <2>2, <2>3, <2>4
<1>17. ProgAt(e)'
  <2>1. ProgAt(e)
    BY DEF CowInv, ProgOK
  <2>2. prog'[c] = prog[c] /\ prog'[e].pc = "dunmap" /\ prog'[e].child = c
    BY <1>2, <1>3, <1>10
  <2> QED
    BY <1>1, <1>3, <1>5, <2>1, <2>2 DEF ProgAt, Alive, HasChild, Passes, Page
<1>18. FaultAt(e)'
  <2>1. FaultAt(e)
    BY DEF CowInv, FaultOK
  <2> QED
    BY <1>1, <1>2, <1>3, <1>10, <2>1 DEF FaultAt, NoFault, Fault, Page
<1>19. CopiesAt(e)'
  <2>1. \A x \in Image : pte'[e][x] = pte[e][x] /\ pte'[c][x] = pte[c][x]
    BY <1>1
  <2>2. \A x \in Image : /\ x < va => Copied(e, c, x, Image \ Shared)'
                         /\ x > va => Page(c, x)' = NULL
    <3>1. \A x \in Image \ {va} : /\ pte'[e][x] = pte[e][x] /\ pte'[c][x] = pte[c][x]
                                  /\ Page(e, x) = pg => pg = NULL
                                  /\ Page(c, x) = pg => pg = NULL
      BY <1>3, <1>4, <2>1, Places
    <3>2. Image \ Shared \in {KeptPlaces(e)} /\ c \in {prog[e].child} /\ va \in {prog[e].va}
      BY <1>2, <1>3
    <3>3. SameContents(pg)
      BY <1>1, <1>9 DEF SameContents
    <3> QED
      BY <1>2, <3>1, <3>2, <3>3, BesidesStay
  <2>3. KeptPlaces(e)' = Image \ Shared /\ prog'[e].va = va /\ prog'[e].child = c
        /\ prog'[e].pc = "dunmap"
    BY <1>2, <1>3, <1>10 DEF KeptPlaces
  <2>4. Page(e, va)' = Page(e, va) /\ Page(c, va)' = pg
    BY <1>1, <1>3 DEF Page
  <2>5. data'[Page(e, va)] = data[Page(e, va)]
    BY <1>3, <1>4, <1>9, Places
  <2>6. Copied(e, c, va, Image \ Shared)'
    BY <1>3, <1>8, <2>4, <2>5 DEF Copied
  <2>7. UpTo(e, c)'
    BY <1>3, <2>2, <2>3, <2>4 DEF UpTo
  <2>8. Here(e, c, va)'
    BY <2>3, <2>6 DEF Here
  <2> QED
    BY <2>3, <2>7, <2>8 DEF CopiesAt
<1> QED
  BY <1>11, <1>13, <1>14, <1>16, <1>17, <1>18, <1>19 DEF CowInv, ProgOK, FaultOK, CopiesOK

\* The page is the child's alone again, and dumbfork goes to the next one.
LEMMA DumbUnmapKeeps ==
  ASSUME CowInv, NEW e \in Envs, DumbUnmap(e)
  PROVE  CowInv'
<1>a. PICK c \in {prog[e].child}, va \in {prog[e].va}, n \in {DumbNext(e)},
           kept \in {KeptPlaces(e)} : TRUE
  OBVIOUS
<1>1. /\ prog[e].pc = "dunmap" /\ fault[e] = NoFault /\ Remap(Mapped(e, UTEMP, NULL, {}))
      /\ prog' = [prog EXCEPT ![e] = n] /\ UNCHANGED <<fault, forks, panic>>
  BY <1>a DEF DumbUnmap, At, Goto, Mapped, Unmapped
<1>2. Passes(e) /\ HasChild(e) /\ kept \subseteq Image
  BY <1>1, <1>a DEF Passes, HasChild, KeptPlaces
<1>3. /\ va \in Image /\ va \in VA /\ Page(e, va) # NULL /\ Copied(e, c, va, kept)
  BY <1>1, <1>2, <1>a, Places DEF CowInv, CopiesOK, CopiesAt, UpTo, Here
<1>4. c \in Envs /\ c # e /\ prog[e].child = c /\ prog[e].va = va
  BY <1>2, <1>a, ChildIsNew
<1>5. MapTypes' /\ OneChange(e, UTEMP, NULL, {}) /\ SameContents(NULL)
  BY <1>1, Places, RemapFrame DEF CowInv
<1>6. n \in [pc : Pcs, child : Envs \cup {NULL}, va : VA \cup {NULL}]
      /\ n.child = c /\ n.pc \in {"xstack", "start", "dup", "dalloc"} /\ Skips(e, n)
  <2>1. n = NextOf(e)
    BY <1>1, <1>a DEF NextOf
  <2> QED
    BY <1>1, <1>4, <2>1, NextSkips
<1>7. Fresh(NULL)
  BY DEF Fresh
<1>8. /\ CowTypes' /\ ProgOK' /\ OneParent'
      /\ prog'[e] = n /\ \A f \in Envs \ {e} : prog'[f] = prog[f]
      /\ \A f \in Envs \ {e} : FaultAt(f)' /\ CopiesAt(f)'
  <2>1. e \in {e, prog[e].child}
    OBVIOUS
  <2>2. Works(e, n)
    BY <1>1, <1>2, <1>4, <1>6 DEF Works
  <2>3. Changes(e, UTEMP, NULL, {}, NULL)
    BY <1>5, <1>7 DEF Changes
  <2>4. /\ UTEMP = Stack => NULL # NULL
        /\ e # e => UTEMP \notin {PFTEMP, UTEMP}
        /\ UTEMP \in VA
    BY Places
  <2> QED
    BY <2>1, <2>2, <2>3, <2>4, WorkKeeps, Zenon
<1>9. FaultAt(e)'
  <2>1. FaultAt(e)
    BY DEF CowInv, FaultOK
  <2>2. Page(e, PFTEMP)' = Page(e, PFTEMP) /\ Page(e, UTEMP)' = NULL
    BY <1>5, Places DEF OneChange, Page
  <2> QED
    BY <1>1, <1>6, <1>8, <2>1, <2>2 DEF FaultAt, NoFault, Fault
<1>10. PermsOK' /\ SharedIsOne'
  BY <1>5, Places, PermsStay
<1>11. Outlast(e, UTEMP)
  BY <1>1, <1>8 DEF Outlast
<1>12. SharingOK'
  BY <1>5, <1>11, Places, SharingStays
<1>13. CopiesAt(e)'
  <2>1. \A x \in Image : pte'[e][x] = pte[e][x] /\ pte'[c][x] = pte[c][x]
    BY <1>4, <1>5, Places DEF OneChange
  <2>2. \A x \in Image : /\ x < va => Copied(e, c, x, kept)'
                         /\ x > va => Page(c, x)' = NULL
    <3>1. \A x \in Image \ {va} : /\ pte'[e][x] = pte[e][x] /\ pte'[c][x] = pte[c][x]
                                  /\ Page(e, x) = NULL => NULL = NULL
                                  /\ Page(c, x) = NULL => NULL = NULL
      BY <2>1
    <3> QED
      BY <1>2, <1>5, <3>1, BesidesStay
  <2>3. \A x \in Image : Page(e, x)' = Page(e, x) /\ Page(c, x)' = Page(c, x)
    BY <2>1 DEF Page
  <2>4. Copied(e, c, va, kept)'
    <3>1. /\ data'[Page(e, va)] = data[Page(e, va)]
          /\ Page(c, va) # NULL => data'[Page(c, va)] = data[Page(c, va)]
      BY <1>3, <1>4, <1>5, <2>3 DEF SameContents, Page
    <3>2. Lacks(c, va, kept) => Lacks(c, va, kept)'
      BY <2>3 DEF Lacks, Below
    <3> QED
      BY <1>3, <2>3, <3>1, <3>2 DEF Copied
  <2>5. \A x \in Image : x <= va => Copied(e, c, x, kept)'
    <3>1. \A x \in Image : x \in Nat /\ va \in Nat
      BY <1>3, Places, PlacesAssumption
    <3>2. \A x \in Image : x <= va => x < va \/ x = va
      BY <3>1
    <3> QED
      BY <2>2, <2>4, <3>2
  <2>6. n.child = prog[e].child /\ Skips(e, n) /\ prog[e].pc \in {"dup", "own", "dunmap"}
    BY <1>1, <1>4, <1>6
  <2> QED
    BY <1>8, <2>2, <2>3, <2>5, <2>6, NextKeeps
<1> QED
  BY <1>8, <1>9, <1>10, <1>12, <1>13 DEF CowInv, FaultOK, CopiesOK

-----------------------------------------------------------------------------
(***************************************************************************)
(* Theorems                                                                *)
(***************************************************************************)

LEMMA InitIsOK == Init => CowInv
<1> SUFFICES ASSUME Init
             PROVE  CowInv
  OBVIOUS
<1>1. 0 \in Envs /\ 0 \in Data /\ MaxForks \in Nat
  BY ProgramsAssumption
<1>2. \A e \in Envs, va \in VA :
        IF e = 0 /\ va \in Image
        THEN pte[e][va].page = <<0, va, 0>> /\ pte[e][va].perm = BootPerm(va)
        ELSE pte[e][va].page = NULL /\ pte[e][va].perm = {}
  BY DEF Init, Unmapped
<1>3. \A va \in VA : <<0, va, 0>> \in Frames /\ <<0, va, 0>> # NULL
  <2>1. Cardinality(Envs \X VA) \in Nat
    BY PlacesAssumption, ProgramsAssumption, FS_Product, FS_CardinalityType
  <2>2. \A va \in VA : <<0, va, 0>> \in Frames
    BY <1>1, <2>1 DEF Frames
  <2> QED
    BY <2>2, NULLAssumption
<1>4. \A va : BootPerm(va) \in SUBSET Flags
  BY DEF BootPerm, Flags
<1>5. \A e \in Envs : /\ prog[e] = (IF e = 0 THEN Idle ELSE Unused) /\ fault[e] = NoFault
                      /\ Idle.pc = "run" /\ Unused.pc = "unused" /\ NoFault.pc = "none"
  BY DEF Init, Idle, Unused, NoFault, Prog, Fault
<1>6. CowTypes
  <2>1. pte \in [Envs -> [VA -> [page : Frames \cup {NULL}, perm : SUBSET Flags]]]
    <3>1. ASSUME NEW e \in Envs, NEW va \in VA
          PROVE  (IF e = 0 /\ va \in Image THEN [page |-> <<0, va, 0>>, perm |-> BootPerm(va)]
                                           ELSE Unmapped)
                   \in [page : Frames \cup {NULL}, perm : SUBSET Flags]
      BY <1>3, <1>4 DEF Unmapped
    <3> QED
      BY <3>1 DEF Init
  <2>2. InUse(pte) = {<<0, va, 0>> : va \in Image}
    <3>1. ASSUME NEW p
          PROVE  p \in InUse(pte) <=> \E va \in Image : p = <<0, va, 0>>
      <4>1. p \in InUse(pte) <=> p # NULL /\ \E e \in Envs, va \in VA : pte[e][va].page = p
        BY InUseIs
      <4>2. ASSUME p \in InUse(pte)
            PROVE  \E va \in Image : p = <<0, va, 0>>
        <5>1. PICK e \in Envs, va \in VA : pte[e][va].page = p /\ p # NULL
          BY <4>1, <4>2
        <5>2. va \in Image /\ p = <<0, va, 0>>
          BY <1>2, <5>1
        <5> QED
          BY <5>2
      <4>3. ASSUME NEW va \in Image, p = <<0, va, 0>>
            PROVE  p \in InUse(pte)
        <5>1. va \in VA
          BY Places
        <5>2. pte[0][va].page = p /\ p # NULL
          BY <1>1, <1>2, <1>3, <4>3, <5>1
        <5> QED
          BY <1>1, <4>1, <5>1, <5>2
      <4> QED
        BY <4>2, <4>3
    <3> QED
      BY <3>1
  <2>3. data \in [InUse(pte) -> Data]
    BY <1>1, <2>2 DEF Init
  <2>4. prog \in [Envs -> [pc : Pcs, child : Envs \cup {NULL}, va : VA \cup {NULL}]]
    <3>1. /\ Idle \in [pc : Pcs, child : Envs \cup {NULL}, va : VA \cup {NULL}]
          /\ Unused \in [pc : Pcs, child : Envs \cup {NULL}, va : VA \cup {NULL}]
      BY DEF Idle, Unused, Prog, Pcs
    <3>2. prog = [e \in Envs |-> IF e = 0 THEN Idle ELSE Unused]
      BY DEF Init
    <3> QED
      BY <3>1, <3>2
  <2>5. /\ fault \in [Envs -> [pc : {"none", "alloc", "copy", "map", "unmap"}, va : VA \cup {NULL}]]
        /\ forks \in 0 .. MaxForks /\ panic \in BOOLEAN
    <3>1. NoFault \in [pc : {"none", "alloc", "copy", "map", "unmap"}, va : VA \cup {NULL}]
      BY DEF NoFault, Fault
    <3>2. fault = [e \in Envs |-> NoFault] /\ forks = 0 /\ panic = FALSE
      BY DEF Init
    <3>3. 0 \in 0 .. MaxForks /\ FALSE \in BOOLEAN
      BY <1>1
    <3> HIDE DEF NoFault
    <3> QED
      BY <3>1, <3>2, <3>3
  <2> QED
    BY <2>1, <2>3, <2>4, <2>5 DEF CowTypes
<1>7. PermsOK
  BY <1>2, Places, PlacesAssumption DEF PermsOK, Page, Perm, BootPerm
<1>8. ProgOK
  BY <1>2, <1>3, <1>5, Places DEF ProgOK, ProgAt, Alive, HasChild, Passes, Page
<1>9. OneParent
  BY <1>5 DEF OneParent, HasChild, Passes
<1>10. FaultOK
  BY <1>2, <1>5, Places DEF FaultOK, FaultAt, Page
<1>11. SharingOK
  <2> SUFFICES ASSUME NEW e \in Envs, NEW f \in Envs, NEW va \in VA, NEW vb \in VA,
                      Page(e, va) # NULL, Page(e, va) = Page(f, vb)
               PROVE  Fine(e, f, va, vb)
    BY DEF SharingOK
  <2>1. e = 0 /\ f = 0 /\ Page(e, va) = <<0, va, 0>> /\ Page(f, vb) = <<0, vb, 0>>
    BY <1>2 DEF Page
  <2> QED
    BY <2>1 DEF Fine
<1>12. SharedIsOne
  BY <1>2, Places DEF SharedIsOne, Page
<1>13. CopiesOK
  BY <1>5 DEF CopiesOK, CopiesAt, Passes
<1> QED
  BY <1>6, <1>7, <1>8, <1>9, <1>10, <1>11, <1>12, <1>13 DEF CowInv

LEMMA StepKeeps == CowInv /\ [Next]_vars => CowInv'
<1> SUFFICES ASSUME CowInv, [Next]_vars
             PROVE  CowInv'
  OBVIOUS
<1>1. CASE UNCHANGED vars
  BY <1>1, NoMemoryKeeps DEF vars, CowInv, CowTypes
<1>2. ASSUME NEW e \in Envs, Handler(e)
      PROVE  CowInv'
  BY <1>2, PgAllocKeeps, PgCopyKeeps, PgMapKeeps, PgUnmapKeeps DEF Handler
<1>3. ASSUME NEW e \in Envs, CowStep(e)
      PROVE  CowInv'
  <2>1. NoMemory(e) => CowInv'
    BY NoMemoryKeeps DEF NoMemory, Panic
  <2> QED
    BY <1>3, <2>1, SetHandlerKeeps, DupPageKeeps, DupOwnKeeps, GiveStackKeeps, StartKeeps
       DEF CowStep
<1>4. ASSUME NEW e \in Envs, DumbStep(e)
      PROVE  CowInv'
  BY <1>4, DumbForkKeeps, DumbAllocKeeps, DumbMapKeeps, DumbCopyKeeps, DumbUnmapKeeps DEF DumbStep
<1>5. ASSUME NEW e \in Envs, Exit(e) \/ \E c \in Envs : Exofork(e, c)
      PROVE  CowInv'
  BY <1>5, ExitKeeps, ExoforkKeeps
<1>6. ASSUME NEW e \in Envs, NEW va \in Image \ Text, NEW v \in Data \ {0}, Store(e, va, v)
      PROVE  CowInv'
  BY <1>6, StoreKeeps
<1> QED
  BY <1>1, <1>2, <1>3, <1>4, <1>5, <1>6 DEF Next

\* Whatever environments fork, write, fault and exit in whatever order: every
\* step of fork, of dumbfork and of the page fault handler leaves the pages
\* shared as they are meant to be, and the children as complete as duppage has
\* made them: with all pages that were passed on so far, but for read-only ones
\* whose table could not be had, which it passes over (lib/fork.c:78).
THEOREM CowInvariant == Spec => []CowInv
<1>1. Init => CowInv
  BY InitIsOK
<1>2. CowInv /\ [Next]_vars => CowInv'
  BY StepKeeps
<1> QED
  BY <1>1, <1>2, PTL DEF Spec

\* What the page fault handler of the library relies on: a page that an
\* environment may write at a private address is nobody else's, except while
\* fork or dumbfork pass it on.
THEOREM WritablePagesArePrivate == Spec => []PagesOK
<1>1. CowInv => TypeOK
  <2> SUFFICES ASSUME CowInv
               PROVE  TypeOK
    OBVIOUS
  <2>1. CowTypes
    BY DEF CowInv
  <2>2. \A e \in Envs, va \in VA : /\ Page(e, va) \in Frames \cup {NULL}
                                   /\ Perm(e, va) \subseteq {"W", "COW", "SHARE"}
    BY <2>1 DEF CowTypes, Page, Perm, Flags
  <2>3. \A e \in Envs : /\ prog[e].pc \in Pcs
                        /\ fault[e].pc \in {"none", "alloc", "copy", "map", "unmap"}
    BY <2>1 DEF CowTypes
  <2> QED
    BY <2>1, <2>2, <2>3 DEF CowTypes, TypeOK, Pcs
<1>2. CowInv => WritableIsMine
  <2> SUFFICES ASSUME CowInv, NEW e \in Envs, NEW va \in VA \ Shared,
                      Page(e, va) # NULL, Writable(e, va),
                      NEW f \in Envs \ {e}, NEW vb \in VA \ Shared, Page(f, vb) = Page(e, va)
               PROVE  Passing(e, va) \/ Passing(f, vb)
    BY DEF WritableIsMine
  <2>1. Fine(e, f, va, vb)
    BY DEF CowInv, SharingOK
  <2>2. Giving(e, f, va) => Passing(e, va)
    BY DEF Giving, Passing
  <2>3. ~Giving(f, e, va)
    BY DEF Giving
  <2>4. (Filling(e, f, va, vb) => Passing(e, va)) /\ (Filling(f, e, vb, va) => Passing(f, vb))
    BY DEF Filling, Passing
  <2> QED
    BY <2>1, <2>2, <2>3, <2>4 DEF Fine
<1>3. CowInv => PagesOK
  BY <1>1, <1>2 DEF PagesOK
<1> QED
  BY <1>3, CowInvariant, PTL

-----------------------------------------------------------------------------
(***************************************************************************)
(* What programs see of a step                                             *)
(***************************************************************************)

\* The environments that run, and what they read, stay as they are.
SameViews ==
  \A f \in Envs : (Alive(f)' <=> Alive(f)) /\ View(f)' = View(f)

LEMMA ViewStays ==
  ASSUME NEW f \in Envs, Alive(f)' <=> Alive(f),
         Alive(f) => \A x \in Image :
           /\ Page(f, x)' = NULL <=> Page(f, x) = NULL
           /\ Page(f, x) # NULL => data'[Page(f, x)'] = data[Page(f, x)]
  PROVE  View(f)' = View(f)
<1>1. \A x \in Image :
        (IF Alive(f)' /\ Page(f, x)' # NULL THEN data'[Page(f, x)'] ELSE NULL)
          = (IF Alive(f) /\ Page(f, x) # NULL THEN data[Page(f, x)] ELSE NULL)
  OBVIOUS
<1> QED
  BY <1>1 DEF View

LEMMA AliveStays ==
  ASSUME CowInv, NEW e \in Envs, NEW n, Alive(e), n.pc \notin {"unused", "new"},
         prog' = [prog EXCEPT ![e] = n]
  PROVE  \A f \in Envs : Alive(f)' <=> Alive(f)
<1>1. prog'[e] = n /\ \A f \in Envs \ {e} : prog'[f] = prog[f]
  BY DEF CowInv, CowTypes
<1> QED
  BY <1>1 DEF Alive

\* No mapping and no contents change.
LEMMA ViewsOfTheSame ==
  ASSUME \A f \in Envs : Alive(f)' <=> Alive(f), UNCHANGED <<pte, data>>
  PROVE  SameViews
BY ViewStays DEF SameViews, Page

\* A mapping changes that no program reads, or to a page with the same contents.
LEMMA ViewsAfter ==
  ASSUME CowInv, NEW g \in Envs, NEW va \in VA, NEW pg, NEW perm, NEW q,
         OneChange(g, va, pg, perm), SameContents(q),
         \A f \in Envs, x \in VA : pte[f][x].page = q => q = NULL,
         \A f \in Envs : Alive(f)' <=> Alive(f),
         \/ va \notin Image \/ ~Alive(g)
         \/ Page(g, va) # NULL /\ pg # NULL /\ data'[pg] = data[Page(g, va)]
  PROVE  SameViews
<1> SUFFICES ASSUME NEW f \in Envs, Alive(f), NEW x \in Image
             PROVE  /\ Page(f, x)' = NULL <=> Page(f, x) = NULL
                    /\ Page(f, x) # NULL => data'[Page(f, x)'] = data[Page(f, x)]
  BY ViewStays DEF SameViews
<1>1. x \in VA
  BY Places
<1>2. CASE f = g /\ x = va
  BY <1>2 DEF OneChange, Page
<1>3. CASE f # g \/ x # va
  <2>1. pte'[f][x] = pte[f][x]
    BY <1>1, <1>3 DEF OneChange
  <2>2. Page(f, x) # NULL => data'[Page(f, x)] = data[Page(f, x)]
    BY <1>1, <2>1 DEF SameContents, Page
  <2> QED
    BY <2>1, <2>2 DEF Page
<1> QED
  BY <1>2, <1>3

LEMMA ViewsAfterAlloc ==
  ASSUME CowInv, NEW g \in Envs, NEW va \in VA, NEW for \in VA, Alloc(g, va, for),
         \A f \in Envs : Alive(f)' <=> Alive(f), va \notin Image \/ ~Alive(g)
  PROVE  SameViews
<1>1. PICK pg \in Frames :
        /\ pg # NULL /\ \A f \in Envs, x \in VA : pte[f][x].page # pg
        /\ MapTypes' /\ OneChange(g, va, pg, {"W"}) /\ SameContents(pg)
  BY AllocFrame DEF CowInv
<1> QED
  BY <1>1, ViewsAfter

LEMMA ViewsAfterRemap ==
  ASSUME CowInv, NEW g \in Envs, NEW va \in VA, NEW pg \in InUse(pte) \cup {NULL},
         NEW perm \in SUBSET Flags, Remap(Mapped(g, va, pg, perm)),
         \A f \in Envs : Alive(f)' <=> Alive(f),
         \/ va \notin Image \/ ~Alive(g)
         \/ Page(g, va) # NULL /\ pg # NULL /\ data[pg] = data[Page(g, va)]
  PROVE  SameViews
<1>1. OneChange(g, va, pg, perm) /\ SameContents(NULL)
  BY RemapFrame DEF CowInv
<1>2. pg # NULL => data'[pg] = data[pg]
  <2>1. pte'[g][va].page = pg
    BY <1>1 DEF OneChange
  <2> QED
    BY <1>1, <2>1 DEF SameContents
<1> QED
  BY <1>1, <1>2, ViewsAfter

\* The page fault handler changes nothing that a program reads.
LEMMA HandlerIsUnseen ==
  ASSUME CowInv, NEW e \in Envs, Handler(e)
  PROVE  SameViews
<1>1. prog' = prog /\ \A f \in Envs : Alive(f)' <=> Alive(f)
  BY DEF Handler, PgAlloc, PgCopy, PgMap, PgUnmap, Alive
<1>2. CASE PgAlloc(e)
  <2>1. Alloc(e, PFTEMP, fault[e].va) /\ fault[e].va \in VA
    BY <1>2, Places DEF PgAlloc, InHandler, CowInv, FaultOK, FaultAt
  <2> QED
    BY <1>1, <2>1, Places, ViewsAfterAlloc
<1>3. CASE PgCopy(e)
  <2>1. /\ fault[e].pc = "copy" /\ pte' = pte
        /\ data' = [data EXCEPT ![Page(e, PFTEMP)] = data[Page(e, fault[e].va)]]
    BY <1>3 DEF PgCopy, InHandler
  <2>2. \A f \in Envs, x \in Image : Page(f, x) # Page(e, PFTEMP)
    BY <2>1, Places, ScratchIsMine
  <2>3. \A f \in Envs, x \in Image : data'[Page(f, x)] = data[Page(f, x)]
    BY <2>1, <2>2 DEF CowInv, CowTypes
  <2>4. \A f \in Envs, x \in Image : Page(f, x)' = Page(f, x)
    BY <2>1 DEF Page
  <2> QED
    BY <1>1, <2>3, <2>4, ViewStays DEF SameViews
<1>4. CASE PgMap(e)
  <2>1. /\ fault[e].pc = "map" /\ Remap(Mapped(e, fault[e].va, Page(e, PFTEMP), {"W"}))
        /\ fault[e].va \in VA /\ Page(e, fault[e].va) # NULL /\ Page(e, PFTEMP) # NULL
        /\ data[Page(e, PFTEMP)] = data[Page(e, fault[e].va)]
    BY <1>4, Places DEF PgMap, InHandler, CowInv, FaultOK, FaultAt
  <2>2. Page(e, PFTEMP) \in InUse(pte)
    BY <2>1, Places, InUseIs DEF Page
  <2>3. {"W"} \in SUBSET Flags
    BY DEF Flags
  <2> QED
    BY <1>1, <2>1, <2>2, <2>3, ViewsAfterRemap
<1>5. CASE PgUnmap(e)
  <2>1. Remap(Mapped(e, PFTEMP, NULL, {}))
    BY <1>5 DEF PgUnmap, Mapped, Unmapped
  <2> QED
    BY <1>1, <2>1, Places, ViewsAfterRemap
<1> QED
  BY <1>2, <1>3, <1>4, <1>5 DEF Handler

\* What the steps of fork and dumbfork have in common: the environment runs
\* before and after, the child does not.
LEMMA ForkerRuns ==
  ASSUME CowInv, NEW e \in Envs, fault[e] = NoFault,
         prog[e].pc \in {"dup", "own", "xstack", "dalloc", "dmap", "dcopy", "dunmap"}
  PROVE  /\ Alive(e) /\ prog[e].child \in Envs /\ ~Alive(prog[e].child)
         /\ NextOf(e).pc \notin {"unused", "new"} \/ prog[e].pc \notin {"dup", "own", "dunmap"}
         /\ prog[e].pc # "xstack" =>
              prog[e].va \in Image /\ prog[e].va \in VA /\ Page(e, prog[e].va) # NULL
<1>1. HasChild(e) /\ Alive(e)
  BY DEF HasChild, Passes, Alive
<1>2. prog[e].child \in Envs /\ ~Alive(prog[e].child)
  BY <1>1, ChildIsNew DEF Alive
<1>3. prog[e].pc \in {"dup", "own", "dunmap"} => NextOf(e).pc \notin {"unused", "new"}
  BY NextSkips
<1>4. prog[e].pc # "xstack" =>
        prog[e].va \in Image /\ prog[e].va \in VA /\ Page(e, prog[e].va) # NULL
  BY Places DEF CowInv, CopiesOK, CopiesAt, UpTo, KeptPlaces, Passes
<1> QED
  BY <1>1, <1>2, <1>3, <1>4

\* fork changes nothing that a program reads before it starts the child.
LEMMA CowForkIsUnseen ==
  ASSUME CowInv, NEW e \in Envs,
         SetHandler(e) \/ DupPage(e) \/ DupOwn(e) \/ GiveStack(e) \/ NoMemory(e)
  PROVE  SameViews
<1>1. CASE SetHandler(e)
  <2>1. /\ prog[e].pc = "run" /\ prog' = [prog EXCEPT ![e] = Prog("exofork", NULL, NULL)]
        /\ Alloc(e, UXStack, UXStack) \/ UNCHANGED <<pte, data>>
    BY <1>1 DEF SetHandler, At, Goto
  <2>2. Alive(e) /\ Prog("exofork", NULL, NULL).pc = "exofork"
    BY <2>1 DEF Alive, Prog
  <2>3. \A f \in Envs : Alive(f)' <=> Alive(f)
    BY <2>1, <2>2, AliveStays
  <2> QED
    BY <2>1, <2>3, Places, ViewsAfterAlloc, ViewsOfTheSame
<1>2. CASE Pass(e)
  <2>a. PICK c \in {prog[e].child}, va \in {prog[e].va}, pg \in {Page(e, prog[e].va)},
             perm \in {DupPerm(e, prog[e].va)},
             n \in {IF "COW" \in DupPerm(e, prog[e].va) THEN [prog[e] EXCEPT !.pc = "own"]
                                                        ELSE NextPage(e)} :
          TRUE
    OBVIOUS
  <2>1. /\ prog[e].pc = "dup" /\ fault[e] = NoFault /\ Remap(Mapped(c, va, pg, perm))
        /\ prog' = [prog EXCEPT ![e] = n]
    BY <1>2, <2>a DEF Pass, At, Goto
  <2>b. n.pc = "own" \/ n = NextOf(e)
    <3>1. prog[e] \in [pc : Pcs, child : Envs \cup {NULL}, va : VA \cup {NULL}]
      BY DEF CowInv, CowTypes
    <3> QED
      BY <2>1, <2>a, <3>1 DEF NextOf
  <2>2. /\ Alive(e) /\ c \in Envs /\ ~Alive(c) /\ n.pc \notin {"unused", "new"}
        /\ va \in VA /\ pg # NULL /\ pg = Page(e, va)
    BY <2>1, <2>a, <2>b, ForkerRuns
  <2>3. \A f \in Envs : Alive(f)' <=> Alive(f)
    BY <2>1, <2>2, AliveStays
  <2>4. pg \in InUse(pte)
    BY <2>2, InUseIs DEF Page
  <2>5. perm \in SUBSET Flags
    <3>1. Perm(e, va) \in SUBSET Flags
      BY <2>2 DEF CowInv, CowTypes, Perm
    <3> QED
      BY <2>a, <3>1 DEF DupPerm, Flags
  <2> QED
    BY <2>1, <2>2, <2>3, <2>4, <2>5, ViewsAfterRemap
<1>3. CASE DupOwn(e)
  <2>a. PICK va \in {prog[e].va}, pg \in {Page(e, prog[e].va)}, n \in {NextPage(e)} : TRUE
    OBVIOUS
  <2>1. /\ prog[e].pc = "own" /\ fault[e] = NoFault /\ Remap(Mapped(e, va, pg, {"COW"}))
        /\ prog' = [prog EXCEPT ![e] = n]
    BY <1>3, <2>a DEF DupOwn, At, Goto, DupOrder
  <2>2. Alive(e) /\ n.pc \notin {"unused", "new"} /\ va \in VA /\ pg # NULL /\ pg = Page(e, va)
    BY <2>1, <2>a, ForkerRuns DEF NextOf
  <2>3. \A f \in Envs : Alive(f)' <=> Alive(f)
    BY <2>1, <2>2, AliveStays
  <2>4. pg \in InUse(pte)
    BY <2>2, InUseIs DEF Page
  <2> QED
    BY <2>1, <2>2, <2>3, <2>4, ViewsAfterRemap DEF Flags
<1>4. CASE GiveStack(e)
  <2>a. PICK n \in {[prog[e] EXCEPT !.pc = "start"]} : TRUE
    OBVIOUS
  <2>b. n.pc = "start"
    <3>1. prog[e] \in [pc : Pcs, child : Envs \cup {NULL}, va : VA \cup {NULL}]
      BY DEF CowInv, CowTypes
    <3> QED
      BY <2>a, <3>1
  <2>1. /\ prog[e].pc = "xstack" /\ fault[e] = NoFault
        /\ Alloc(prog[e].child, UXStack, UXStack) /\ prog' = [prog EXCEPT ![e] = n]
    BY <1>4, <2>a DEF GiveStack, At, Goto
  <2>2. Alive(e) /\ n.pc \notin {"unused", "new"} /\ prog[e].child \in Envs
    BY <2>1, <2>a, <2>b, ForkerRuns
  <2>3. \A f \in Envs : Alive(f)' <=> Alive(f)
    BY <2>1, <2>2, AliveStays
  <2> QED
    BY <2>1, <2>2, <2>3, Places, ViewsAfterAlloc
<1>5. CASE NoMemory(e)
  BY <1>5, ViewsOfTheSame DEF NoMemory, Alive
<1>6. CASE Lose(e)
  <2>a. PICK n \in {NextPage(e)} : TRUE
    OBVIOUS
  <2>1. /\ prog[e].pc = "dup" /\ fault[e] = NoFault
        /\ prog' = [prog EXCEPT ![e] = n] /\ UNCHANGED <<pte, data>>
    BY <1>6, <2>a DEF Lose, At, Goto
  <2>2. Alive(e) /\ n.pc \notin {"unused", "new"}
    BY <2>1, <2>a, ForkerRuns DEF NextOf
  <2>3. \A f \in Envs : Alive(f)' <=> Alive(f)
    BY <2>1, <2>2, AliveStays
  <2> QED
    BY <2>1, <2>3, ViewsOfTheSame
<1> QED
  BY <1>1, <1>2, <1>3, <1>4, <1>5, <1>6, DupPageIs

LEMMA DumbForkIsUnseen ==
  ASSUME CowInv, NEW e \in Envs, DumbStep(e)
  PROVE  SameViews
<1>1. CASE DumbFork(e)
  <2>1. /\ prog[e].pc = "run" /\ prog' = [prog EXCEPT ![e] = Prog("dumb", NULL, NULL)]
        /\ UNCHANGED <<pte, data>>
    BY <1>1 DEF DumbFork, At, Goto
  <2>2. Alive(e) /\ Prog("dumb", NULL, NULL).pc = "dumb"
    BY <2>1 DEF Alive, Prog
  <2>3. \A f \in Envs : Alive(f)' <=> Alive(f)
    BY <2>1, <2>2, AliveStays
  <2> QED
    BY <2>1, <2>3, ViewsOfTheSame
<1>2. CASE DumbAlloc(e)
  <2>a. PICK n \in {[prog[e] EXCEPT !.pc = "dmap"]} : TRUE
    OBVIOUS
  <2>b. n.pc = "dmap"
    <3>1. prog[e] \in [pc : Pcs, child : Envs \cup {NULL}, va : VA \cup {NULL}]
      BY DEF CowInv, CowTypes
    <3> QED
      BY <2>a, <3>1
  <2>1. /\ prog[e].pc = "dalloc" /\ fault[e] = NoFault
        /\ Alloc(prog[e].child, prog[e].va, prog[e].va) /\ prog' = [prog EXCEPT ![e] = n]
    BY <1>2, <2>a DEF DumbAlloc, At, Goto
  <2>2. /\ Alive(e) /\ n.pc \notin {"unused", "new"} /\ prog[e].child \in Envs
        /\ ~Alive(prog[e].child) /\ prog[e].va \in VA
    BY <2>1, <2>a, <2>b, ForkerRuns
  <2>3. \A f \in Envs : Alive(f)' <=> Alive(f)
    BY <2>1, <2>2, AliveStays
  <2> QED
    BY <2>1, <2>2, <2>3, ViewsAfterAlloc
<1>3. CASE DumbMap(e)
  <2>a. PICK n \in {[prog[e] EXCEPT !.pc = "dcopy"]},
             pg \in {Page(prog[e].child, prog[e].va)} : TRUE
    OBVIOUS
  <2>b. n.pc = "dcopy"
    <3>1. prog[e] \in [pc : Pcs, child : Envs \cup {NULL}, va : VA \cup {NULL}]
      BY DEF CowInv, CowTypes
    <3> QED
      BY <2>a, <3>1
  <2>1. /\ prog[e].pc = "dmap" /\ fault[e] = NoFault /\ Remap(Mapped(e, UTEMP, pg, {"W"}))
        /\ prog' = [prog EXCEPT ![e] = n]
    BY <1>3, <2>a DEF DumbMap, At, Goto
  <2>2. /\ Alive(e) /\ n.pc \notin {"unused", "new"} /\ prog[e].child \in Envs
        /\ prog[e].va \in VA
    BY <2>1, <2>a, <2>b, ForkerRuns
  <2>3. \A f \in Envs : Alive(f)' <=> Alive(f)
    BY <2>1, <2>2, AliveStays
  <2>4. pg \in InUse(pte) \cup {NULL}
    BY <2>2, <2>a, InUseIs DEF Page
  <2> QED
    BY <2>1, <2>3, <2>4, Places, ViewsAfterRemap DEF Flags
<1>4. CASE DumbCopy(e)
  <2>a. PICK n \in {[prog[e] EXCEPT !.pc = "dunmap"]}, c \in {prog[e].child} : TRUE
    OBVIOUS
  <2>b. n.pc = "dunmap"
    <3>1. prog[e] \in [pc : Pcs, child : Envs \cup {NULL}, va : VA \cup {NULL}]
      BY DEF CowInv, CowTypes
    <3> QED
      BY <2>a, <3>1
  <2>1. /\ prog[e].pc = "dcopy" /\ fault[e] = NoFault /\ pte' = pte
        /\ data' = [data EXCEPT ![Page(e, UTEMP)] = data[Page(e, prog[e].va)]]
        /\ prog' = [prog EXCEPT ![e] = n]
    BY <1>4, <2>a DEF DumbCopy, At, Goto
  <2>2. Alive(e) /\ n.pc \notin {"unused", "new"} /\ c \in Envs /\ ~Alive(c)
    BY <2>1, <2>a, <2>b, ForkerRuns
  <2>3. \A f \in Envs : Alive(f)' <=> Alive(f)
    BY <2>1, <2>2, AliveStays
  <2>4. Page(e, UTEMP) = Page(c, prog[e].va)
    BY <2>1, <2>a DEF CowInv, CopiesOK, CopiesAt, Here, Passes
  <2>5. \A f \in Envs, x \in Image : Alive(f) => Page(f, x) # Page(e, UTEMP)
    BY <2>1, <2>2, <2>4, <2>a, Places, FillsAlone
  <2>6. \A f \in Envs, x \in Image : Alive(f) => data'[Page(f, x)] = data[Page(f, x)]
    BY <2>1, <2>5 DEF CowInv, CowTypes
  <2>7. \A f \in Envs, x \in Image : Page(f, x)' = Page(f, x)
    BY <2>1 DEF Page
  <2> QED
    BY <2>3, <2>6, <2>7, ViewStays DEF SameViews
<1>5. CASE DumbUnmap(e)
  <2>a. PICK n \in {DumbNext(e)} : TRUE
    OBVIOUS
  <2>1. /\ prog[e].pc = "dunmap" /\ fault[e] = NoFault /\ Remap(Mapped(e, UTEMP, NULL, {}))
        /\ prog' = [prog EXCEPT ![e] = n]
    BY <1>5, <2>a DEF DumbUnmap, At, Goto, Mapped, Unmapped
  <2>2. Alive(e) /\ n.pc \notin {"unused", "new"}
    BY <2>1, <2>a, ForkerRuns DEF NextOf
  <2>3. \A f \in Envs : Alive(f)' <=> Alive(f)
    BY <2>1, <2>2, AliveStays
  <2> QED
    BY <2>1, <2>3, Places, ViewsAfterRemap
<1> QED
  BY <1>1, <1>2, <1>3, <1>4, <1>5 DEF DumbStep

\* Neither does the creation of a child, which does not run yet.
LEMMA ExoforkIsUnseen ==
  ASSUME CowInv, NEW e \in Envs, NEW c \in Envs, Exofork(e, c)
  PROVE  SameViews
<1>1. /\ prog[e].pc \in {"exofork", "dumb"} /\ prog[c] = Unused /\ UNCHANGED <<pte, data>>
      /\ \E n : prog' = [prog EXCEPT ![c] = New, ![e] = n] /\ n.pc \in {"dalloc", "dup"}
  <2>1. \A va : Prog("dalloc", c, va).pc = "dalloc" /\ Prog("dup", c, va).pc = "dup"
    BY DEF Prog
  <2> QED
    BY <2>1 DEF Exofork, At
<1>2. PICK n : prog' = [prog EXCEPT ![c] = New, ![e] = n] /\ n.pc \in {"dalloc", "dup"}
  BY <1>1
<1>3. New.pc = "new" /\ Unused.pc = "unused" /\ c # e
  BY <1>1 DEF New, Unused, Prog
<1>4. prog'[e] = n /\ prog'[c] = New /\ \A f \in Envs \ {e, c} : prog'[f] = prog[f]
  BY <1>2, <1>3 DEF CowInv, CowTypes
<1>5. \A f \in Envs : Alive(f)' <=> Alive(f)
  BY <1>1, <1>2, <1>3, <1>4 DEF Alive
<1> QED
  BY <1>1, <1>5, ViewsOfTheSame

-----------------------------------------------------------------------------
(***************************************************************************)
(* fork gives memories of their own: the steps that programs see           *)
(***************************************************************************)

Views == [f \in Envs |-> View(f)]

\* What a program reads at one place.
LEMMA WhatIsRead ==
  ASSUME CowInv, NEW f \in Envs, NEW x \in Image
  PROVE  /\ View(f)[x] = IF Alive(f) /\ Page(f, x) # NULL THEN data[Page(f, x)] ELSE NULL
         /\ View(f)[x] # NULL <=> Alive(f) /\ Page(f, x) # NULL
<1>1. View(f)[x] = IF Alive(f) /\ Page(f, x) # NULL THEN data[Page(f, x)] ELSE NULL
  BY DEF View
<1>2. Page(f, x) # NULL => data[Page(f, x)] \in Data
  <2>1. Page(f, x) # NULL => Page(f, x) \in InUse(pte)
    BY Places, InUseIs DEF Page
  <2> QED
    BY <2>1 DEF CowInv, CowTypes
<1> QED
  BY <1>1, <1>2, NULLAssumption

\* A program writes: it reads that, and so do those it shares the place with.
LEMMA StoreIsWrite ==
  ASSUME CowInv, NEW e \in Envs, NEW va \in Image, NEW v \in Data, Store(e, va, v)
  PROVE  SameViews \/ (Living' = Living /\ Private!Write(e, va, v))
<1>1. /\ Alive(e) /\ fault[e] = NoFault /\ (prog[e] = Idle \/ va = Stack)
      /\ Page(e, va) # NULL /\ UNCHANGED <<pte, prog, forks, panic>>
  BY DEF Store
<1>2. \A f \in Envs : Alive(f)' <=> Alive(f)
  BY <1>1 DEF Alive
<1>3. CASE ~Writable(e, va)
  BY <1>1, <1>2, <1>3, ViewsOfTheSame DEF Store
<1>4. CASE Writable(e, va)
  <2>1. data' = [data EXCEPT ![Page(e, va)] = v] /\ UNCHANGED fault
    BY <1>4 DEF Store
  <2>2. data'[Page(e, va)] = v /\ \A p : p # Page(e, va) => data'[p] = data[p]
    BY <1>1, <1>4, <2>1, WriteKeeps
  <2>3. ASSUME NEW f \in Envs
        PROVE  View(f)' = IF f = e \/ (va \in Shared /\ View(f)[va] # NULL)
                          THEN [View(f) EXCEPT ![va] = v] ELSE View(f)
    <3>1. View(f)' = [x \in Image |-> IF Alive(f) /\ Page(f, x) # NULL
                                      THEN data'[Page(f, x)] ELSE NULL]
      BY <1>1, <1>2 DEF View, Page
    <3>2. f = e \/ (va \in Shared /\ View(f)[va] # NULL)
            <=> Alive(f) /\ Page(f, va) = Page(e, va)
      <4>1. View(f)[va] # NULL <=> Alive(f) /\ Page(f, va) # NULL
        BY WhatIsRead
      <4>2. va \in Shared /\ Page(f, va) # NULL => Page(f, va) = Page(e, va)
        BY <1>1 DEF CowInv, SharedIsOne
      <4>3. Page(f, va) = Page(e, va) =>
              f = e \/ va \in Shared \/ (prog[e].pc = "own" /\ f = prog[e].child)
        BY <1>1, <1>4, Places, WhoReads
      <4>4. prog[e].pc = "own" => ~Alive(prog[e].child)
        BY ChildIsNew DEF HasChild, Passes, Alive
      <4> QED
        BY <1>1, <4>1, <4>2, <4>3, <4>4
    <3>3. \A x \in Image : x # va => Page(f, x) # Page(e, va)
      BY <1>1, <1>4, Places, WhoReads
    <3>4. View(f) = [x \in Image |-> IF Alive(f) /\ Page(f, x) # NULL
                                     THEN data[Page(f, x)] ELSE NULL]
      BY DEF View
    <3>5. CASE Alive(f) /\ Page(f, va) = Page(e, va)
      <4>1. View(f)' = [View(f) EXCEPT ![va] = v]
        BY <1>1, <2>2, <3>1, <3>3, <3>4, <3>5
      <4> QED
        BY <3>2, <3>5, <4>1
    <3>6. CASE ~(Alive(f) /\ Page(f, va) = Page(e, va))
      <4>1. \A x \in Image : Alive(f) => data'[Page(f, x)] = data[Page(f, x)]
        BY <2>2, <3>3, <3>6
      <4>2. View(f)' = View(f)
        BY <3>1, <3>4, <4>1
      <4> QED
        BY <3>2, <3>6, <4>2
    <3> QED
      BY <3>5, <3>6
  <2>4. Living' = Living
    BY <1>2 DEF Living
  <2>5. e \in Living /\ Views[e][va] # NULL
    BY <1>1, WhatIsRead DEF Living, Views
  <2>6. Views' = [f \in Envs |-> IF f = e \/ (va \in Shared /\ Views[f][va] # NULL)
                                 THEN [Views[f] EXCEPT ![va] = v] ELSE Views[f]]
    BY <2>3 DEF Views
  <2>7. Private!Write(e, va, v)
    BY <2>4, <2>5, <2>6 DEF Private!Write, Views
  <2> QED
    BY <2>4, <2>7
<1> QED
  BY <1>3, <1>4

\* The child starts with what its parent has, on a stack of an earlier moment.
LEMMA StartIsFork ==
  ASSUME CowInv, NEW e \in Envs, Start(e)
  PROVE  \E c \in Envs : Private!Fork(e, c)
<1>a. PICK c \in {prog[e].child} : TRUE
  OBVIOUS
<1>1. /\ prog[e].pc = "start" /\ fault[e] = NoFault
      /\ prog' = [prog EXCEPT ![e] = Idle, ![c] = Idle]
      /\ UNCHANGED <<pte, data, fault, forks, panic>>
  BY <1>a DEF Start, At
<1>2. HasChild(e) /\ Alive(e)
  BY <1>1 DEF HasChild, Alive
<1>3. c \in Envs /\ c # e /\ ~Alive(c)
  BY <1>2, <1>a, ChildIsNew DEF Alive
<1>4. prog'[e] = Idle /\ prog'[c] = Idle /\ \A f \in Envs \ {e, c} : prog'[f] = prog[f]
  BY <1>1, <1>3 DEF CowInv, CowTypes
<1>5. Idle.pc = "run"
  BY DEF Idle, Prog
<1>6. Alive(c)' /\ \A f \in Envs \ {c} : Alive(f)' <=> Alive(f)
  BY <1>2, <1>4, <1>5 DEF Alive
<1>7. \A f \in Envs \ {c} : View(f)' = View(f)
  BY <1>1, <1>6, ViewStays DEF Page
<1>8. PICK kept \in {Image, Image \ Shared} : CopiedAll(e, c, kept)
  BY <1>1, <1>a DEF CowInv, CopiesOK, CopiesAt
<1>9. Page(c, Stack) # NULL /\ data[Page(c, Stack)] \in Data
  <2>1. Page(e, Stack) # NULL
    BY <1>2 DEF CowInv, ProgOK, ProgAt
  <2>2. Copied(e, c, Stack, kept) /\ Stack \in kept
    BY <1>8, Places DEF CopiedAll
  <2>3. Page(c, Stack) # NULL
    BY <2>1, <2>2, Places DEF Copied, Lacks
  <2>4. Page(c, Stack) \in InUse(pte)
    BY <1>3, <2>3, Places, InUseIs DEF Page
  <2> QED
    BY <2>3, <2>4 DEF CowInv, CowTypes
<1>10. PICK old \in Data : old = data[Page(c, Stack)]
  BY <1>9
<1>b. PICK lost \in SUBSET Image :
        lost = {x \in Image : x \in kept /\ Page(e, x) # NULL /\ Page(c, x) = NULL}
  OBVIOUS
<1>11. View(c)' = [x \in Image |-> IF x = Stack THEN old
                                   ELSE IF x \in kept \ lost THEN View(e)[x] ELSE NULL]
  <2>1. View(c)' = [x \in Image |-> IF Page(c, x) # NULL THEN data[Page(c, x)] ELSE NULL]
    BY <1>1, <1>6 DEF View, Page
  <2>2. ASSUME NEW x \in Image
        PROVE  (IF Page(c, x) # NULL THEN data[Page(c, x)] ELSE NULL)
                 = (IF x = Stack THEN old
                    ELSE IF x \in kept \ lost THEN View(e)[x] ELSE NULL)
    <3>1. Copied(e, c, x, kept)
      BY <1>8 DEF CopiedAll
    <3>2. View(e)[x] = IF Page(e, x) # NULL THEN data[Page(e, x)] ELSE NULL
      BY <1>2, WhatIsRead
    <3>3. Page(c, x) = NULL => x \notin kept \ lost \/ Page(e, x) = NULL
      BY <1>b
    <3>4. Page(c, x) # NULL => x \in kept \ lost /\ Page(e, x) # NULL
      BY <1>b, <3>1 DEF Copied
    <3> QED
      BY <1>9, <1>10, <3>1, <3>2, <3>3, <3>4 DEF Copied
  <2> QED
    BY <2>1, <2>2
<1>12. Views' = [Views EXCEPT ![c] =
                   [x \in Image |-> IF x = Stack THEN old
                                    ELSE IF x \in kept \ lost THEN Views[e][x] ELSE NULL]]
  <2>1. Views[e] = View(e)
    BY DEF Views
  <2> QED
    BY <1>3, <1>7, <1>11, <2>1 DEF Views
<1>13. e \in Living /\ c \notin Living /\ Living' = Living \cup {c}
  BY <1>2, <1>3, <1>6 DEF Living
<1>14. lost \in SUBSET Text
  <2>1. \A x \in lost : Copied(e, c, x, kept)
    BY <1>8 DEF CopiedAll
  <2> QED
    BY <1>b, <2>1 DEF Copied, Lacks
<1>15. ASSUME NEW x \in lost, NEW y \in Below(x), View(e)[y] # NULL
       PROVE  y \in lost
  <2>1. Copied(e, c, x, kept) /\ x \in kept /\ Page(e, x) # NULL /\ Page(c, x) = NULL
    BY <1>8, <1>b DEF CopiedAll
  <2>2. kept = Image /\ Page(c, y) = NULL
    BY <2>1 DEF Copied, Lacks
  <2>3. y \in Image /\ Page(e, y) # NULL
    BY <1>2, <1>15, WhatIsRead DEF Below
  <2> QED
    BY <1>b, <2>2, <2>3
<1>16. Private!Lost(e, lost)
  <2>1. Views[e] = View(e)
    BY DEF Views
  <2>2. \A x \in lost : \A y \in Below(x) : Views[e][y] # NULL => y \in lost
    BY <1>15, <2>1
  <2> QED
    BY <2>2 DEF Private!Lost, Views
<1>17. Private!Fork(e, c)
  <2>1. \E k \in {Image, Image \ Shared}, l \in SUBSET Text, o \in Data :
          /\ Private!Lost(e, l)
          /\ Views' = [Views EXCEPT ![c] =
               [x \in Image |-> IF x = Stack THEN o
                                ELSE IF x \in k \ l THEN Views[e][x] ELSE NULL]]
    BY <1>12, <1>14, <1>16, Zenon
  <2> QED
    BY <1>13, <2>1 DEF Private!Fork, Views
<1> QED
  BY <1>3, <1>17

LEMMA ExitIsExit ==
  ASSUME CowInv, NEW e \in Envs, Exit(e)
  PROVE  Private!Exit(e)
<1>1. /\ prog[e].pc = "run" /\ data' = [p \in InUse(pte') |-> data[p]]
      /\ prog' = [prog EXCEPT ![e] = Unused] /\ Unused.pc = "unused"
  BY DEF Exit, At, Goto, Remap, Kept, Unused, Prog
<1>2. \A f \in Envs \ {e} : pte'[f] = pte[f]
  BY ExitKeeps
<1>3. prog'[e] = Unused /\ \A f \in Envs \ {e} : prog'[f] = prog[f]
  BY <1>1 DEF CowInv, CowTypes
<1>4. Alive(e) /\ ~Alive(e)' /\ \A f \in Envs \ {e} : Alive(f)' <=> Alive(f)
  BY <1>1, <1>3 DEF Alive
<1>5. ASSUME NEW f \in Envs \ {e}
      PROVE  View(f)' = View(f)
  <2>1. \A x \in Image : Page(f, x)' = Page(f, x)
    BY <1>2 DEF Page
  <2>2. \A x \in Image : Page(f, x) # NULL => data'[Page(f, x)] = data[Page(f, x)]
    <3>1. \A x \in Image : Page(f, x) # NULL => Page(f, x) \in InUse(pte')
      BY <1>2, Places, InUseIs DEF Page
    <3> QED
      BY <1>1, <3>1
  <2> QED
    BY <1>4, <2>1, <2>2, ViewStays
<1>6. View(e)' = [x \in Image |-> NULL]
  BY <1>4 DEF View
<1>7. Views' = [Views EXCEPT ![e] = [x \in Image |-> NULL]]
  BY <1>5, <1>6 DEF Views
<1>8. e \in Living /\ Living' = Living \ {e}
  BY <1>4 DEF Living
<1> QED
  BY <1>7, <1>8 DEF Private!Exit, Private!Nothing, Views

\* fork as programs see it: a child starts with the memory of its parent, and
\* nobody ever reads what another wrote, but in the pages that they share.  The
\* child may lack read-only pages, those that precede all others the parent has
\* in their table, if no page was left for the table when duppage came to them.
THEOREM MemoriesArePrivate == Spec => ForksAreCopies
<1>1. Init => Private!Start(0, [va \in Image |-> 0])
  <2> SUFFICES ASSUME Init
               PROVE  Private!Start(0, [va \in Image |-> 0])
    OBVIOUS
  <2>1. \A e \in Envs : Alive(e) <=> e = 0
    BY DEF Init, Alive, Idle, Unused, Prog
  <2>2. Living = {0}
    BY <2>1, ProgramsAssumption DEF Living
  <2>3. \A va \in VA : <<0, va, 0>> # NULL
    <3>1. Cardinality(Envs \X VA) \in Nat
      BY PlacesAssumption, ProgramsAssumption, FS_Product, FS_CardinalityType
    <3>2. \A va \in VA : <<0, va, 0>> \in Frames
      BY <3>1, ProgramsAssumption DEF Frames
    <3> QED
      BY <3>2, NULLAssumption
  <2>4. \A va \in Image : Page(0, va) = <<0, va, 0>> /\ data[<<0, va, 0>>] = 0
    <3>1. \A va \in Image : Page(0, va) = <<0, va, 0>>
      BY Places, ProgramsAssumption DEF Init, Page
    <3>2. data = [p \in {<<0, va, 0>> : va \in Image} |-> 0]
      BY DEF Init
    <3> QED
      BY <3>1, <3>2
  <2>5. \A e \in Envs : View(e) = IF e = 0 THEN [va \in Image |-> 0] ELSE [va \in Image |-> NULL]
    <3>1. View(0) = [va \in Image |-> 0]
      BY <2>1, <2>3, <2>4, Places, ProgramsAssumption DEF View
    <3>2. \A e \in Envs : e # 0 => View(e) = [va \in Image |-> NULL]
      BY <2>1 DEF View
    <3> QED
      BY <3>1, <3>2
  <2> QED
    BY <2>2, <2>5 DEF Private!Start, Private!Nothing
<1>2. CowInv /\ [Next]_vars => [Private!Step]_<<Living, [e \in Envs |-> View(e)]>>
  <2> SUFFICES ASSUME CowInv, [Next]_vars
               PROVE  Private!Step \/ SameViews
    <3>1. SameViews => UNCHANGED <<Living, [e \in Envs |-> View(e)]>>
      BY DEF SameViews, Living
    <3> QED
      BY <3>1
  <2>1. CASE UNCHANGED vars
    BY <2>1, ViewsOfTheSame DEF vars, Alive
  <2>2. ASSUME NEW e \in Envs, Handler(e) \/ CowStep(e) \/ DumbStep(e) \/ Exit(e)
        PROVE  Private!Step \/ SameViews
    <3>1. Start(e) => Private!Step
      BY StartIsFork DEF Private!Step
    <3>2. Exit(e) => Private!Step
      BY ExitIsExit DEF Private!Step
    <3> QED
      BY <2>2, <3>1, <3>2, HandlerIsUnseen, CowForkIsUnseen, DumbForkIsUnseen DEF CowStep
  <2>3. ASSUME NEW e \in Envs, NEW c \in Envs, Exofork(e, c)
        PROVE  SameViews
    BY <2>3, ExoforkIsUnseen
  <2>4. ASSUME NEW e \in Envs, NEW va \in Image \ Text, NEW v \in Data \ {0}, Store(e, va, v)
        PROVE  Private!Step \/ SameViews
    BY <2>4, StoreIsWrite DEF Private!Step
  <2> QED
    BY <2>1, <2>2, <2>3, <2>4 DEF Next
<1> QED
  BY <1>1, <1>2, CowInvariant, PTL DEF Spec, ForksAreCopies

=============================================================================
