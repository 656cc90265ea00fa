--------------------------------- MODULE Loader ---------------------------------
(***************************************************************************)
(* How a program gets into memory: spawn (lib/spawn.c), which builds a     *)
(* child page by page through UTEMP, and load_icode (kern/env.c), which    *)
(* the kernel uses for the first environments.                             *)
(*                                                                         *)
(* Memory is a partial function from addresses to what a byte holds.  A    *)
(* word takes WORD bytes: its value is in the first one, More in the       *)
(* others; characters are codes.  Byte k of the program file holds k + 1.  Each system call of   *)
(* spawn may fail, and a failure ends it as the code does.                 *)
(***************************************************************************)
EXTENDS Integers, Sequences, FiniteSets, SequencesExt

CONSTANTS
  PAGE, WORD,        \* PGSIZE, sizeof(uintptr_t)
  NPTENT,            \* NPTENTRIES
  StackPage,         \* the page below USTACKTOP
  LastPage,          \* the page below UXSTACKTOP
  Calls              \* calls of spawn: the arguments, as sequences of codes, the
                     \* program's segments [va, memsz, filesz, offset], the size of
                     \* its file, and the pages that the parent maps with PTE_SHARE
                     \* and without

More == -1         \* in the bytes of a word
Stale == -2        \* in a page that was not cleared

RoundDown(a, n) == (a \div n) * n
RoundUp(a, n) == RoundDown(a + n - 1, n)
RangeOf(a, n) == a .. a + n - 1

\* The pages of a segment
Extent(seg) == RoundDown(seg.va, PAGE) .. RoundUp(seg.va + seg.memsz, PAGE) - 1

Segment == [va : Nat, memsz : Nat, filesz : Nat, offset : Nat]

ASSUME LoaderAssumption ==
  /\ WORD \in Nat \ {0} /\ PAGE \in Nat \ {0} /\ PAGE % WORD = 0
  /\ NPTENT \in Nat \ {0} /\ StackPage \in Nat /\ LastPage \in Nat

\* No NUL within an argument.  No two segments overlap on the same page, as the
\* linker guarantees (the comment in spawn), nor does one on the stack's page,
\* which is far above any program; and no segment has more in the file than in
\* memory (the hints at load_icode).
ASSUME CallsAssumption ==
  \A call \in Calls :
    /\ call.args \in Seq(Seq(Nat \ {0}))
    /\ call.segs \in Seq(Segment)
    /\ \A i \in DOMAIN call.segs :
         /\ call.segs[i].filesz <= call.segs[i].memsz
         /\ Extent(call.segs[i]) \cap RangeOf(StackPage * PAGE, PAGE) = {}
         /\ \A j \in DOMAIN call.segs \ {i} : Extent(call.segs[i]) \cap Extent(call.segs[j]) = {}
    /\ call.size \in Nat /\ call.shared \subseteq Nat /\ call.private \subseteq Nat

\* What memory holds when f is stored over it
Over(f, m) == [b \in DOMAIN f \cup DOMAIN m |-> IF b \in DOMAIN f THEN f[b] ELSE m[b]]

-----------------------------------------------------------------------------
\* init_stack: where the strings and the argv array go in the page at UTEMP
StringSize(argv) == FoldLeft(LAMBDA n, arg : n + Len(arg) + 1, 0, argv)
StringStore(argv, i) == PAGE - StringSize(argv) + StringSize(SubSeq(argv, 1, i - 1))
ArgvStore_Unaligned(argv) == PAGE - StringSize(argv) - WORD * (Len(argv) + 1)
ArgvStore(argv) == RoundDown(PAGE - StringSize(argv), WORD) - WORD * (Len(argv) + 1)
StackFits(argv) == ArgvStore(argv) - 2 * WORD >= 0

Stack(a) == a + StackPage * PAGE          \* UTEMP2USTACK
Word(a, value) == [b \in RangeOf(a, WORD) |-> IF b = a THEN value ELSE More]
StringBytes(a, s) == [b \in RangeOf(a, Len(s) + 1) |-> IF b - a < Len(s) THEN s[b - a + 1] ELSE 0]
Zeroes(a, n) == [b \in RangeOf(a, n) |-> 0]
WithStores(page, stores) == FoldLeft(LAMBDA m, s : Over(s, m), page, stores)

InitStack(argv) ==
  LET argc == Len(argv)
      base == ArgvStore(argv)
  IN  WithStores(Zeroes(0, PAGE),
        [i \in 1 .. argc |-> Word(base + WORD * (i - 1), Stack(StringStore(argv, i)))]
        \o [i \in 1 .. argc |-> StringBytes(StringStore(argv, i), argv[i])]
        \o <<Word(base + WORD * argc, 0), Word(base - WORD, Stack(base)), Word(base - 2 * WORD, argc)>>)

-----------------------------------------------------------------------------
\* The bytes of the file from an offset on
FileBytes(at, offset, n) == [b \in RangeOf(at, n) |-> offset + (b - at) + 1]

Lower(a, b) == IF a < b THEN a ELSE b

\* map_segment: the page at va + i, blank or from the file through UTEMP, where
\* readn stops without an error at the end of a file that is too short
FromFile(filesz, i) == Lower(filesz - i, PAGE)
SegmentPage(seg, i, size) ==
  LET off == seg.va % PAGE
      va == seg.va - off + i
      filesz == seg.filesz + off
      offset == seg.offset - off + i
  IN  IF i >= filesz
      THEN Zeroes(va, PAGE)
      ELSE Over(FileBytes(va, offset, Lower(FromFile(filesz, i), size - offset)), Zeroes(va, PAGE))
SegmentPages(seg) ==
  LET memsz == seg.memsz + (seg.va % PAGE)
  IN  {i \in 0 .. memsz : i % PAGE = 0 /\ i < memsz}

\* load_icode: region_alloc leaves what the pages held, then the copy and
\* memset, which reach only what is mapped.
RegionEnd(va, len) == RoundUp(va + len, PAGE)
region_alloc(va, len) ==
  [b \in RoundDown(va, PAGE) .. RegionEnd(va, len) - 1 |-> Stale]
LoadSegment(m, seg) ==
  LET mapped == Over(region_alloc(seg.va, seg.memsz), m)
      copied == Over(FileBytes(seg.va, seg.offset, seg.filesz), mapped)
      cleared == Over(Zeroes(seg.va + seg.filesz, seg.memsz - seg.filesz), copied)
  IN  IF seg.filesz > seg.memsz THEN m ELSE [b \in DOMAIN mapped |-> cleared[b]]
LoadIcode(segs) == FoldLeft(LoadSegment, <<>>, segs)

-----------------------------------------------------------------------------
\* copy_shared_pages: from page pn on, a table that is not there is skipped
Tables(pages) == {pn \div NPTENT : pn \in pages}
SkipTable(pn) == pn + NPTENT - 1
CopiedFrom(mapped, shared) ==
  LET Copied[pn \in Nat] ==
        IF pn >= LastPage THEN {}
        ELSE IF pn \div NPTENT \notin Tables(mapped) /\ pn % NPTENT = 0
        THEN Copied[SkipTable(pn) + 1]
        ELSE (IF pn \in shared THEN {pn} ELSE {}) \cup Copied[pn + 1]
  IN  Copied[0]

-----------------------------------------------------------------------------
\* spawn, a system call or a file request after the other
VARIABLES
  ldPc,        \* the next step of spawn
  ldCall,      \* what it is called with, one of Calls
  ldMem, ldPages,      \* the child's memory, and the shared pages it has
  ldOpen,      \* the program file is open
  ldChild      \* the child: "none", ENV_NOT_RUNNABLE, ENV_RUNNABLE

ldVars == <<ldPc, ldCall, ldMem, ldPages, ldOpen, ldChild>>

\* where spawn is: in a segment, in which one and at which offset
Where(step, n, i) == [step |-> step, n |-> n, i |-> i]

LdInit ==
  /\ ldPc = Where("open", 0, 0) /\ ldOpen = FALSE /\ ldChild = "none"
  /\ ldMem = <<>> /\ ldPages = {}
  /\ ldCall \in Calls

Go(pc) == ldPc' = pc /\ UNCHANGED ldCall
SpawnReturn == Go(Where("done", 0, 0)) /\ UNCHANGED <<ldMem, ldPages, ldOpen, ldChild>>

\* open, and the magic number of the header: the file is closed if it is wrong
Open ==
  /\ ldPc.step = "open"
  /\ \/ SpawnReturn
     \/ /\ Go(Where("fork", 0, 0)) /\ ldOpen' = TRUE
        /\ UNCHANGED <<ldMem, ldPages, ldChild>>

\* A failure here, or in init_stack, leaves the file open, and the child.
Exofork ==
  /\ ldPc.step = "fork"
  /\ \/ SpawnReturn
     \/ /\ Go(Where("stack", 0, 0)) /\ ldChild' = "ENV_NOT_RUNNABLE"
        /\ UNCHANGED <<ldMem, ldPages, ldOpen>>

InitStackPage ==
  /\ ldPc.step = "stack"
  /\ \/ SpawnReturn
     \/ /\ StackFits(ldCall.args)
        /\ LET page == InitStack(ldCall.args)
           IN  ldMem' = [a \in {Stack(b) : b \in DOMAIN page} |-> page[a - StackPage * PAGE]]
        /\ Go(Where("segment", 1, 0))
        /\ UNCHANGED <<ldPages, ldOpen, ldChild>>

\* A page of a segment; a failure destroys the child and closes the file, but if
\* the page at UTEMP cannot be mapped in the child spawn panics.
LoadPage ==
  /\ ldPc.step = "segment" /\ ldPc.n <= Len(ldCall.segs)
  /\ LET n == ldPc.n
         i == ldPc.i
     IN  IF i \in SegmentPages(ldCall.segs[n])
         THEN \/ /\ Go(Where("done", 0, 0)) /\ ldOpen' = FALSE /\ ldChild' = "none"
                 /\ ldMem' = <<>> /\ UNCHANGED ldPages
              \/ /\ i < ldCall.segs[n].filesz + (ldCall.segs[n].va % PAGE)
                 /\ Go(Where("panic", 0, 0)) /\ UNCHANGED <<ldMem, ldPages, ldOpen, ldChild>>
              \/ /\ ldMem' = Over(SegmentPage(ldCall.segs[n], i, ldCall.size), ldMem)
                 /\ Go(Where("segment", n, i + PAGE))
                 /\ UNCHANGED <<ldPages, ldOpen, ldChild>>
         ELSE Go(Where("segment", n + 1, 0)) /\ UNCHANGED <<ldMem, ldPages, ldOpen, ldChild>>

\* The file is closed, the shared pages follow; a failure here panics.
CopySharedPages ==
  /\ ldPc.step = "segment" /\ ldPc.n > Len(ldCall.segs)
  /\ ldOpen' = FALSE
  /\ \/ Go(Where("panic", 0, 0)) /\ UNCHANGED ldPages
     \/ Go(Where("start", 0, 0)) /\ ldPages' = CopiedFrom(ldCall.private \cup ldCall.shared, ldCall.shared)
  /\ UNCHANGED <<ldMem, ldChild>>

\* sys_env_set_trapframe and sys_env_set_status
StartChild ==
  /\ ldPc.step = "start"
  /\ Go(Where("done", 0, 0))
  /\ ldChild' = "ENV_RUNNABLE"
  /\ UNCHANGED <<ldMem, ldPages, ldOpen>>

LdNext ==
  \/ Open \/ Exofork \/ InitStackPage
  \/ LoadPage \/ CopySharedPages
  \/ StartChild

LoaderSpec == LdInit /\ [][LdNext]_ldVars

-----------------------------------------------------------------------------
(***************************************************************************)
(* Properties                                                              *)
(***************************************************************************)

\* What main gets when it reads argc and argv from the stack pointer that
\* spawn has set: the arguments, each string ended by NUL, and a null pointer.
ReadString(m, a) ==
  LET n == CHOOSE k \in 0 .. PAGE : m[a + k] = 0 /\ \A j \in 0 .. k - 1 : m[a + j] # 0
  IN  [k \in 1 .. n |-> m[a + k - 1]]
IsWordAt(m, a) == a % WORD = 0 /\ \A k \in 1 .. WORD - 1 : m[a + k] = More
InitEsp == Stack(ArgvStore(ldCall.args) - 2 * WORD)
MainSeesArguments ==
  ldChild = "ENV_RUNNABLE" =>
    LET argc == ldMem[InitEsp]
        argv == ldMem[InitEsp + WORD]
        Arg(i) == argv + WORD * (i - 1)
    IN  /\ \A a \in {InitEsp, InitEsp + WORD} \cup {Arg(i) : i \in 1 .. argc + 1} : IsWordAt(ldMem, a)
        /\ ldCall.args = [i \in 1 .. argc |-> ReadString(ldMem, ldMem[Arg(i)])]
        /\ ldMem[Arg(argc + 1)] = 0

\* A segment holds its part of the file, len bytes, and zeroes behind it,
\* wherever it begins and ends in its pages.  load_icode finds the whole program
\* in memory; spawn starts a program whose file is too short as well, and what
\* the file does not have is zero.
IsLoaded(m, seg, len) ==
  \A k \in 0 .. seg.memsz - 1 :
    /\ seg.va + k \in DOMAIN m
    /\ m[seg.va + k] = IF k < len THEN seg.offset + k + 1 ELSE 0
BytesInFile(seg, size) == Lower(seg.filesz, size - seg.offset)
ProgramIsLoaded ==
  ldChild = "ENV_RUNNABLE" =>
    \A i \in DOMAIN ldCall.segs : IsLoaded(ldMem, ldCall.segs[i], BytesInFile(ldCall.segs[i], ldCall.size))
KernelLoadsIt ==
  ldPc.step = "open" =>
    \A i \in DOMAIN ldCall.segs : IsLoaded(LoadIcode(ldCall.segs), ldCall.segs[i], ldCall.segs[i].filesz)

\* The child has exactly the shared pages of its parent, the user exception
\* stack excepted.
SharesDescriptors ==
  ldChild = "ENV_RUNNABLE" => ldPages = {pn \in ldCall.shared : pn < LastPage}

\* A program starts with its arguments, its segments and its parent's files
\* (spawn, load_icode).
ChildIsComplete == MainSeesArguments /\ ProgramIsLoaded /\ KernelLoadsIt /\ SharesDescriptors
=============================================================================
