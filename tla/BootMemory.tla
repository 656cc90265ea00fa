------------------------------- MODULE BootMemory -------------------------------
(***************************************************************************)
(* mem_init of kern/pmap.c: how the kernel finds the memory of the         *)
(* machine, sets up the list of free pages and builds the address space    *)
(* that every environment's directory is a copy of.                        *)
(*                                                                         *)
(* Addresses count pages.  A directory and a table have NPT entries, and   *)
(* the kernel's tables are the topmost ones, as in inc/memlayout.h.  Until *)
(* lcr3 the processor uses entry_pgdir, which maps the first ENTRYTABLES   *)
(* tables' worth of memory only.  After mem_init, Pmap takes over.         *)
(***************************************************************************)
EXTENDS Integers, Sequences, FiniteSets, TLC

LOCAL INSTANCE FiniteSetsExt
LOCAL INSTANCE SequencesExt

CONSTANTS
  Machines,     \* pairs <<base memory, extended memory>>, in pages
  EXTPHYSMEM,   \* where extended memory and the kernel begin
  KernelEnd,    \* the page after the kernel (end, rounded up)
  BootStack,    \* the first page of bootstack in the kernel
  KSTKSIZE,
  NPT,
  KERNTABLES,   \* tables of [KERNBASE, 2^32)
  ENTRYTABLES,
  PAGEINFOS,    \* struct PageInfos in a page
  ENVPAGES      \* pages of the array envs

VARIABLES
  boot,            \* "detect", "arrays", "list", "check", "map", "switch", "done" or "panic"
  npages, npages_basemem,
  nextfree,        \* of boot_alloc
  arrays,          \* where boot_alloc put kern_pgdir, pages, envs and vsys
  pp_ref, page_free_list,
  memory,          \* the entries in the pages that are a directory or a table
  loop             \* in boot_map_region: the call and the page of it

bootVars ==
  <<boot, npages, npages_basemem, nextfree, arrays, pp_ref, page_free_list, memory, loop>>

KERNBASE == (NPT - KERNTABLES) * NPT
KSTACKTOP == KERNBASE
ULIM == KSTACKTOP - 2 * NPT
UVPT == ULIM - NPT
UPAGES == UVPT - NPT
UENVS == UPAGES - NPT
UVSYS == UENVS - NPT

kern_pgdir == arrays[1]
pages == arrays[2]
envs == arrays[3]
vsysArray == arrays[4]
PagesSize == (npages + PAGEINFOS - 1) \div PAGEINFOS
ArraySizes == <<1, PagesSize, ENVPAGES, 1>>

PageEntry(pa, w, u) == [p |-> TRUE, pa |-> pa, w |-> w, u |-> u]
NoEntry == [p |-> FALSE, pa |-> 0, w |-> FALSE, u |-> FALSE]
EmptyTable == [i \in 0 .. NPT - 1 |-> NoEntry]

BootMemInit ==
  /\ boot = "detect"
  /\ npages = 0 /\ npages_basemem = 0 /\ nextfree = KernelEnd
  /\ arrays = <<>> /\ pp_ref = <<>> /\ page_free_list = <<>> /\ memory = <<>>
  /\ loop = [call |-> 1, i |-> 0]

Halt ==
  /\ boot' = "panic"
  /\ UNCHANGED <<npages, npages_basemem, nextfree, arrays, pp_ref, page_free_list, memory, loop>>

i386_detect_memory(base, ext) ==
  /\ boot = "detect"
  /\ npages_basemem' = base
  /\ npages' = IF ext > 0 THEN EXTPHYSMEM + ext ELSE base
  /\ boot' = "arrays"
  /\ UNCHANGED <<nextfree, arrays, pp_ref, page_free_list, memory, loop>>

\* boot_alloc for the next array
NextArray == Len(arrays) + 1
ArrayFits == nextfree + ArraySizes[NextArray] < npages
boot_alloc ==
  /\ boot = "arrays" /\ ArrayFits
  /\ arrays' = Append(arrays, nextfree)
  /\ nextfree' = nextfree + ArraySizes[NextArray]
  /\ memory' = IF arrays = <<>>
               THEN nextfree :> [EmptyTable EXCEPT ![UVPT \div NPT] = PageEntry(nextfree, FALSE, TRUE)]
               ELSE memory
  /\ boot' = IF NextArray = Len(ArraySizes) THEN "list" ELSE boot
  /\ UNCHANGED <<npages, npages_basemem, pp_ref, page_free_list, loop>>
boot_alloc_Fails == boot = "arrays" /\ ~ArrayFits /\ Halt

\* The list is built from its end.
page_init ==
  /\ boot = "list"
  /\ page_free_list' = SelectSeq([k \in 1 .. npages - 1 |-> npages - k],
                                 LAMBDA i : i < npages_basemem \/ i >= nextfree)
  /\ pp_ref' = [i \in 0 .. npages - 1 |->
                  IF i = 0 \/ i \in npages_basemem .. nextfree - 1 THEN 1 ELSE 0]
  /\ boot' = "check"
  /\ UNCHANGED <<npages, npages_basemem, nextfree, arrays, memory, loop>>

\* check_page_free_list moves the pages with lower addresses to the front;
\* check_page_alloc leaves the list as it was, and check_page has taken three
\* pages and gives them back in the order in which it took them.
Low(p) == p < NPT
LowFirst_Unsorted(list) == list
LowFirst(list) == SelectSeq(list, Low) \o SelectSeq(list, LAMBDA p : ~Low(p))
TakenAndFreed(list) == Reverse(SubSeq(list, 1, 3)) \o SubSeq(list, 4, Len(list))
ListHolds(list) ==
  /\ \E p \in ToSet(list) : p < EXTPHYSMEM
  /\ \E p \in ToSet(list) : p >= EXTPHYSMEM
  /\ Len(list) >= 3
check_page_free_list ==
  /\ boot = "check" /\ ListHolds(page_free_list)
  /\ page_free_list' = TakenAndFreed(LowFirst(page_free_list))
  /\ boot' = "map"
  /\ UNCHANGED <<npages, npages_basemem, nextfree, arrays, pp_ref, memory, loop>>
check_page_free_list_Fails == boot = "check" /\ ~ListHolds(page_free_list) /\ Halt

\* The calls of boot_map_region
Region(va, size, pa, w, u) == [va |-> va, size |-> size, pa |-> pa, w |-> w, u |-> u]
StaticRegions ==
  <<Region(UPAGES, PagesSize, pages, FALSE, TRUE),
    Region(KERNBASE + pages, PagesSize, pages, TRUE, FALSE),
    Region(UENVS, ENVPAGES, envs, FALSE, TRUE),
    Region(KERNBASE + envs, ENVPAGES, envs, TRUE, FALSE),
    Region(UVSYS, 1, vsysArray, FALSE, TRUE),
    Region(KSTACKTOP - KSTKSIZE, KSTKSIZE, BootStack, TRUE, FALSE),
    Region(KERNBASE, KERNTABLES * NPT, 0, TRUE, FALSE)>>

\* One turn of its loop, with pgdir_walk.  A table that entry_pgdir does not
\* map cannot be cleared; without a free page the entry is stored at address 0,
\* which is not mapped either: the processor faults with no handler.
region == StaticRegions[loop.call]
vaddr == region.va + loop.i
HasTable == memory[kern_pgdir][vaddr \div NPT].p
EntryMaps(p) == p < ENTRYTABLES * NPT
TableAtHand == page_free_list # <<>> /\ EntryMaps(Head(page_free_list))
boot_map_region ==
  /\ boot = "map"
  /\ HasTable \/ TableAtHand
  /\ LET t == IF HasTable THEN memory[kern_pgdir][vaddr \div NPT].pa ELSE Head(page_free_list)
         walked == IF HasTable THEN memory
                   ELSE (t :> EmptyTable) @@
                        [memory EXCEPT ![kern_pgdir][vaddr \div NPT] = PageEntry(t, TRUE, TRUE)]
     IN  /\ memory' = [walked EXCEPT ![t][vaddr % NPT] =
                         PageEntry(region.pa + loop.i, region.w, region.u)]
         /\ page_free_list' = IF HasTable THEN page_free_list ELSE Tail(page_free_list)
         /\ pp_ref' = IF HasTable THEN pp_ref ELSE [pp_ref EXCEPT ![t] = @ + 1]
  /\ loop' = IF loop.i + 1 < region.size THEN [loop EXCEPT !.i = @ + 1]
             ELSE [call |-> loop.call + 1, i |-> 0]
  /\ boot' = IF loop'.call > Len(StaticRegions) THEN "switch" ELSE boot
  /\ UNCHANGED <<npages, npages_basemem, nextfree, arrays>>
boot_map_region_Fails == boot = "map" /\ ~HasTable /\ ~TableAtHand /\ Halt

\* lcr3; check_page_installed_pgdir takes three pages and gives them back, the
\* first, which was a table, last.
lcr3 ==
  /\ boot = "switch" /\ Len(page_free_list) >= 3
  /\ page_free_list' = <<page_free_list[1], page_free_list[3], page_free_list[2]>>
                       \o SubSeq(page_free_list, 4, Len(page_free_list))
  /\ boot' = "done"
  /\ UNCHANGED <<npages, npages_basemem, nextfree, arrays, pp_ref, memory, loop>>
lcr3_Fails == boot = "switch" /\ Len(page_free_list) < 3 /\ Halt

BootMemNext ==
  \/ \E m \in Machines : i386_detect_memory(m[1], m[2])
  \/ boot_alloc \/ boot_alloc_Fails
  \/ page_init
  \/ check_page_free_list \/ check_page_free_list_Fails
  \/ boot_map_region \/ boot_map_region_Fails
  \/ lcr3 \/ lcr3_Fails

-----------------------------------------------------------------------------
\* What the processor finds at an address once kern_pgdir is loaded: an access
\* needs the permission in the directory and in the table.
Translate(a) ==
  LET pde == memory[kern_pgdir][a \div NPT]
      pte == memory[pde.pa][a % NPT]
  IN  IF pde.p /\ pte.p THEN PageEntry(pte.pa, pde.w /\ pte.w, pde.u /\ pte.u) ELSE NoEntry

\* From page_init on, a page is in the list, once, exactly if nobody uses it:
\* neither the machine and the kernel nor an array or a table (page_init,
\* pgdir_walk, and the checks that take pages and give them back).
TablePages == DOMAIN memory
FreePagesAreFree ==
  boot \in {"check", "map", "switch", "done"} =>
    /\ IsInjective(page_free_list)
    /\ ToSet(page_free_list) =
         (0 .. npages - 1) \ ({0} \cup (npages_basemem .. nextfree - 1) \cup TablePages)
    /\ \A p \in 0 .. npages - 1 : pp_ref[p] = 0 <=> p \in ToSet(page_free_list)

\* The address space is the one of inc/memlayout.h: all memory at KERNBASE, the
\* kernel stack over an unmapped gap, nothing below UTOP; users read the three
\* arrays and the tables, and write nothing.
PagesFrom(a, n) == a .. a + n - 1
SpaceIsRight ==
  boot = "done" =>
    LET all == 0 .. NPT * NPT - 1
        mapped == {a \in all : Translate(a).p}
    IN  /\ \A a \in all : a >= KERNBASE =>
             Translate(a) = PageEntry(a - KERNBASE, TRUE, FALSE)
        /\ \A i \in 0 .. KSTKSIZE - 1 :
             Translate(KSTACKTOP - KSTKSIZE + i) = PageEntry(BootStack + i, TRUE, FALSE)
        /\ mapped \cap (ULIM .. KERNBASE - 1) = PagesFrom(KSTACKTOP - KSTKSIZE, KSTKSIZE)
        /\ mapped \cap (0 .. UVSYS - 1) = {}
        /\ {Translate(a).pa : a \in {b \in mapped : Translate(b).u}} =
             TablePages \cup PagesFrom(pages, PagesSize) \cup PagesFrom(envs, ENVPAGES) \cup {vsysArray}
        /\ \A a \in mapped : ~(Translate(a).u /\ Translate(a).w)
        /\ \A i \in 0 .. PagesSize - 1 : Translate(UPAGES + i).pa = pages + i
        /\ \A t \in 0 .. NPT - 1 :
             Translate(UVPT + t).p => Translate(UVPT + t).pa = memory[kern_pgdir][t].pa

\* The kernel stops at boot only on a machine that has too little memory: for the
\* arrays that boot_alloc hands out, for the tables within the first NPT pages,
\* however much memory lies behind those, or for the tables and the three pages
\* of the self-test in all (boot_alloc, check_page_free_list, boot_map_region).
TablesNeeded == KERNTABLES + 4
LowFree == Cardinality({p \in 1 .. npages - 1 : Low(p) /\ (p < npages_basemem \/ p >= nextfree)})
BootsIfItCan ==
  boot = "panic" =>
    \/ npages <= nextfree + Max({0} \cup {ArraySizes[i] : i \in DOMAIN ArraySizes})
    \/ LowFree < TablesNeeded
    \/ npages - nextfree + npages_basemem - 1 < TablesNeeded + 3
=============================================================================
