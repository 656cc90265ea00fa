-------------------------------- MODULE MCParts --------------------------------
(***************************************************************************)
(* Small instances for TLC of modules about parts of the system that share *)
(* no state with the others: the processor and its devices, the libraries, *)
(* and environments that outlive their creators, which is Kernel with ids  *)
(* that do not come round.  Each behaviour is one of one of them.          *)
(***************************************************************************)
EXTENDS Upcall, Interrupts, Console, Terminal, Clock, Calendar,
        Printfmt, Lexer, Shell, Loader, Args, Kdebug, Directory,
        BootMemory, Image, Kernel

VARIABLE part      \* the one that runs

Parts ==
  {"upcall", "interrupts", "console", "terminal", "clock", "calendar", "strings",
   "printfmt", "lexer", "shell", "loader", "args", "kdebug", "directory",
   "memory", "image", "orphans"}

partVars ==
  <<upVars, intVars, conVars, termVars, clockVars, calVars, strVars,
    fmtVars, lexVars, shVars, ldVars, argVars, dbgVars, dirVars,
    bootVars, imageVars, vars, part>>

\* Only the variables of part p change.
Only(p) ==
  /\ part = p /\ part' = p
  /\ IF p = "upcall" THEN TRUE ELSE UNCHANGED upVars
  /\ IF p = "interrupts" THEN TRUE ELSE UNCHANGED intVars
  /\ IF p = "console" THEN TRUE ELSE UNCHANGED conVars
  /\ IF p = "terminal" THEN TRUE ELSE UNCHANGED termVars
  /\ IF p = "clock" THEN TRUE ELSE UNCHANGED clockVars
  /\ IF p = "calendar" THEN TRUE ELSE UNCHANGED calVars
  /\ IF p = "strings" THEN TRUE ELSE UNCHANGED strVars
  /\ IF p = "printfmt" THEN TRUE ELSE UNCHANGED fmtVars
  /\ IF p = "lexer" THEN TRUE ELSE UNCHANGED lexVars
  /\ IF p = "shell" THEN TRUE ELSE UNCHANGED shVars
  /\ IF p = "loader" THEN TRUE ELSE UNCHANGED ldVars
  /\ IF p = "args" THEN TRUE ELSE UNCHANGED argVars
  /\ IF p = "kdebug" THEN TRUE ELSE UNCHANGED dbgVars
  /\ IF p = "directory" THEN TRUE ELSE UNCHANGED dirVars
  /\ IF p = "memory" THEN TRUE ELSE UNCHANGED bootVars
  /\ IF p = "image" THEN TRUE ELSE UNCHANGED imageVars
  /\ IF p = "orphans" THEN TRUE ELSE UNCHANGED vars

\* The parts that do not run start in some state each.
MCInit ==
  /\ part \in Parts
  /\ (part # "loader" => ldCall = CHOOSE c \in Calls : TRUE) /\ LdInit
  /\ (part # "args" => given = <<>>) /\ ArgInit
  /\ (part # "image" => nblocks = 1 /\ sizes = <<>>) /\ ImageInit
  /\ UpcallInit /\ IntInit /\ ConInit /\ TermInit
  /\ ClockInit /\ calInit /\ StrInit /\ FmtInit
  /\ LexInit /\ ShInit /\ DbgInit /\ DirInit /\ BootMemInit /\ Init

\* Creators and the environments they leave behind.  Only the first environment
\* makes the kernel panic.  (Id 0 names the caller, as its own id does.)
OrphansNext ==
  \/ Yield
  \/ SysExofork
  \/ Fault
  \/ env_id[0] = <<1, 0>> /\ curenv = 0
     /\ (SysUnknown \/ \E envid \in EnvIds, va \in VA : SysEnvSetTrapframe(envid, va))
  \/ \E envid \in EnvIds \ {Self} :
       \/ \E va \in VA : SysPageUnmap(envid, va)
       \/ SysEnvDestroy(envid)
       \/ \E status \in Statuses : SysEnvSetStatus(envid, status)

\* Generations have not come round to a value used before.
GenBound == \A e \in Envs : env_id[e][1] < GenMax

RunUpcall == Only("upcall") /\ UpcallNext
RunInterrupts == Only("interrupts") /\ IntNext
RunConsole == Only("console") /\ ConNext
RunTerminal == Only("terminal") /\ TermNext
RunClock == Only("clock") /\ ClockNext
RunCalendar == Only("calendar") /\ calNext
RunStrings == Only("strings") /\ StrNext
RunPrintfmt == Only("printfmt") /\ FmtNext
RunLexer == Only("lexer") /\ LexNext
RunShell == Only("shell") /\ ShNext
RunLoader == Only("loader") /\ LdNext
RunArgs == Only("args") /\ ArgNext
RunKdebug == Only("kdebug") /\ DbgNext
RunDirectory == Only("directory") /\ DirNext
RunMemory == Only("memory") /\ BootMemNext
RunImage == Only("image") /\ ImageNext
RunOrphans == Only("orphans") /\ OrphansNext

MCNext ==
  \/ RunUpcall \/ RunInterrupts \/ RunConsole \/ RunTerminal
  \/ RunClock \/ RunCalendar \/ RunStrings \/ RunPrintfmt
  \/ RunLexer \/ RunShell \/ RunLoader \/ RunArgs
  \/ RunKdebug \/ RunDirectory \/ RunMemory \/ RunImage \/ RunOrphans

\* A part that can go on by itself does.  (Only one of them runs, so this is
\* weak fairness of each.)
GoesOn ==
  \/ Only("upcall") /\ UpcallStep
  \/ Only("interrupts") /\ (HandlerStep \/ Deliver)
  \/ Only("shell") /\ \E p \in Procs : ShStep(p)

MCSpec == MCInit /\ [][MCNext]_partVars /\ WF_partVars(GoesOn)

-----------------------------------------------------------------------------
\* memmove, strlcpy, strncmp and strtol (lib/string.c) and the shell's gettoken
\* compute what they are for, and argnext and argvalue what inc/args.h promises,
\* on every input within the bounds.
LibraryIsRight ==
  /\ part = "strings" => MovesAll /\ StringsFit /\ NumbersAreRead
  /\ part = "lexer" => TokensAreWords
  /\ part = "args" => ArgsAsDocumented

\* What printf prints (lib/printfmt.c) and which second and date the library
\* computes (inc/time.h), with what departs from their comments: "-" pads a
\* number with minus signs on the left, strings are padded too, a timestamp is a
\* day ahead, and mktime gives hour 24 and day 0.
ConversionsAreRight ==
  /\ part = "printfmt" => NumbersArePrinted /\ SnprintfFits /\ StringsArePadded
  /\ part = "calendar" => TimestampIsADayAhead /\ DateIsShown

\* The monitor's backtrace shows the function, line and file of an address, unless
\* stabs one byte apart begin at it (stab_binsearch, debuginfo_eip).
BacktraceIsRight == part = "kdebug" => SearchFindsNearby /\ InfoIsRight

\* The disk holds the files that were created, apart from each other, until the
\* directory grows by a block that held the text of a file
\* (dir_alloc_file, dir_lookup, walk_path, file_set_size).
DirectoryOK == part = "directory" => stale \/ (ListsTheFiles /\ BlocksAreApart)

\* When the shell prompts, all commands of the line have ended (runcmd, umain).
ShellOK == part = "shell" => ShTypeOK /\ FinishedUnlessEmpty

\* The system starts with its memory and its disk in order (mem_init; fsformat).
BootOK ==
  /\ part = "memory" => FreePagesAreFree /\ SpaceIsRight /\ BootsIfItCan
  /\ part = "image" => ImageIsRight

\* Whatever is begun ends: a page fault is handled, or the kernel destroys the
\* environment; all events of the devices are seen, the clock's, on which
\* preemption rests, the keyboard's and the serial port's, and none is lost
\* between the draining and the end of interrupt; and every command line ends,
\* whichever calls fail and whoever stops first, since no process keeps an end
\* of a pipe that another one waits on.
Busy ==
  \/ part = "upcall" /\ up = "run"
  \/ part = "interrupts" /\ \E q \in Irqs : data[q] > 0
  \/ part = "shell" /\ proc[0].pc = "wait" /\ ~Panicked
ComesToRest == Busy ~> ~Busy

-----------------------------------------------------------------------------
\* The turn of a year, which carries into every register
Tm(year, mon, mday, time) ==
  [sec |-> time[3], min |-> time[2], hour |-> time[1], mday |-> mday, mon |-> mon, year |-> year]
MCDates ==
  <<Tm(3, 11, 31, <<23, 59, 58>>), Tm(3, 11, 31, <<23, 59, 59>>), Tm(4, 0, 1, <<0, 0, 0>>),
    Tm(4, 0, 1, <<0, 0, 1>>)>>
MCPrompts == {<<>>, <<"$">>, <<"TAB">>, <<"x", "CR", "NL">>}

\* One page in the page table of its space
OneTable == [va \in VA |-> 0]
UserPerms == {{"P", "U"}, {"P", "U", "W"}}

\* All numbers of INTBITS bits
MCInts == -128 .. 127
MCWords == {<<>>, <<"b">>, <<"b", "ESC", "c">>}

MCCommandLines ==
  {<<"produce", "|", "filter", "|", "filter", ">", "f">>,
   <<"produce", "a", ">", "f", "|", "filter", "<", "g", "b">>,
   <<"filter", "|", "nothing", "<">>,
   <<"produce", "|", "nothing", "a", "b", "c">>,
   <<"|", "filter">>,
   <<"<", "f", "filter", ">", "f", ">", "g">>,
   <<"nothing", ";", "nothing">>}

MCArguments ==
  {<<>>, <<"-">>, <<"-", "-">>, <<"-", "x">>, <<"-", "f">>, <<"-", "x", "f">>,
   <<"-", "f", "a">>, <<"-", "-", "x">>, <<"a">>, <<"-", "x", "-">>}

MCPaths ==
  {<<"a">>, <<"/", "/", "b", "/">>, <<"c">>, <<"/">>, <<"a", "/", "b">>, <<"c", "/", "long">>}

\* Calls of spawn: arguments that fill the stack page and do not; segments that
\* begin and end at page borders and around them, alone and in pairs, of a file
\* that is all there or ends before them or within; and pages on both sides of a
\* page table's border.
Arg(n) == [i \in 1 .. n |-> 97]
MCArgs ==
  {<<>>} \cup {<<Arg(n)>> : n \in 0 .. 12} \cup {<<Arg(n), Arg(m)>> : n, m \in 0 .. 4}
Seg(va, m, f) == [va |-> va, memsz |-> m, filesz |-> f, offset |-> (va % PAGE) + PAGE]
MCSegs ==
  {<<Seg(va, m, f)>> : va \in {0, 1, 15}, m \in {0, 1, 2, 15, 16, 17, 33},
                       f \in {0, 1, 2, 15, 16, 17, 32}}
  \cup {<<Seg(1, m, m), Seg(50, n, f)>> : m \in {0, 15, 16}, n \in {14, 15}, f \in {0, 14}}
Call(args, segs, size, shared, private) ==
  [args |-> args, segs |-> segs, size |-> size, shared |-> shared, private |-> private]
MCCalls ==
  {Call(a, <<Seg(1, 2, 1)>>, 18, {}, {}) : a \in MCArgs}
  \cup {Call(<<Arg(1)>>, s, size, {}, {}) : size \in {17, 24, 35, 100},
          s \in {t \in MCSegs : \A i \in DOMAIN t : t[i].filesz <= t[i].memsz}}
  \cup {Call(<<>>, <<>>, 0, sh, pr) : sh \in SUBSET {1, 4, 7, 8, 15}, pr \in {{}, {0}, {5, 12}}}

\* Machines with too little base memory or extended memory, and with enough; the
\* largest have memory that entry_pgdir does not map.
MCMachines == {<<b, e>> : b \in 4 .. 7, e \in {0, 2, 6, 8, 9, 12, 24, 40}}

\* Files of no byte, of one block less a byte, one, one more than a byte, the
\* direct blocks, an indirect one, and too large; disks that hold them and do not;
\* directories of one block to all entries, and one more.
MCImages ==
  {<<n, s>> : n \in {1, 4, 6, 9, 12, 14, 30},
              s \in UNION {[1 .. k -> {0, 1, 4, 7, 8, 9, 17, 20}] : k \in 0 .. 2}}
  \cup {<<n, [i \in 1 .. k |-> 4 * (i % 2) + 1]>> : n \in {14, 20, 30}, k \in 3 .. 7}
=============================================================================
