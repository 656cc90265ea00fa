--------------------------------- MODULE Upcall ---------------------------------
(***************************************************************************)
(* Page faults of a user environment: how the kernel enters the upcall     *)
(* (page_fault_handler in kern/trap.c) and how the upcall returns to the   *)
(* instruction that faulted (lib/pfentry.S), word by word and instruction  *)
(* by instruction.                                                         *)
(*                                                                         *)
(* Memory is a sequence of words: pages of the user stack from address 0,  *)
(* then the exception stack.  Other pages have no contents here.  A page   *)
(* that is missing faults on the next access; the handler provides it, and *)
(* may touch other missing pages before.                                   *)
(***************************************************************************)
EXTENDS Integers, Sequences

CONSTANTS
  PGWORDS,      \* words of a page of the user stack
  StackPages,   \* 0 .. n-1, the pages of the user stack
  UXBASE,       \* where the exception stack begins
  UXWORDS,      \* words of the exception stack
  DataPages     \* other pages of the program, as addresses above all stacks

\* struct UTrapframe: fault_va, err, edi, esi, ebp, oesp, ebx, edx, ecx, eax,
\* eip, eflags, esp; esi stands for all registers that nobody uses.
UTF == 13
FaultVa == 0
Esi == 3
Ebx == 6
Ecx == 8
Eax == 9
Eip == 10
Eflags == 11
Esp == 12

USTACKTOP == PGWORDS * (1 + CHOOSE n \in StackPages : \A m \in StackPages : m <= n)
UXSTACKTOP == UXBASE + UXWORDS
StackWords == (0 .. USTACKTOP - 1) \cup (UXBASE .. UXSTACKTOP - 1)
OnUX(a) == UXBASE <= a /\ a < UXSTACKTOP

\* There is a page between the two stacks.
ASSUME StacksAssumption ==
  /\ PGWORDS \in Nat \ {0} /\ UXBASE \in Nat /\ UXWORDS \in Nat
  /\ \E n \in 1 .. UXBASE : StackPages = 0 .. n - 1
  /\ USTACKTOP < UXBASE
  /\ \A a \in DataPages : a \in Nat /\ a > UXSTACKTOP

\* Addresses of code: the program's instruction, and the upcall's
Program == 1000
_pgfault_upcall == 2000
Handler == 2003
Junk == -1

VARIABLES
  cpu,       \* the registers
  stacks,    \* the words of both stacks
  missing,   \* the pages that fault
  insn,      \* what the program's instruction accesses
  uses,      \* the pages the handler touches
  traps,     \* history: registers, memory and damage at each fault
  up         \* off, run, done, or destroyed by the kernel

upVars == <<cpu, stacks, missing, insn, uses, traps, up>>

Page(a) == IF a < USTACKTOP THEN a \div PGWORDS ELSE a
Regs(eip, esp) == [eip |-> eip, esp |-> esp, eax |-> 11, ebx |-> 12, ecx |-> 13, esi |-> 14,
                   eflags |-> 15]

UpcallInit ==
  /\ cpu = Regs(Program, USTACKTOP)
  /\ stacks = [a \in StackWords |-> a]
  /\ missing = {} /\ insn = 0 /\ uses = {} /\ traps = <<>>
  /\ up = "off"

\* A program at some depth of its stack, in front of an instruction that
\* pushes a word or accesses a page
Enter(esp, lost, access, touched) ==
  /\ up = "off" /\ up' = "run"
  /\ cpu' = Regs(Program, esp)
  /\ missing' = lost
  /\ insn' = access
  /\ uses' = touched
  /\ UNCHANGED <<stacks, traps>>

-----------------------------------------------------------------------------
\* The kernel pushes the frame on the exception stack: at its top, or, when
\* that is the stack in use, below a word left free.
Utf == IF OnUX(cpu.esp) THEN cpu.esp - UTF - 1 ELSE UXSTACKTOP - UTF

Frame(va) ==
  [k \in 0 .. UTF - 1 |->
     CASE k = FaultVa -> va [] k = Esi -> cpu.esi [] k = Ebx -> cpu.ebx [] k = Ecx -> cpu.ecx
       [] k = Eax -> cpu.eax [] k = Eip -> cpu.eip [] k = Eflags -> cpu.eflags
       [] k = Esp -> cpu.esp [] OTHER -> 0]

\* The history notes a fault in the middle of a return.
Interrupted ==
  IF cpu.eip = 2008 THEN [traps EXCEPT ![Len(traps)].pushing = TRUE] ELSE traps

\* user_mem_assert
Fits == Utf >= UXBASE

page_fault_handler(va) ==
  IF ~Fits
  THEN up' = "destroyed" /\ UNCHANGED <<cpu, stacks, traps>>
  ELSE /\ stacks' = [a \in StackWords |-> IF a \in Utf .. Utf + UTF - 1 THEN Frame(va)[a - Utf] ELSE stacks[a]]
       /\ cpu' = [cpu EXCEPT !.eip = _pgfault_upcall, !.esp = Utf]
       /\ traps' = Append(Interrupted, [cpu |-> cpu, stacks |-> stacks, pushing |-> FALSE])
       /\ UNCHANGED up

\* An instruction that accesses memory at a faults or has its effect.  The page
\* below the exception stack is never there.
Access(a, effect) ==
  IF Page(a) \in missing \/ a = UXBASE - 1
  THEN page_fault_handler(a) /\ UNCHANGED <<missing, insn, uses>>
  ELSE effect

RunsAt(eip) == up = "run" /\ cpu.eip = eip
Regs1(r) == cpu' = [r EXCEPT !.eip = @ + 1] /\ UNCHANGED <<stacks, missing, insn, uses, traps, up>>
Push(v) ==
  /\ cpu' = [cpu EXCEPT !.eip = @ + 1, !.esp = @ - 1]
  /\ stacks' = [stacks EXCEPT ![cpu.esp - 1] = v]
  /\ UNCHANGED <<missing, insn, uses, traps, up>>

\* The program's instruction; 0 stands for a push.
Execute ==
  /\ RunsAt(Program)
  /\ Access(IF insn = 0 THEN cpu.esp - 1 ELSE insn,
            /\ up' = "done"
            /\ IF insn = 0
               THEN /\ stacks' = [stacks EXCEPT ![cpu.esp - 1] = Junk]
                    /\ cpu' = [cpu EXCEPT !.esp = @ - 1]
               ELSE UNCHANGED <<cpu, stacks>>
            /\ UNCHANGED <<missing, insn, uses, traps>>)

-----------------------------------------------------------------------------
\* _pgfault_upcall.  The address of an instruction is 2000 and its place.

PushArg == RunsAt(2000) /\ Access(cpu.esp - 1, Push(cpu.esp))
CallHandler == RunsAt(2001) /\ Access(cpu.esp - 1, Push(2004))

\* The handler, in C, has its variables on the stack, uses the registers that
\* belong to the called, provides the page that faulted, and before or after
\* that touches others.
Locals == RunsAt(2002) /\ Access(cpu.esp - 1, Push(Junk))

FaultPage == Page(stacks[stacks[cpu.esp + 2] + FaultVa])

Touch(page) ==
  /\ RunsAt(Handler)
  /\ page \in uses \cap missing
  /\ page_fault_handler(page)
  /\ UNCHANGED <<missing, insn, uses>>

Provide ==
  /\ RunsAt(Handler)
  /\ FaultPage \in missing
  /\ missing' = missing \ {FaultPage}
  /\ UNCHANGED <<cpu, stacks, insn, uses, traps, up>>

HandlerReturns ==
  /\ RunsAt(Handler)
  /\ (uses \cup {FaultPage}) \cap missing = {}
  /\ cpu' = [cpu EXCEPT !.eip = stacks[cpu.esp + 1], !.esp = @ + 2,
                        !.eax = Junk, !.ecx = Junk, !.eflags = Junk]
  /\ UNCHANGED <<stacks, missing, insn, uses, traps, up>>

Add(r, n) == [r EXCEPT !.esp = @ + n, !.eflags = Junk]

PopArg == RunsAt(2004) /\ Regs1(Add(cpu, 1))
KeepFrame == RunsAt(2005) /\ Regs1([cpu EXCEPT !.eax = cpu.esp])
LoadEip == RunsAt(2006) /\ Regs1([cpu EXCEPT !.ebx = stacks[cpu.esp + Eip]])
LoadEsp == RunsAt(2007) /\ Regs1([cpu EXCEPT !.esp = stacks[cpu.esp + Esp]])
PushEip == RunsAt(2008) /\ Access(cpu.esp - 1, Push(cpu.ebx))

StoreEsp ==
  /\ RunsAt(2009)
  /\ stacks' = [stacks EXCEPT ![cpu.eax + Esp] = cpu.esp]
  /\ cpu' = [cpu EXCEPT !.eip = @ + 1]
  /\ UNCHANGED <<missing, insn, uses, traps, up>>

BackToFrame == RunsAt(2010) /\ Regs1([cpu EXCEPT !.esp = cpu.eax])
SkipErr == RunsAt(2011) /\ Regs1(Add(cpu, 2))
Popal ==
  /\ RunsAt(2012)
  /\ Regs1([cpu EXCEPT !.esi = stacks[cpu.esp + Esi - 2], !.ebx = stacks[cpu.esp + Ebx - 2],
                                    !.ecx = stacks[cpu.esp + Ecx - 2], !.eax = stacks[cpu.esp + Eax - 2],
                                    !.esp = @ + 8])
SkipEip == RunsAt(2013) /\ Regs1(Add(cpu, 1))
Popfl_Late == RunsAt(2014) /\ Regs1([cpu EXCEPT !.esp = @ + 1])
Popfl == RunsAt(2014) /\ Regs1([cpu EXCEPT !.eflags = stacks[cpu.esp], !.esp = @ + 1])
PopEsp == RunsAt(2015) /\ Regs1([cpu EXCEPT !.esp = stacks[cpu.esp]])

Trapped == traps[Len(traps)]
Returning == RunsAt(2016)
Ret ==
  /\ Returning
  /\ cpu' = [cpu EXCEPT !.eip = stacks[cpu.esp], !.esp = @ + 1]
  /\ traps' = SubSeq(traps, 1, Len(traps) - 1)
  /\ UNCHANGED <<stacks, missing, insn, uses, up>>

UpcallStep ==
  \/ Execute
  \/ PushArg \/ CallHandler \/ Locals \/ Provide \/ HandlerReturns \/ \E page \in DataPages : Touch(page)
  \/ PopArg \/ KeepFrame \/ LoadEip \/ LoadEsp \/ PushEip \/ StoreEsp \/ BackToFrame
  \/ SkipErr \/ Popal \/ SkipEip \/ Popfl \/ PopEsp \/ Ret

UpcallNext ==
  \/ UpcallStep
  \/ \E esp \in 1 .. USTACKTOP, lost, touched \in SUBSET (StackPages \cup DataPages),
        access \in DataPages \cup {0} :
       touched \subseteq DataPages /\ Enter(esp, lost, access, touched)

UpcallSpec == UpcallInit /\ [][UpcallNext]_upVars /\ WF_upVars(UpcallStep)

-----------------------------------------------------------------------------
(***************************************************************************)
(* Properties                                                              *)
(***************************************************************************)

\* The type invariant: the stack pointer stays on the two stacks.
UpcallTypeOK ==
  /\ cpu.esp \in StackWords \cup {USTACKTOP, UXSTACKTOP}
  /\ cpu.eip \in {Program} \cup 2000 .. 2016
  /\ missing \subseteq StackPages \cup DataPages
  /\ up \in {"off", "run", "done", "destroyed"}

\* The upcall returns to the instruction that faulted and to its stack, which
\* is as it was from the trap-time stack pointer up: for faults of the program,
\* of the handler, which runs on the stack the frames are pushed on, and of
\* the upcall itself when it pushes the return address.
SameStack(x, y) == OnUX(x) = OnUX(y)
ResumesWhereItFaulted ==
  [][Returning =>
       /\ cpu'.eip = Trapped.cpu.eip /\ cpu'.esp = Trapped.cpu.esp
       /\ \A a \in StackWords : a >= cpu'.esp /\ SameStack(a, cpu'.esp) => stacks[a] = Trapped.stacks[a]]_upVars

\* pfentry.S: "all registers must have their trap-time values after the
\* return", unless the trap-time stack faulted when the return address was
\* pushed on it.
RegistersReturn == [][Returning /\ ~Trapped.pushing => cpu' = Trapped.cpu]_upVars

\* A page fault is invisible to the program that makes it.
FaultsAreInvisible == []UpcallTypeOK /\ ResumesWhereItFaulted /\ RegistersReturn
=============================================================================
