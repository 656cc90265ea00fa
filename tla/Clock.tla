---------------------------------- MODULE Clock ----------------------------------
(***************************************************************************)
(* The time of day: gettime (kern/kclock.c) reads the registers of the     *)
(* real-time clock one by one while the clock goes on; system calls return *)
(* it, and the clock interrupt keeps a copy for vsys_gettime.              *)
(*                                                                         *)
(* A tick changes all registers it carries into at once, as in the clock   *)
(* of the emulator; the clock announces it just before.                    *)
(***************************************************************************)
EXTENDS Integers, Sequences

CONSTANTS
  Dates,       \* what the clock shows, a struct tm for each second
  seconds(_)   \* timestamp of inc/time.h

Fields == {"sec", "min", "hour", "mday", "mon", "year"}

\* A later date does not have a smaller timestamp.
ASSUME DatesAssumption ==
  /\ Dates # <<>> /\ Dates \in Seq([Fields -> Nat])
  /\ \A i \in 1 .. Len(Dates) : seconds(Dates[i]) \in Nat
  /\ \A i \in 1 .. Len(Dates) - 1 : seconds(Dates[i]) <= seconds(Dates[i + 1])

VARIABLES
  rtc, uip,    \* external: the second that the clock is in, update in progress
  ticks,       \* external: ticks since gettime began
  t1, t2,      \* the struct tm of gettime's two calls of get_time
  step,        \* which read comes next; 0 outside gettime
  caller,      \* who gets the result: a system call or the clock interrupt
  shown,       \* history: what the clock showed during this call, as timestamps
  vsys,        \* vsys[VSYS_gettime]
  last         \* what user programs saw last: by system call, by vsys

clockVars == <<rtc, uip, ticks, t1, t2, step, caller, shown, vsys, last>>

\* The registers in the order in which get_time reads them
ReadOrder == <<"sec", "min", "hour", "mday", "mon", "year">>
NREGS == 6
Now == seconds(Dates[rtc])
Unset == [field \in Fields |-> 0]

ClockInit ==
  /\ rtc = 1 /\ uip = FALSE /\ ticks = 0
  /\ t1 = Unset /\ t2 = Unset /\ step = 0 /\ caller = "none" /\ shown = {}
  /\ vsys = 0 /\ last = [syscall |-> 0, vsys |-> 0]

\* gettime takes much less than the second between two ticks.
TickNear == step > 0 => ticks = 0

Announce ==
  /\ ~uip /\ TickNear /\ uip' = TRUE
  /\ UNCHANGED <<rtc, ticks, t1, t2, step, caller, shown, vsys, last>>

Tick ==
  /\ rtc < Len(Dates) /\ TickNear
  /\ rtc' = rtc + 1
  /\ shown' = IF step > 0 THEN shown \cup {Now'} ELSE shown
  /\ ticks' = ticks + (IF step > 0 THEN 1 ELSE 0)
  /\ uip' = FALSE
  /\ UNCHANGED <<t1, t2, step, caller, vsys, last>>

\* gettime, from sys_gettime or trap_dispatch
Begin(who) ==
  /\ step = 0
  /\ step' = 1 /\ caller' = who /\ shown' = {Now} /\ ticks' = 0
  /\ UNCHANGED <<rtc, uip, t1, t2, vsys, last>>

\* The reads of get_time, for t1 and then for t2
Read ==
  /\ step \in 1 .. 2 * NREGS
  /\ IF step <= NREGS
     THEN t1' = [t1 EXCEPT ![ReadOrder[step]] = Dates[rtc][ReadOrder[step]]] /\ t2' = t2
     ELSE t2' = [t2 EXCEPT ![ReadOrder[step - NREGS]] = Dates[rtc][ReadOrder[step - NREGS]]] /\ t1' = t1
  /\ step' = step + 1
  /\ UNCHANGED <<rtc, uip, ticks, caller, shown, vsys, last>>

Again_Never == FALSE
Again == ~uip /\ seconds(t1) # seconds(t2)

ReturnTime ==
  /\ step = 2 * NREGS + 1
  /\ IF Again
     THEN step' = 1 /\ UNCHANGED <<caller, vsys, last>>
     ELSE /\ step' = 0 /\ caller' = "none"
          /\ vsys' = IF caller = "interrupt" THEN seconds(t1) ELSE vsys
          /\ last' = IF caller = "syscall" THEN [last EXCEPT !.syscall = seconds(t1)] ELSE last
  /\ UNCHANGED <<rtc, uip, ticks, t1, t2, shown>>

vsys_gettime ==
  /\ step = 0
  /\ last' = [last EXCEPT !.vsys = vsys]
  /\ UNCHANGED <<rtc, uip, ticks, t1, t2, step, caller, shown, vsys>>

ClockNext ==
  \/ Announce \/ Tick
  \/ Begin("syscall") \/ Begin("interrupt")
  \/ Read \/ ReturnTime \/ vsys_gettime

ClockSpec == ClockInit /\ [][ClockNext]_clockVars

-----------------------------------------------------------------------------
(***************************************************************************)
(* Properties                                                              *)
(***************************************************************************)

\* gettime returns a time that the clock showed during the call, although it
\* may tick between any two of its reads, with a carry into any register, and
\* although the loop gives up when an update is announced.
TimeWasShown == [][step > 0 /\ step' = 0 => seconds(t1) \in shown]_clockVars

\* A program that asks in the same way twice never sees the time go back.
TimeGoesOn ==
  [][last'.syscall >= last.syscall /\ last'.vsys >= last.vsys]_clockVars
\* Both, for system calls and for the time page
TimeIsRight == TimeWasShown /\ TimeGoesOn
=============================================================================
