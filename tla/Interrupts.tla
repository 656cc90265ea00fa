------------------------------- MODULE Interrupts -------------------------------
(***************************************************************************)
(* Device interrupts: the two 8259A controllers as pic_init programs them  *)
(* (kern/picirq.c: edge triggered, no automatic end of interrupt), the     *)
(* lines of clock, keyboard and serial port, and the handlers that         *)
(* trap_dispatch calls.  Traps run with interrupts off; the devices go on  *)
(* between any two steps of a handler.  Controllers and devices are        *)
(* external.                                                               *)
(***************************************************************************)
EXTENDS Integers, FiniteSets

CONSTANT MaxData    \* bound: bytes of a device in one burst

ASSUME MaxDataAssumption == MaxData \in Nat

IRQ_KBD == 1
IRQ_SLAVE == 2
IRQ_SERIAL == 4
IRQ_SPURIOUS == 7
IRQ_CLOCK == 8

VARIABLES
  irr,       \* per controller, the requests not acknowledged
  isr,       \* per controller, the requests in service
  mask,      \* irq_mask_8259A
  data,      \* unread bytes of keyboard and serial port; 1 if the clock's
             \* register C holds an event
  handling,  \* "user", "poll" for cons_getc in a system call, or the handler
  left,      \* external: what each device may still send in this burst
  destroyed  \* some environment was destroyed by an interrupt

intVars == <<irr, isr, mask, data, handling, left, destroyed>>

Chip(irq) == IF irq >= 8 THEN "slave" ELSE "master"
Irqs == {IRQ_KBD, IRQ_SERIAL, IRQ_CLOCK}
Pending(chip) == {q \in irr[chip] : q \notin mask /\ \A s \in isr[chip] : q < s}

\* The slave's output is the master's line 2.
Requests == Pending("master") \cup
            IF Pending("slave") # {} /\ IRQ_SLAVE \notin mask /\ \A s \in isr["master"] : s > IRQ_SLAVE
            THEN {IRQ_SLAVE} ELSE {}
First(S) == CHOOSE q \in S : \A r \in S : q <= r

\* trap_init and the devices' own initialisation leave these lines open.
IntInit ==
  /\ irr = [c \in {"master", "slave"} |-> {}]
  /\ isr = [c \in {"master", "slave"} |-> {}]
  /\ mask = 0 .. 15 \ {IRQ_KBD, IRQ_SLAVE, IRQ_SERIAL, IRQ_CLOCK}
  /\ data = [q \in Irqs |-> 0]
  /\ handling = "user"
  /\ left = [q \in Irqs |-> MaxData]
  /\ destroyed = FALSE

\* A device raises its line, which is an edge if the line was low.  The
\* processor is faster than the devices: they come in bursts.
Raise(q) ==
  /\ left[q] > 0 /\ (q = IRQ_CLOCK => data[q] = 0)
  /\ left' = [left EXCEPT ![q] = @ - 1]
  /\ data' = [data EXCEPT ![q] = @ + 1]
  /\ irr' = IF data[q] = 0 THEN [irr EXCEPT ![Chip(q)] = @ \cup {q}] ELSE irr
  /\ UNCHANGED <<isr, mask, handling, destroyed>>

Quiet ==
  /\ handling = "user" /\ \A q \in Irqs : data[q] = 0 /\ left[q] < MaxData
  /\ left' = [q \in Irqs |-> MaxData]
  /\ UNCHANGED <<irr, isr, mask, data, handling, destroyed>>

\* The processor acknowledges a request between two instructions of a user
\* program; one whose line has fallen again may come as a spurious one.
Acknowledge(q) ==
  /\ irr' = [irr EXCEPT ![Chip(q)] = @ \ {q}]
  /\ isr' = IF q = IRQ_CLOCK
            THEN [isr EXCEPT !["slave"] = @ \cup {q}, !["master"] = @ \cup {IRQ_SLAVE}]
            ELSE [isr EXCEPT !["master"] = @ \cup {q}]
  /\ UNCHANGED <<mask, data, left, destroyed>>

Deliver ==
  /\ handling = "user" /\ Requests # {}
  /\ LET m == First(Requests)
         q == IF m = IRQ_SLAVE THEN First(Pending("slave")) ELSE m
     IN  \/ handling' = "irq" /\ Acknowledge(q)
         \/ /\ data[q] = 0
            /\ handling' = "spurious"
            /\ irr' = [irr EXCEPT ![Chip(q)] = @ \ {q}]
            /\ UNCHANGED <<isr, mask, data, left, destroyed>>

\* trap_dispatch: the request in service tells the handler.
Serving(q) == handling = "irq" /\ q \in isr[Chip(q)]

\* Reading a byte lowers the line; it rises again for the next one.
ReadByte(q) ==
  /\ data[q] > 0
  /\ data' = [data EXCEPT ![q] = @ - 1]
  /\ irr' = IF data[q] > 1 THEN [irr EXCEPT ![Chip(q)] = @ \cup {q}] ELSE irr
  /\ UNCHANGED <<isr, mask, handling, left, destroyed>>

\* kbd_intr and serial_intr read until there is nothing more.
Drain(q) ==
  /\ \/ q # IRQ_CLOCK /\ Serving(q)
     \/ handling = "poll" /\ q = IRQ_SERIAL
     \/ handling = "poll" /\ q = IRQ_KBD /\ data[IRQ_SERIAL] = 0
  /\ ReadByte(q)

pic_send_eoi_Master(irq) == isr' = [isr EXCEPT !["master"] = @ \ {First(@)}]
pic_send_eoi(irq) ==
  isr' = [c \in {"master", "slave"} |->
            IF (c = "slave" /\ irq < 8) \/ isr[c] = {} THEN isr[c] ELSE isr[c] \ {First(isr[c])}]

DeviceDone(q) ==
  /\ q # IRQ_CLOCK /\ Serving(q) /\ data[q] = 0
  /\ pic_send_eoi(q)
  /\ handling' = "user"
  /\ UNCHANGED <<irr, mask, data, left, destroyed>>

\* The clock's event is over when its register C is read, which lowers the
\* line; only then another one makes an edge.
rtc_check_status ==
  /\ Serving(IRQ_CLOCK)
  /\ data' = [data EXCEPT ![IRQ_CLOCK] = 0]
  /\ handling' = "clock"
  /\ UNCHANGED <<irr, isr, mask, left, destroyed>>

ClockDone ==
  /\ handling = "clock"
  /\ pic_send_eoi(32)
  /\ handling' = "user"
  /\ UNCHANGED <<irr, mask, data, left, destroyed>>

\* trap_dispatch returns from a spurious interrupt at once, but trap_init and
\* clock_idt_init make no gate for its vector: the processor reports a
\* protection fault instead, for which trap_dispatch destroys curenv.
Gates == {IRQ_KBD, IRQ_SERIAL, IRQ_CLOCK}
Spurious ==
  /\ handling = "spurious"
  /\ handling' = "user"
  /\ destroyed' = (destroyed \/ IRQ_SPURIOUS \notin Gates)
  /\ UNCHANGED <<irr, isr, mask, data, left>>

\* cons_getc, from sys_cgetc.  A request goes before the next instruction.
Poll ==
  /\ handling = "user" /\ Requests = {}
  /\ handling' = "poll"
  /\ UNCHANGED <<irr, isr, mask, data, left, destroyed>>
PollDone ==
  /\ handling = "poll" /\ data[IRQ_KBD] = 0 /\ data[IRQ_SERIAL] = 0
  /\ handling' = "user"
  /\ UNCHANGED <<irr, isr, mask, data, left, destroyed>>

HandlerStep ==
  \/ \E q \in Irqs : Drain(q) \/ DeviceDone(q)
  \/ rtc_check_status \/ ClockDone \/ Spurious \/ PollDone

IntNext == HandlerStep \/ Deliver \/ Poll \/ Quiet \/ \E q \in Irqs : Raise(q)
\* The processor goes on, and takes the interrupts that are requested.
IntFairness == WF_intVars(HandlerStep \/ Deliver)
IntSpec == IntInit /\ [][IntNext]_intVars /\ IntFairness

-----------------------------------------------------------------------------
(***************************************************************************)
(* Properties                                                              *)
(***************************************************************************)

\* The type invariant.
IntTypeOK ==
  /\ irr["master"] \subseteq {IRQ_KBD, IRQ_SERIAL} /\ irr["slave"] \subseteq {IRQ_CLOCK}
  /\ isr["master"] \subseteq {IRQ_KBD, IRQ_SLAVE, IRQ_SERIAL} /\ isr["slave"] \subseteq {IRQ_CLOCK}
  /\ data \in [Irqs -> 0 .. MaxData]
  /\ handling \in {"user", "poll", "irq", "clock", "spurious"}

\* In a user program nothing is in service, so nothing is held back: every
\* handler ends as many requests as it began, on the right controllers, also
\* when the polling in a system call took the data away before.
NothingInService == handling = "user" => isr["master"] = {} /\ isr["slave"] = {}

\* In a user program no request of a device is held back by a handler that
\* ended too few or too many (picirq.c, trap_dispatch).
ControllersOK == IntTypeOK /\ NothingInService
=============================================================================
