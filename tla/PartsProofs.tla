----------------------------- MODULE PartsProofs -----------------------------
(***************************************************************************)
(* Parts of the system that share no state, proved for every size: the     *)
(* handlers of the device interrupts leave the controllers as they found   *)
(* them, the input ring of the console is a queue, a page fault of a       *)
(* program is invisible to it, the screen shows the line that is edited,   *)
(* and the time that programs read is one that the clock showed.           *)
(***************************************************************************)
EXTENDS Clock, Console, Interrupts, Terminal, Upcall, SequenceTheorems, TLAPS

-----------------------------------------------------------------------------
(***************************************************************************)
(* The controllers                                                         *)
(***************************************************************************)

\* Nothing is in service but what the handler that runs serves, and the master's
\* line 2 with the clock.
InService ==
  /\ handling \in {"user", "poll", "spurious"} => isr["master"] = {} /\ isr["slave"] = {}
  /\ handling = "irq" =>
       \/ isr["master"] \in {{IRQ_KBD}, {IRQ_SERIAL}} /\ isr["slave"] = {}
       \/ isr["master"] = {IRQ_SLAVE} /\ isr["slave"] = {IRQ_CLOCK}
  /\ handling = "clock" => isr["master"] = {IRQ_SLAVE} /\ isr["slave"] = {IRQ_CLOCK}

Lines ==
  /\ irr \in [{"master", "slave"} -> SUBSET Irqs]
  /\ isr \in [{"master", "slave"} -> SUBSET (Irqs \cup {IRQ_SLAVE})]

\* What a device has sent and may still send is one burst at most.
Bursts ==
  /\ left \in [Irqs -> 0 .. MaxData]
  /\ \A q \in Irqs : data[q] + left[q] <= MaxData

IntInv == IntTypeOK /\ Lines /\ Bursts /\ InService

\* The first of one request
LEMMA FirstOfOne == \A n \in Nat : First({n}) = n
BY DEF First

\* An end of interrupt ends what is in service.
LEMMA EndsService ==
  ASSUME IntInv, NEW irq \in Nat, pic_send_eoi(irq),
         \/ /\ isr["master"] \in {{IRQ_KBD}, {IRQ_SERIAL}} /\ isr["slave"] = {}
         \/ /\ isr["master"] = {IRQ_SLAVE} /\ isr["slave"] = {IRQ_CLOCK} /\ irq >= 8
  PROVE  /\ isr' \in [{"master", "slave"} -> SUBSET (Irqs \cup {IRQ_SLAVE})]
         /\ isr'["master"] = {} /\ isr'["slave"] = {}
<1>1. /\ First({IRQ_KBD}) = IRQ_KBD /\ First({IRQ_SERIAL}) = IRQ_SERIAL
      /\ First({IRQ_SLAVE}) = IRQ_SLAVE /\ First({IRQ_CLOCK}) = IRQ_CLOCK
  BY FirstOfOne DEF IRQ_KBD, IRQ_SERIAL, IRQ_SLAVE, IRQ_CLOCK
<1>2. isr' = [c \in {"master", "slave"} |->
                IF (c = "slave" /\ irq < 8) \/ isr[c] = {} THEN isr[c] ELSE isr[c] \ {First(isr[c])}]
  BY DEF pic_send_eoi
<1>3. isr'["master"] = {} /\ isr'["slave"] = {}
  BY <1>1, <1>2
<1> QED
  BY <1>2, <1>3

\* The controllers deliver the first request, and the slave's only with the
\* master's line 2.
LEMMA DeliverStep ==
  ASSUME IntInv, Deliver
  PROVE  IntInv'
<1>1. /\ handling = "user" /\ isr["master"] = {} /\ isr["slave"] = {}
      /\ Lines /\ Bursts /\ IntTypeOK
  BY DEF IntInv, InService, Deliver
<1>2. /\ Pending("master") \subseteq {IRQ_KBD, IRQ_SERIAL}
      /\ Pending("slave") \subseteq {IRQ_CLOCK}
      /\ Requests \subseteq {IRQ_KBD, IRQ_SLAVE, IRQ_SERIAL}
      /\ IRQ_SLAVE \in Requests => Pending("slave") # {}
      /\ Requests \ {IRQ_SLAVE} \subseteq Pending("master")
  BY <1>1 DEF IntTypeOK, Pending, Requests, IRQ_KBD, IRQ_SERIAL, IRQ_SLAVE, IRQ_CLOCK
<1> DEFINE m == First(Requests)
           q == IF m = IRQ_SLAVE THEN First(Pending("slave")) ELSE m
<1>3. m \in Requests
  <2>1. Requests # {}
    BY DEF Deliver
  <2>2. \E x \in Requests : \A y \in Requests : x <= y
    <3>1. CASE IRQ_KBD \in Requests
      BY <1>2, <3>1 DEF IRQ_KBD, IRQ_SERIAL, IRQ_SLAVE
    <3>2. CASE IRQ_KBD \notin Requests /\ IRQ_SLAVE \in Requests
      BY <1>2, <3>2 DEF IRQ_KBD, IRQ_SERIAL, IRQ_SLAVE
    <3>3. CASE Requests = {IRQ_SERIAL}
      BY <3>3 DEF IRQ_SERIAL
    <3> QED
      BY <1>2, <2>1, <3>1, <3>2, <3>3
  <2> QED
    BY <2>2 DEF First
<1>4. q \in Irqs /\ (q = IRQ_CLOCK <=> m = IRQ_SLAVE)
  <2>1. CASE m = IRQ_SLAVE
    <3>1. Pending("slave") = {IRQ_CLOCK}
      BY <1>2, <1>3, <2>1
    <3>2. q = IRQ_CLOCK
      BY <2>1, <3>1, FirstOfOne DEF IRQ_CLOCK
    <3> QED
      BY <2>1, <3>2 DEF Irqs
  <2>2. CASE m # IRQ_SLAVE
    <3>1. q \in {IRQ_KBD, IRQ_SERIAL}
      BY <1>2, <1>3, <2>2
    <3> QED
      BY <2>2, <3>1 DEF Irqs, IRQ_KBD, IRQ_SERIAL, IRQ_CLOCK
  <2> QED
    BY <2>1, <2>2
<1>5. \/ handling' = "irq" /\ Acknowledge(q)
      \/ /\ handling' = "spurious"
         /\ irr' = [irr EXCEPT ![Chip(q)] = @ \ {q}]
         /\ UNCHANGED <<isr, mask, data, left, destroyed>>
  BY DEF Deliver
<1> HIDE DEF m, q
<1>6. /\ irr' = [irr EXCEPT ![Chip(q)] = @ \ {q}] /\ UNCHANGED <<data, left>>
      /\ handling' \in {"irq", "spurious"}
  BY <1>5 DEF Acknowledge
<1>7. /\ irr' \in [{"master", "slave"} -> SUBSET Irqs]
      /\ irr'["master"] \subseteq irr["master"] /\ irr'["slave"] \subseteq irr["slave"]
  BY <1>1, <1>6 DEF Lines, Chip
<1>8. /\ isr' \in [{"master", "slave"} -> SUBSET (Irqs \cup {IRQ_SLAVE})]
      /\ isr'["master"] \subseteq {IRQ_KBD, IRQ_SLAVE, IRQ_SERIAL} /\ isr'["slave"] \subseteq {IRQ_CLOCK}
      /\ InService'
  <2>1. CASE handling' = "spurious"
    BY <1>1, <1>5, <2>1 DEF Lines, InService
  <2>2. CASE handling' = "irq" /\ q = IRQ_CLOCK
    <3>1. isr' = [isr EXCEPT !["slave"] = @ \cup {q}, !["master"] = @ \cup {IRQ_SLAVE}]
      BY <1>5, <2>2 DEF Acknowledge
    <3>2. isr'["master"] = {IRQ_SLAVE} /\ isr'["slave"] = {IRQ_CLOCK}
      BY <1>1, <2>2, <3>1 DEF Lines
    <3> QED
      BY <1>1, <2>2, <3>1, <3>2 DEF Lines, InService, Irqs
  <2>3. CASE handling' = "irq" /\ q # IRQ_CLOCK
    <3>1. isr' = [isr EXCEPT !["master"] = @ \cup {q}] /\ q \in {IRQ_KBD, IRQ_SERIAL}
      BY <1>4, <1>5, <2>3 DEF Acknowledge, Irqs
    <3>2. isr'["master"] = {q} /\ isr'["slave"] = {}
      BY <1>1, <3>1 DEF Lines
    <3> QED
      BY <1>1, <2>3, <3>1, <3>2 DEF Lines, InService, Irqs
  <2> QED
    BY <1>6, <2>1, <2>2, <2>3
<1> QED
  BY <1>1, <1>6, <1>7, <1>8 DEF IntInv, IntTypeOK, Lines, Bursts

\* A byte arrives or is read: requests rise, and nothing else changes.
LEMMA RequestStep ==
  ASSUME IntInv, NEW q \in Irqs, UNCHANGED <<isr, handling>>,
         irr' = irr \/ irr' = [irr EXCEPT ![Chip(q)] = @ \cup {q}],
         data' \in [Irqs -> 0 .. MaxData], Bursts'
  PROVE  IntInv'
<1>1. IntTypeOK /\ Lines /\ InService
  BY DEF IntInv
<1>2. /\ irr' \in [{"master", "slave"} -> SUBSET Irqs]
      /\ irr'["master"] \subseteq {IRQ_KBD, IRQ_SERIAL} /\ irr'["slave"] \subseteq {IRQ_CLOCK}
  BY <1>1 DEF IntTypeOK, Lines, Chip, Irqs, IRQ_KBD, IRQ_SERIAL, IRQ_CLOCK
<1> QED
  BY <1>1, <1>2 DEF IntInv, IntTypeOK, Lines, InService

\* A handler ends, or a poll or a spurious interrupt; nothing was in service or
\* the end of interrupt ended it.
LEMMA EndStep ==
  ASSUME IntInv, UNCHANGED <<irr, data, left>>, handling' \in {"user", "poll"},
         isr' \in [{"master", "slave"} -> SUBSET (Irqs \cup {IRQ_SLAVE})],
         isr'["master"] = {}, isr'["slave"] = {}
  PROVE  IntInv'
BY DEF IntInv, IntTypeOK, Lines, Bursts, InService

LEMMA HandlerSteps ==
  ASSUME IntInv, HandlerStep
  PROVE  IntInv'
<1> USE MaxDataAssumption
<1>1. ASSUME NEW q \in Irqs, Drain(q)
      PROVE  IntInv'
  <2>1. /\ data[q] > 0 /\ data' = [data EXCEPT ![q] = @ - 1]
        /\ irr' = irr \/ irr' = [irr EXCEPT ![Chip(q)] = @ \cup {q}]
        /\ UNCHANGED <<isr, handling, left>>
    BY <1>1 DEF Drain, ReadByte
  <2>2. data \in [Irqs -> 0 .. MaxData] /\ Bursts
    BY DEF IntInv, IntTypeOK
  <2>3. data' \in [Irqs -> 0 .. MaxData]
    BY <2>1, <2>2
  <2>4. Bursts'
    BY <2>1, <2>2, <2>3 DEF Bursts
  <2> QED
    BY <2>1, <2>3, <2>4, RequestStep
<1>2. ASSUME NEW q \in Irqs, DeviceDone(q)
      PROVE  IntInv'
  <2>1. /\ handling = "irq" /\ q \in isr[Chip(q)] /\ q \in {IRQ_KBD, IRQ_SERIAL}
        /\ pic_send_eoi(q) /\ handling' = "user" /\ UNCHANGED <<irr, data, left>>
    BY <1>2 DEF DeviceDone, Serving, Irqs
  <2>2. isr["master"] \in {{IRQ_KBD}, {IRQ_SERIAL}} /\ isr["slave"] = {} /\ q \in Nat
    BY <2>1 DEF IntInv, InService, Chip, IRQ_KBD, IRQ_SERIAL, IRQ_SLAVE
  <2> QED
    BY <2>1, <2>2, EndsService, EndStep
<1>3. CASE rtc_check_status
  <2>1. /\ handling = "irq" /\ IRQ_CLOCK \in isr[Chip(IRQ_CLOCK)] /\ handling' = "clock"
        /\ data' = [data EXCEPT ![IRQ_CLOCK] = 0] /\ UNCHANGED <<irr, isr, left>>
    BY <1>3 DEF rtc_check_status, Serving
  <2>2. isr["master"] = {IRQ_SLAVE} /\ isr["slave"] = {IRQ_CLOCK}
    BY <2>1 DEF IntInv, InService, Chip, IRQ_CLOCK
  <2>3. data \in [Irqs -> 0 .. MaxData] /\ Bursts
    BY DEF IntInv, IntTypeOK
  <2>4. data' \in [Irqs -> 0 .. MaxData] /\ Bursts'
    <3>1. data' \in [Irqs -> 0 .. MaxData]
      BY <2>1, <2>3, MaxDataAssumption DEF Irqs
    <3>2. \A q \in Irqs : data'[q] <= data[q] /\ left'[q] = left[q]
      BY <2>1, <2>3
    <3>3. \A q \in Irqs : data'[q] + left'[q] <= MaxData
      BY <2>3, <3>1, <3>2 DEF Bursts
    <3> QED
      BY <2>1, <2>3, <3>1, <3>3 DEF Bursts
  <2> QED
    BY <2>1, <2>2, <2>4 DEF IntInv, IntTypeOK, Lines, InService
<1>4. CASE ClockDone
  <2>1. /\ handling = "clock" /\ pic_send_eoi(32) /\ handling' = "user"
        /\ UNCHANGED <<irr, data, left>>
    BY <1>4 DEF ClockDone
  <2>2. isr["master"] = {IRQ_SLAVE} /\ isr["slave"] = {IRQ_CLOCK}
    BY <2>1 DEF IntInv, InService
  <2> QED
    BY <2>1, <2>2, EndsService, EndStep
<1>5. CASE Spurious \/ PollDone
  <2>1. handling \in {"spurious", "poll"} /\ handling' = "user" /\ UNCHANGED <<irr, isr, data, left>>
    BY <1>5 DEF Spurious, PollDone
  <2>2. /\ isr \in [{"master", "slave"} -> SUBSET (Irqs \cup {IRQ_SLAVE})]
        /\ isr["master"] = {} /\ isr["slave"] = {}
    BY <2>1 DEF IntInv, InService, Lines
  <2> QED
    BY <2>1, <2>2, EndStep
<1> QED
  BY <1>1, <1>2, <1>3, <1>4, <1>5 DEF HandlerStep

LEMMA IntStep ==
  ASSUME IntInv, [IntNext]_intVars
  PROVE  IntInv'
<1> USE MaxDataAssumption
<1>1. CASE Poll
  <2>1. handling = "user" /\ handling' = "poll" /\ UNCHANGED <<irr, isr, data, left>>
    BY <1>1 DEF Poll
  <2>2. /\ isr \in [{"master", "slave"} -> SUBSET (Irqs \cup {IRQ_SLAVE})]
        /\ isr["master"] = {} /\ isr["slave"] = {}
    BY <2>1 DEF IntInv, InService, Lines
  <2> QED
    BY <2>1, <2>2, EndStep
<1>2. CASE Quiet
  <2>1. /\ \A q \in Irqs : data[q] = 0
        /\ left' = [q \in Irqs |-> MaxData] /\ UNCHANGED <<irr, isr, data, handling>>
    BY <1>2 DEF Quiet
  <2>2. Bursts'
    BY <2>1 DEF Bursts
  <2> QED
    BY <2>1, <2>2 DEF IntInv, IntTypeOK, Lines, InService
<1>3. ASSUME NEW q \in Irqs, Raise(q)
      PROVE  IntInv'
  <2>1. /\ left[q] > 0 /\ left' = [left EXCEPT ![q] = @ - 1]
        /\ data' = [data EXCEPT ![q] = @ + 1]
        /\ irr' = irr \/ irr' = [irr EXCEPT ![Chip(q)] = @ \cup {q}]
        /\ UNCHANGED <<isr, handling>>
    BY <1>3 DEF Raise
  <2>2. /\ data \in [Irqs -> 0 .. MaxData] /\ left \in [Irqs -> 0 .. MaxData]
        /\ \A r \in Irqs : data[r] + left[r] <= MaxData
    BY DEF IntInv, IntTypeOK, Bursts
  <2>3. data' \in [Irqs -> 0 .. MaxData] /\ left' \in [Irqs -> 0 .. MaxData]
    BY <2>1, <2>2
  <2>4. Bursts'
    <3> SUFFICES ASSUME NEW r \in Irqs
                 PROVE  data'[r] + left'[r] <= MaxData
      BY <2>3 DEF Bursts
    <3>1. CASE r = q
      BY <2>1, <2>2, <3>1
    <3>2. CASE r # q
      BY <2>1, <2>2, <3>2
    <3> QED
      BY <3>1, <3>2
  <2> QED
    BY <2>1, <2>3, <2>4, RequestStep
<1>4. CASE UNCHANGED intVars
  BY <1>4 DEF intVars, IntInv, IntTypeOK, Lines, Bursts, InService
<1> QED
  BY <1>1, <1>2, <1>3, <1>4, HandlerSteps, DeliverStep DEF IntNext

\* Whatever comes from the devices while handlers drain them, and wherever a
\* request is spurious or a system call polls: no request stays in service when
\* its handler has ended, so the clock goes on interrupting.
THEOREM ControllersAreFreed == IntSpec => []ControllersOK
<1>1. IntInit => IntInv
  <2> SUFFICES ASSUME IntInit
               PROVE  IntInv
    OBVIOUS
  <2>1. IntTypeOK /\ Lines
    BY MaxDataAssumption DEF IntInit, IntTypeOK, Lines
  <2>2. Bursts /\ InService
    BY MaxDataAssumption DEF IntInit, Bursts, InService
  <2> QED
    BY <2>1, <2>2 DEF IntInv
<1>2. IntInv /\ [IntNext]_intVars => IntInv'
  BY IntStep
<1>3. IntInv => ControllersOK
  BY DEF IntInv, InService, ControllersOK, NothingInService
<1> QED
  BY <1>1, <1>2, <1>3, PTL DEF IntSpec

-----------------------------------------------------------------------------
(***************************************************************************)
(* The ring of the console                                                 *)
(***************************************************************************)

Characters == {CtlA, UpperA, LowerA, KEY_DEL}

ConInv ==
  /\ rpos \in 0 .. CONSBUFSIZE - 1 /\ wpos \in 0 .. CONSBUFSIZE - 1
  /\ buf \in [0 .. CONSBUFSIZE - 1 -> Nat]
  /\ com \in {0, LowerA}

\* What a position is in the ring: less than twice its size, it comes round once.
LEMMA ComesRound ==
  ASSUME NEW n \in Nat, n > 0, NEW i \in Nat, i < 2 * n
  PROVE  i % n = IF i < n THEN i ELSE i - n
<1> DEFINE d == i \div n
           m == i % n
<1>1. i = n * d + m /\ d \in Int /\ m \in 0 .. n - 1
  <2>1. i = n * (i \div n) + (i % n)
    BY SMTT(30)
  <2>2. i \div n \in Int
    OBVIOUS
  <2>3. i % n \in 0 .. n - 1
    OBVIOUS
  <2> QED
    BY <2>1, <2>2, <2>3
<1> HIDE DEF d, m
<1>2. d >= 0
  <2> SUFFICES ASSUME d <= -1
               PROVE  FALSE
    BY <1>1
  <2>1. n * d <= -n
    BY <1>1
  <2> QED
    BY <1>1, <2>1
<1>3. d <= 1
  <2> SUFFICES ASSUME d >= 2
               PROVE  FALSE
    BY <1>1
  <2>1. n * d >= 2 * n
    BY <1>1
  <2> QED
    BY <1>1, <2>1
<1>4. d = 0 \/ d = 1
  BY <1>1, <1>2, <1>3
<1>5. m = IF i < n THEN i ELSE i - n
  BY <1>1, <1>4
<1> QED
  BY <1>5 DEF m

\* What lies in a ring b between two positions
Between(b, r, w) ==
  [i \in 1 .. (w - r + CONSBUFSIZE) % CONSBUFSIZE |-> b[(r + i - 1) % CONSBUFSIZE]]

Next1(i) == IF i + 1 = CONSBUFSIZE THEN 0 ELSE i + 1

\* The length, the elements and the places of what lies there
LEMMA BetweenIs ==
  ASSUME NEW r \in 0 .. CONSBUFSIZE - 1, NEW w \in 0 .. CONSBUFSIZE - 1,
         NEW b \in [0 .. CONSBUFSIZE - 1 -> Nat]
  PROVE  /\ Between(b, r, w) \in Seq(Nat)
         /\ Len(Between(b, r, w)) = IF w >= r THEN w - r ELSE w - r + CONSBUFSIZE
         /\ \A i \in 1 .. Len(Between(b, r, w)) :
              Between(b, r, w)[i] =
                b[IF r + i - 1 < CONSBUFSIZE THEN r + i - 1 ELSE r + i - 1 - CONSBUFSIZE]
<1> DEFINE n == IF w >= r THEN w - r ELSE w - r + CONSBUFSIZE
           at(i) == IF r + i - 1 < CONSBUFSIZE THEN r + i - 1 ELSE r + i - 1 - CONSBUFSIZE
<1>1. CONSBUFSIZE \in Nat /\ CONSBUFSIZE > 0
  BY CONSBUFSIZEAssumption
<1>2. n \in Nat /\ n < CONSBUFSIZE /\ (w - r + CONSBUFSIZE) % CONSBUFSIZE = n
  <2>1. w - r + CONSBUFSIZE \in Nat /\ w - r + CONSBUFSIZE < 2 * CONSBUFSIZE
    BY <1>1
  <2>2. (w - r + CONSBUFSIZE) % CONSBUFSIZE
          = IF w - r + CONSBUFSIZE < CONSBUFSIZE THEN w - r + CONSBUFSIZE
            ELSE w - r + CONSBUFSIZE - CONSBUFSIZE
    BY <1>1, <2>1, ComesRound
  <2> QED
    BY <1>1, <2>2
<1>3. ASSUME NEW i \in 1 .. n
      PROVE  (r + i - 1) % CONSBUFSIZE = at(i) /\ at(i) \in 0 .. CONSBUFSIZE - 1
  <2>1. r + i - 1 \in Nat /\ r + i - 1 < 2 * CONSBUFSIZE
    BY <1>1, <1>2
  <2> QED
    BY <1>1, <2>1, ComesRound
<1> HIDE DEF n
<1>4. Between(b, r, w) = [i \in 1 .. n |-> b[at(i)]]
  BY <1>2, <1>3 DEF Between
<1>5. \A i \in 1 .. n : b[at(i)] \in Nat
  BY <1>3
<1> HIDE DEF at
<1>6. Between(b, r, w) \in Seq(Nat) /\ Len(Between(b, r, w)) = n
  BY <1>2, <1>4, <1>5
<1>7. \A i \in 1 .. n : Between(b, r, w)[i] = b[at(i)]
  BY <1>4
<1> QED
  BY <1>6, <1>7 DEF n, at

\* A character stored is the last; the one that would fill the ring empties it.
LEMMA StoredIsLast ==
  ASSUME NEW r \in 0 .. CONSBUFSIZE - 1, NEW w \in 0 .. CONSBUFSIZE - 1,
         NEW b \in [0 .. CONSBUFSIZE - 1 -> Nat], NEW c \in Nat
  PROVE  Between([b EXCEPT ![w] = c], r, Next1(w))
           = IF Len(Between(b, r, w)) + 1 = CONSBUFSIZE THEN <<>>
             ELSE Append(Between(b, r, w), c)
<1> DEFINE b2 == [b EXCEPT ![w] = c]
           w2 == Next1(w)
           s == Between(b, r, w)
           t == Between(b2, r, w2)
<1>1. CONSBUFSIZE \in Nat /\ CONSBUFSIZE > 0
  BY CONSBUFSIZEAssumption
<1>2. b2 \in [0 .. CONSBUFSIZE - 1 -> Nat] /\ w2 \in 0 .. CONSBUFSIZE - 1
  BY <1>1 DEF Next1
<1>3. /\ s \in Seq(Nat)
      /\ Len(s) = IF w >= r THEN w - r ELSE w - r + CONSBUFSIZE
      /\ \A i \in 1 .. Len(s) :
           s[i] = b[IF r + i - 1 < CONSBUFSIZE THEN r + i - 1 ELSE r + i - 1 - CONSBUFSIZE]
  BY BetweenIs
<1>4. /\ t \in Seq(Nat)
      /\ Len(t) = IF w2 >= r THEN w2 - r ELSE w2 - r + CONSBUFSIZE
      /\ \A i \in 1 .. Len(t) :
           t[i] = b2[IF r + i - 1 < CONSBUFSIZE THEN r + i - 1 ELSE r + i - 1 - CONSBUFSIZE]
  BY <1>2, BetweenIs
<1> HIDE DEF s, t
<1>5. CASE Len(s) + 1 = CONSBUFSIZE
  <2>1. Len(t) = 0
    BY <1>1, <1>3, <1>4, <1>5 DEF Next1
  <2>2. t = <<>>
    BY <1>4, <2>1, EmptySeq
  <2> QED
    BY <1>5, <2>2 DEF s, t
<1>6. CASE Len(s) + 1 # CONSBUFSIZE
  <2>0. Len(s) < CONSBUFSIZE - 1
    BY <1>1, <1>3, <1>6
  <2>1. Len(t) = Len(s) + 1
    <3>1. CASE w + 1 = CONSBUFSIZE
      <4>1. w2 = 0 /\ w >= r /\ Len(s) = w - r
        BY <1>1, <1>3, <3>1 DEF Next1
      <4>2. r # 0
        BY <1>1, <2>0, <3>1, <4>1
      <4> QED
        BY <1>1, <1>4, <3>1, <4>1, <4>2
    <3>2. CASE w + 1 # CONSBUFSIZE
      <4>1. w2 = w + 1
        BY <3>2 DEF Next1
      <4>2. w + 1 # r
        BY <1>1, <1>3, <2>0
      <4> QED
        BY <1>1, <1>3, <1>4, <4>1, <4>2
    <3> QED
      BY <3>1, <3>2
  <2>2. /\ Append(s, c) \in Seq(Nat) /\ Len(Append(s, c)) = Len(s) + 1
        /\ \A i \in 1 .. Len(s) : Append(s, c)[i] = s[i]
        /\ Append(s, c)[Len(s) + 1] = c
    BY <1>3, AppendProperties
  <2>3. ASSUME NEW i \in 1 .. Len(s) + 1
        PROVE  t[i] = Append(s, c)[i]
    <3> DEFINE p == IF r + i - 1 < CONSBUFSIZE THEN r + i - 1 ELSE r + i - 1 - CONSBUFSIZE
    <3>0. Len(s) \in Nat /\ i \in 1 .. Len(t) /\ r + i - 1 < 2 * CONSBUFSIZE
      BY <1>1, <1>3, <2>0, <2>1
    <3>1. t[i] = b2[p] /\ p \in 0 .. CONSBUFSIZE - 1
      <4>1. t[i] = b2[p]
        BY <1>4, <3>0
      <4>2. p \in 0 .. CONSBUFSIZE - 1
        BY <1>1, <3>0
      <4> QED
        BY <4>1, <4>2
    <3>2. CASE i = Len(s) + 1
      <4>1. p = w
        BY <1>1, <1>3, <1>6, <3>2
      <4> QED
        BY <2>2, <3>1, <3>2, <4>1
    <3>3. CASE i \in 1 .. Len(s)
      <4>1. p # w
        BY <1>1, <1>3, <3>3
      <4>2. s[i] = b[p]
        BY <1>3, <3>3
      <4> QED
        BY <2>2, <3>1, <3>3, <4>1, <4>2
    <3>4. Len(s) \in Nat
      BY <1>3, LenProperties
    <3> QED
      BY <3>2, <3>3, <3>4
  <2>4. t = Append(s, c)
    BY <1>4, <2>1, <2>2, <2>3, SeqEqual
  <2> QED
    BY <1>6, <2>4 DEF s, t
<1> QED
  BY <1>5, <1>6

\* A character taken is the first.
LEMMA TakenIsFirst ==
  ASSUME NEW r \in 0 .. CONSBUFSIZE - 1, NEW w \in 0 .. CONSBUFSIZE - 1,
         NEW b \in [0 .. CONSBUFSIZE - 1 -> Nat], r # w
  PROVE  /\ Between(b, r, w) # <<>>
         /\ b[r] = Head(Between(b, r, w))
         /\ Between(b, Next1(r), w) = Tail(Between(b, r, w))
<1> DEFINE r2 == Next1(r)
           s == Between(b, r, w)
           t == Between(b, r2, w)
<1>1. CONSBUFSIZE \in Nat /\ CONSBUFSIZE > 0
  BY CONSBUFSIZEAssumption
<1>2. r2 \in 0 .. CONSBUFSIZE - 1
  BY <1>1 DEF Next1
<1>3. /\ s \in Seq(Nat)
      /\ Len(s) = IF w >= r THEN w - r ELSE w - r + CONSBUFSIZE
      /\ \A i \in 1 .. Len(s) :
           s[i] = b[IF r + i - 1 < CONSBUFSIZE THEN r + i - 1 ELSE r + i - 1 - CONSBUFSIZE]
  BY BetweenIs
<1>4. /\ t \in Seq(Nat)
      /\ Len(t) = IF w >= r2 THEN w - r2 ELSE w - r2 + CONSBUFSIZE
      /\ \A i \in 1 .. Len(t) :
           t[i] = b[IF r2 + i - 1 < CONSBUFSIZE THEN r2 + i - 1 ELSE r2 + i - 1 - CONSBUFSIZE]
  BY <1>2, BetweenIs
<1> HIDE DEF s, t
<1>5. Len(s) >= 1 /\ Len(t) = Len(s) - 1
  BY <1>1, <1>3, <1>4 DEF Next1
<1>6. s # <<>>
  BY <1>5, EmptySeq
<1>7. s[1] = b[r] /\ Head(s) = s[1]
  <2>1. 1 \in 1 .. Len(s)
    BY <1>3, <1>5
  <2>2. r + 1 - 1 = r /\ r < CONSBUFSIZE
    BY <1>1
  <2>3. s[1] = b[r]
    BY <1>3, <2>1, <2>2
  <2>4. Head(s) = s[1]
    BY <1>3, <1>6
  <2> QED
    BY <2>3, <2>4
<1>8. /\ Tail(s) \in Seq(Nat) /\ Len(Tail(s)) = Len(s) - 1
      /\ \A i \in 1 .. Len(s) - 1 : Tail(s)[i] = s[i + 1]
  BY <1>3, <1>6, HeadTailProperties
<1>9. ASSUME NEW i \in 1 .. Len(t)
      PROVE  t[i] = Tail(s)[i]
  <2>1. i \in 1 .. Len(s) - 1 /\ i + 1 \in 1 .. Len(s)
    BY <1>3, <1>5
  <2>2. (IF r2 + i - 1 < CONSBUFSIZE THEN r2 + i - 1 ELSE r2 + i - 1 - CONSBUFSIZE)
          = IF r + (i + 1) - 1 < CONSBUFSIZE THEN r + (i + 1) - 1
            ELSE r + (i + 1) - 1 - CONSBUFSIZE
    BY <1>1, <1>3, <2>1 DEF Next1
  <2> QED
    BY <1>3, <1>4, <1>8, <2>1, <2>2
<1>10. t = Tail(s)
  BY <1>4, <1>5, <1>8, <1>9, SeqEqual
<1> QED
  BY <1>6, <1>7, <1>10 DEF s, t

\* cons_intr stores a character, or none.
LEMMA StoreStep ==
  ASSUME ConInv, NEW c \in Characters \cup {NoChar}, Store(c), UNCHANGED <<rpos, got>>,
         com' \in {0, LowerA}
  PROVE  ConInv' /\ [Lossy!Step]_<<Waiting, got>>
<1>1. CASE c = NoChar
  BY <1>1 DEF ConInv, Store, Waiting
<1>2. CASE c # NoChar
  <2>1. c \in Nat /\ c \in Characters
    BY <1>2 DEF Characters, CtlA, UpperA, LowerA, KEY_DEL
  <2>2. buf' = [buf EXCEPT ![wpos] = c] /\ wpos' = Next1(wpos)
    BY <1>2 DEF Store, Next1
  <2>3. CONSBUFSIZE \in Nat /\ CONSBUFSIZE > 0
    BY CONSBUFSIZEAssumption
  <2>4. ConInv'
    BY <2>1, <2>2, <2>3 DEF ConInv, Next1
  <2>5. Waiting' = IF Len(Waiting) + 1 = CONSBUFSIZE THEN <<>> ELSE Append(Waiting, c)
    <3>1. Waiting = Between(buf, rpos, wpos)
      BY DEF Waiting, Between
    <3>2. Waiting' = Between([buf EXCEPT ![wpos] = c], rpos, Next1(wpos))
      BY <2>2 DEF Waiting, Between
    <3> QED
      BY <2>1, <3>1, <3>2, StoredIsLast DEF ConInv
  <2>6. Lossy!Put(c)
    BY <2>5 DEF Lossy!Put
  <2> QED
    BY <2>1, <2>4, <2>6 DEF Lossy!Step, Characters
<1> QED
  BY <1>1, <1>2

\* A step that leaves the ring and the last character alone.
LEMMA RingStays ==
  ASSUME ConInv, UNCHANGED <<buf, rpos, wpos, got>>, com' \in {0, LowerA}
  PROVE  ConInv' /\ [Lossy!Step]_<<Waiting, got>>
BY DEF ConInv, Waiting

LEMMA KbdDataStep ==
  ASSUME ConInv, KbdData
  PROVE  ConInv' /\ [Lossy!Step]_<<Waiting, got>>
<1> DEFINE code == Head(codes)
<1>1. com' \in {0, LowerA} /\ UNCHANGED <<rpos, got>>
  BY DEF KbdData, ConInv
<1>2. UNCHANGED <<buf, wpos>> \/ Pressed(code)
  BY DEF KbdData
<1>3. CASE UNCHANGED <<buf, wpos>>
  BY <1>1, <1>3, RingStays
<1>4. CASE Pressed(code)
  <2> DEFINE d == IF Escaped THEN code + 128 ELSE code
             c == CapsLocked(ShiftFlags(d), charcode(ShiftFlags(d), d))
  <2>1. Store(c)
    BY <1>4 DEF Pressed
  <2>2. charcode(ShiftFlags(d), d) \in Characters \cup {NoChar}
    BY DEF charcode, Characters
  <2>3. c \in Characters \cup {NoChar}
    BY <2>2 DEF CapsLocked, Characters
  <2> HIDE DEF c
  <2> QED
    BY <1>1, <2>1, <2>3, StoreStep
<1> QED
  BY <1>2, <1>3, <1>4

LEMMA GetcStep ==
  ASSUME ConInv, Getc
  PROVE  ConInv' /\ [Lossy!Step]_<<Waiting, got>>
<1>1. com' \in {0, LowerA} /\ UNCHANGED <<buf, wpos>>
  BY DEF Getc, ConInv
<1>2. CASE rpos = wpos
  BY <1>1, <1>2, RingStays DEF Getc
<1>3. CASE rpos # wpos
  <2>1. got' = buf[rpos] /\ rpos' = Next1(rpos)
    BY <1>3 DEF Getc, Next1
  <2>2. CONSBUFSIZE \in Nat /\ CONSBUFSIZE > 0
    BY CONSBUFSIZEAssumption
  <2>3. ConInv'
    BY <1>1, <2>1, <2>2 DEF ConInv, Next1
  <2>4. Waiting = Between(buf, rpos, wpos) /\ Waiting' = Between(buf, Next1(rpos), wpos)
    BY <1>1, <2>1 DEF Waiting, Between
  <2>5. Waiting # <<>> /\ got' = Head(Waiting) /\ Waiting' = Tail(Waiting)
    BY <1>3, <2>1, <2>4, TakenIsFirst DEF ConInv
  <2> QED
    BY <2>3, <2>5 DEF Lossy!Step, Lossy!Take
<1> QED
  BY <1>2, <1>3

LEMMA ConStep ==
  ASSUME ConInv, [ConNext]_conVars
  PROVE  ConInv' /\ [Lossy!Step]_<<Waiting, got>>
<1>1. CASE SerialData
  <2>1. com = LowerA /\ Store(com) /\ com' = 0 /\ UNCHANGED <<rpos, got>>
    BY <1>1 DEF SerialData, ConInv
  <2> QED
    BY <2>1, StoreStep DEF Characters
<1>2. CASE Drained \/ Interrupt
  BY <1>2, RingStays DEF Drained, Interrupt, ConInv
<1>3. CASE Consume
  <2>1. /\ UNCHANGED <<buf, rpos, wpos, com>> /\ got' = 0
    BY <1>3 DEF Consume
  <2>2. Waiting' = Waiting
    BY <2>1 DEF Waiting
  <2> QED
    BY <2>1, <2>2 DEF ConInv, Lossy!Step, Lossy!Used
<1>4. ASSUME NEW key \in Keys, Press(key) \/ Release(key)
      PROVE  ConInv' /\ [Lossy!Step]_<<Waiting, got>>
  BY <1>4, RingStays DEF Press, Release, ConInv
<1>5. CASE Serial(LowerA)
  BY <1>5, RingStays DEF Serial
<1>6. CASE UNCHANGED conVars
  BY <1>6, RingStays DEF conVars, ConInv
<1> QED
  BY <1>1, <1>2, <1>3, <1>4, <1>5, <1>6, KbdDataStep, GetcStep DEF ConNext, Input

\* Characters come out of cons_getc in the order in which the devices gave them,
\* none twice; when nobody reads for so long that the ring is full, cons_intr
\* loses all that is in it and nothing else.
THEOREM ConsoleIsAQueue == ConSpec => InOrder
<1>1. ConInit => ConInv /\ Lossy!Empty
  <2> SUFFICES ASSUME ConInit
               PROVE  ConInv /\ Lossy!Empty
    OBVIOUS
  <2>1. CONSBUFSIZE \in Nat /\ CONSBUFSIZE > 0
    BY CONSBUFSIZEAssumption
  <2>2. ConInv
    BY <2>1 DEF ConInit, ConInv
  <2>3. Waiting = Between(buf, 0, 0)
    BY DEF ConInit, Waiting, Between
  <2>4. Waiting \in Seq(Nat) /\ Len(Waiting) = 0
    <3>1. 0 \in 0 .. CONSBUFSIZE - 1
      BY <2>1
    <3> QED
      BY <2>2, <2>3, <3>1, BetweenIs DEF ConInv
  <2> QED
    BY <2>2, <2>4, EmptySeq DEF ConInit, Lossy!Empty
<1>2. ConInv /\ [ConNext]_conVars => ConInv' /\ [Lossy!Step]_<<Waiting, got>>
  BY ConStep
<1> QED
  BY <1>1, <1>2, PTL DEF ConSpec, InOrder

-----------------------------------------------------------------------------
(***************************************************************************)
(* The modifiers of the keyboard                                           *)
(***************************************************************************)

AllFlags == {"SHIFT", "CTL", "ALT", "CAPSLOCK", "E0ESC"}

\* The modifiers that keys in h and a caps lock c should give
Modifiers(h, c) ==
  (IF h \cap {"LShift", "RShift"} # {} THEN {"SHIFT"} ELSE {})
  \cup (IF h \cap {"LCtl", "RCtl"} # {} THEN {"CTL"} ELSE {})
  \cup (IF h \cap {"Alt"} # {} THEN {"ALT"} ELSE {})
  \cup (IF c THEN {"CAPSLOCK"} ELSE {})

\* What kbd_proc_data makes of its flags for a scancode
After(flags, code) ==
  IF code = E0 THEN flags \cup {"E0ESC"}
  ELSE IF code >= 128
  THEN flags \ (shiftcode(IF "E0ESC" \in flags THEN code ELSE code - 128) \cup {"E0ESC"})
  ELSE LET d == IF "E0ESC" \in flags THEN code + 128 ELSE code
           s == (flags \ {"E0ESC"}) \cup shiftcode(d)
       IN  (s \ togglecode(d)) \cup (togglecode(d) \ s)

\* The flags before, between and behind the scancodes that are not read yet
Runs == [Nat -> SUBSET AllFlags]
LeadsTo(run, from, list, to) ==
  /\ run[0] = from /\ run[Len(list)] = to
  /\ \A i \in 1 .. Len(list) : run[i] = After(run[i - 1], list[i])

KbdTyped ==
  /\ shift \in SUBSET AllFlags /\ codes \in Seq(Nat)
  /\ rpos \in 0 .. CONSBUFSIZE - 1 /\ wpos \in 0 .. CONSBUFSIZE - 1
  /\ buf \in [0 .. CONSBUFSIZE - 1 -> Characters \cup {0}]
  /\ com \in {0, LowerA} /\ caps \in BOOLEAN
  /\ doing \in {"user", "kbd_intr", "serial_intr", "getc_serial", "getc_kbd", "getc"}
  /\ got \in Characters \cup {0}

\* One key of a kind is down; what is not read yet leads to its modifiers.
KbdInv ==
  /\ KbdTyped
  /\ \A j, k \in held : Kind[j] = Kind[k] => j = k
  /\ \E run \in Runs : LeadsTo(run, shift, codes, Modifiers(held, caps))

LEMMA AfterTypes ==
  ASSUME NEW flags \in SUBSET AllFlags, NEW d \in Nat
  PROVE  After(flags, d) \in SUBSET AllFlags
<1>1. \A e : shiftcode(e) \subseteq AllFlags /\ togglecode(e) \subseteq AllFlags
  BY DEF shiftcode, togglecode, AllFlags
<1>2. "E0ESC" \in AllFlags
  BY DEF AllFlags
<1> QED BY <1>1, <1>2 DEF After

\* One more scancode
LEMMA OneMoreCode ==
  ASSUME NEW list \in Seq(Nat), NEW run \in Runs, NEW from, NEW to, LeadsTo(run, from, list, to),
         NEW d \in Nat
  PROVE  /\ Append(list, d) \in Seq(Nat)
         /\ \E run2 \in Runs : LeadsTo(run2, from, Append(list, d), After(to, d))
<1> DEFINE n == Len(list)
           run2 == [run EXCEPT ![n + 1] = After(run[n], d)]
           more == Append(list, d)
<1>1. /\ n \in Nat /\ more \in Seq(Nat) /\ Len(more) = n + 1 /\ more[n + 1] = d
      /\ \A i \in 1 .. n : more[i] = list[i]
  OBVIOUS
<1> HIDE DEF n, more
<1>2. run[n] \in SUBSET AllFlags /\ run[n] = to
  BY <1>1 DEF Runs, LeadsTo, n
<1>3. run2 \in Runs /\ run2[n + 1] = After(to, d) /\ \A i \in 0 .. n : run2[i] = run[i]
  BY <1>1, <1>2, AfterTypes DEF Runs
<1> HIDE DEF run2
<1>4. ASSUME NEW i \in 1 .. n + 1 PROVE run2[i] = After(run2[i - 1], more[i])
  <2>1. CASE i = n + 1
    BY <1>1, <1>2, <1>3, <2>1
  <2>2. CASE i # n + 1
    <3>1. i \in 1 .. n /\ i - 1 \in 0 .. n /\ i \in 0 .. n
      BY <1>1, <2>2
    <3> QED BY <1>1, <1>3, <3>1 DEF LeadsTo, n
  <2> QED BY <2>1, <2>2
<1>5. run2[0] = from
  BY <1>1, <1>3 DEF LeadsTo
<1>6. LeadsTo(run2, from, more, After(to, d))
  BY <1>1, <1>3, <1>4, <1>5 DEF LeadsTo
<1> QED BY <1>1, <1>3, <1>6 DEF more

\* The scancode that is read
LEMMA FirstCode ==
  ASSUME NEW list \in Seq(Nat), NEW run \in Runs, NEW from, NEW to, LeadsTo(run, from, list, to),
         list # <<>>
  PROVE  /\ Head(list) \in Nat /\ Tail(list) \in Seq(Nat)
         /\ \E run2 \in Runs : LeadsTo(run2, After(from, Head(list)), Tail(list), to)
<1> DEFINE n == Len(list)
           rest == Tail(list)
           run2 == [i \in Nat |-> run[i + 1]]
<1>1. /\ n \in Nat \ {0} /\ Head(list) = list[1] /\ list[1] \in Nat
      /\ rest \in Seq(Nat) /\ Len(rest) = n - 1
      /\ \A i \in 1 .. n - 1 : rest[i] = list[i + 1]
  BY EmptySeq, HeadTailProperties
<1> HIDE DEF n, rest
<1>2. run2 \in Runs /\ \A i \in Nat : run2[i] = run[i + 1]
  BY DEF Runs
<1> HIDE DEF run2
<1>3. run2[0] = After(from, Head(list))
  <2>1. 1 \in 1 .. n /\ run2[0] = run[1]
    BY <1>1, <1>2
  <2> QED BY <1>1, <2>1 DEF LeadsTo, n
<1>4. run2[n - 1] = to
  <2>1. n - 1 \in Nat /\ (n - 1) + 1 = n BY <1>1
  <2> QED BY <1>2, <2>1 DEF LeadsTo, n
<1>5. ASSUME NEW i \in 1 .. n - 1 PROVE run2[i] = After(run2[i - 1], rest[i])
  <2>1. i + 1 \in 1 .. n /\ i \in Nat /\ i - 1 \in Nat /\ (i - 1) + 1 = i /\ (i + 1) - 1 = i
    BY <1>1
  <2>2. run[i + 1] = After(run[i], list[i + 1])
    BY <2>1 DEF LeadsTo, n
  <2> QED BY <1>1, <1>2, <2>1, <2>2
<1>6. LeadsTo(run2, After(from, Head(list)), rest, to)
  BY <1>1, <1>3, <1>4, <1>5 DEF LeadsTo
<1> QED BY <1>1, <1>2, <1>6 DEF rest

\* What the scancodes of the keys do
LEMMA CodeEffects ==
  ASSUME NEW t \in SUBSET AllFlags, "E0ESC" \notin t
  PROVE  /\ After(t, 30) = t /\ After(t, 158) = t /\ After(t, 186) = t
         /\ After(t, 42) = t \cup {"SHIFT"} /\ After(t, 170) = t \ {"SHIFT"}
         /\ After(t, 54) = t \cup {"SHIFT"} /\ After(t, 182) = t \ {"SHIFT"}
         /\ After(t, 29) = t \cup {"CTL"} /\ After(t, 157) = t \ {"CTL"}
         /\ After(t, 56) = t \cup {"ALT"} /\ After(t, 184) = t \ {"ALT"}
         /\ After(t, 58) = (t \ {"CAPSLOCK"}) \cup ({"CAPSLOCK"} \ t)
         /\ After(After(t, 224), 29) = t \cup {"CTL"} /\ After(After(t, 224), 157) = t \ {"CTL"}
         /\ After(After(t, 224), 83) = t /\ After(After(t, 224), 211) = t
<1>1. After(t, 30) = t /\ After(t, 158) = t /\ After(t, 186) = t
  BY DEF After, E0, shiftcode, togglecode
<1>2. After(t, 42) = t \cup {"SHIFT"} /\ After(t, 170) = t \ {"SHIFT"}
  BY DEF After, E0, shiftcode, togglecode
<1>3. After(t, 54) = t \cup {"SHIFT"} /\ After(t, 182) = t \ {"SHIFT"}
  BY DEF After, E0, shiftcode, togglecode
<1>4. After(t, 29) = t \cup {"CTL"} /\ After(t, 157) = t \ {"CTL"}
  BY DEF After, E0, shiftcode, togglecode
<1>5. After(t, 56) = t \cup {"ALT"} /\ After(t, 184) = t \ {"ALT"}
  BY DEF After, E0, shiftcode, togglecode
<1>6. After(t, 58) = (t \ {"CAPSLOCK"}) \cup ({"CAPSLOCK"} \ t)
  BY DEF After, E0, shiftcode, togglecode
<1>7. After(t, 224) = t \cup {"E0ESC"}
  BY DEF After, E0
<1>8. After(t \cup {"E0ESC"}, 29) = t \cup {"CTL"} /\ After(t \cup {"E0ESC"}, 157) = t \ {"CTL"}
  BY DEF After, E0, shiftcode, togglecode
<1>9. After(t \cup {"E0ESC"}, 83) = t /\ After(t \cup {"E0ESC"}, 211) = t
  BY DEF After, E0, shiftcode, togglecode
<1> QED BY <1>1, <1>2, <1>3, <1>4, <1>5, <1>6, <1>7, <1>8, <1>9

\* A key goes down.
LEMMA KeyDown ==
  ASSUME NEW key \in DOMAIN KeyCodes, NEW h, \A k \in h : Kind[k] # Kind[key],
         NEW c \in BOOLEAN, NEW from, NEW list \in Seq(Nat),
         \E run \in Runs : LeadsTo(run, from, list, Modifiers(h, c))
  PROVE  LET to == Modifiers(h \cup {key}, IF key = "CapsLock" THEN ~c ELSE c)
         IN  /\ list \o Down(key) \in Seq(Nat)
             /\ \E run \in Runs : LeadsTo(run, from, list \o Down(key), to)
<1> DEFINE t == Modifiers(h, c)
           to == Modifiers(h \cup {key}, IF key = "CapsLock" THEN ~c ELSE c)
           u == After(t, 224)
           Led == /\ list \o Down(key) \in Seq(Nat)
                  /\ \E run \in Runs : LeadsTo(run, from, list \o Down(key), to)
<1>1. t \in SUBSET AllFlags /\ "E0ESC" \notin t
  BY DEF Modifiers, AllFlags
<1>2. key \in {"a", "LShift", "RShift", "LCtl", "RCtl", "Alt", "CapsLock", "Del"}
  BY DEF KeyCodes
<1>3. PICK run \in Runs : LeadsTo(run, from, list, t)
  OBVIOUS
<1>4. u \in SUBSET AllFlags
  BY <1>1, AfterTypes
<1>5. ASSUME NEW d \in Nat, Down(key) = <<d>>, After(t, d) = to
      PROVE  Led
  <2>1. list \o Down(key) = Append(list, d)
    BY <1>5
  <2> HIDE DEF t, to
  <2> QED BY <1>3, <1>5, <2>1, OneMoreCode
<1>6. ASSUME NEW d \in Nat, Down(key) = <<224, d>>, After(u, d) = to
      PROVE  Led
  <2>1. list \o Down(key) = Append(Append(list, 224), d)
    BY <1>6
  <2> DEFINE more == Append(list, 224)
  <2> HIDE DEF t, to
  <2>2. more \in Seq(Nat) /\ \E run2 \in Runs : LeadsTo(run2, from, more, u)
    BY <1>3, OneMoreCode
  <2>3. PICK run2 \in Runs : LeadsTo(run2, from, more, u)
    BY <2>2
  <2> HIDE DEF more, u
  <2>4. Append(more, d) \in Seq(Nat) /\ \E run3 \in Runs : LeadsTo(run3, from, Append(more, d), to)
    BY <1>6, <2>2, <2>3, OneMoreCode
  <2> QED BY <2>1, <2>4 DEF more
<1> HIDE DEF t, to, u, Led
<1>7. ASSUME key = "a" PROVE Led
  <2>1. to = t BY <1>7 DEF to, t, Modifiers
  <2>2. Down(key) = <<30>> BY <1>7 DEF Down, KeyCodes
  <2>3. After(t, 30) = t BY <1>1, CodeEffects
  <2> QED BY <1>5, <2>1, <2>2, <2>3
<1>8. ASSUME key = "LShift" PROVE Led
  <2>1. to = t \cup {"SHIFT"} BY <1>8 DEF to, t, Modifiers
  <2>2. Down(key) = <<42>> BY <1>8 DEF Down, KeyCodes
  <2>3. After(t, 42) = t \cup {"SHIFT"} BY <1>1, CodeEffects
  <2> QED BY <1>5, <2>1, <2>2, <2>3
<1>9. ASSUME key = "RShift" PROVE Led
  <2>1. to = t \cup {"SHIFT"} BY <1>9 DEF to, t, Modifiers
  <2>2. Down(key) = <<54>> BY <1>9 DEF Down, KeyCodes
  <2>3. After(t, 54) = t \cup {"SHIFT"} BY <1>1, CodeEffects
  <2> QED BY <1>5, <2>1, <2>2, <2>3
<1>10. ASSUME key = "LCtl" PROVE Led
  <2>1. to = t \cup {"CTL"} BY <1>10 DEF to, t, Modifiers
  <2>2. Down(key) = <<29>> BY <1>10 DEF Down, KeyCodes
  <2>3. After(t, 29) = t \cup {"CTL"} BY <1>1, CodeEffects
  <2> QED BY <1>5, <2>1, <2>2, <2>3
<1>11. ASSUME key = "RCtl" PROVE Led
  <2>1. to = t \cup {"CTL"} BY <1>11 DEF to, t, Modifiers
  <2>2. Down(key) = <<224, 29>> BY <1>11 DEF Down, KeyCodes, E0
  <2>3. After(u, 29) = t \cup {"CTL"} BY <1>1, CodeEffects DEF u
  <2> QED BY <1>6, <2>1, <2>2, <2>3
<1>12. ASSUME key = "Alt" PROVE Led
  <2>1. to = t \cup {"ALT"} BY <1>12 DEF to, t, Modifiers
  <2>2. Down(key) = <<56>> BY <1>12 DEF Down, KeyCodes
  <2>3. After(t, 56) = t \cup {"ALT"} BY <1>1, CodeEffects
  <2> QED BY <1>5, <2>1, <2>2, <2>3
<1>13. ASSUME key = "CapsLock" PROVE Led
  <2>1. to = (t \ {"CAPSLOCK"}) \cup ({"CAPSLOCK"} \ t) BY <1>13 DEF to, t, Modifiers
  <2>2. Down(key) = <<58>> BY <1>13 DEF Down, KeyCodes
  <2>3. After(t, 58) = (t \ {"CAPSLOCK"}) \cup ({"CAPSLOCK"} \ t) BY <1>1, CodeEffects
  <2> QED BY <1>5, <2>1, <2>2, <2>3
<1>14. ASSUME key = "Del" PROVE Led
  <2>1. to = t BY <1>14 DEF to, t, Modifiers
  <2>2. Down(key) = <<224, 83>> BY <1>14 DEF Down, KeyCodes, E0
  <2>3. After(u, 83) = t BY <1>1, CodeEffects DEF u
  <2> QED BY <1>6, <2>1, <2>2, <2>3
<1> QED BY <1>2, <1>7, <1>8, <1>9, <1>10, <1>11, <1>12, <1>13, <1>14 DEF Led, to

\* A key goes up.
LEMMA KeyUp ==
  ASSUME NEW key \in DOMAIN KeyCodes, NEW h, \A k \in h \ {key} : Kind[k] # Kind[key], key \in h,
         NEW c \in BOOLEAN, NEW from, NEW list \in Seq(Nat),
         \E run \in Runs : LeadsTo(run, from, list, Modifiers(h, c))
  PROVE  /\ list \o Up(key) \in Seq(Nat)
         /\ \E run \in Runs : LeadsTo(run, from, list \o Up(key), Modifiers(h \ {key}, c))
<1> DEFINE t == Modifiers(h, c)
           to == Modifiers(h \ {key}, c)
           u == After(t, 224)
           Led == /\ list \o Up(key) \in Seq(Nat)
                  /\ \E run \in Runs : LeadsTo(run, from, list \o Up(key), to)
<1>1. t \in SUBSET AllFlags /\ "E0ESC" \notin t
  BY DEF Modifiers, AllFlags
<1>2. key \in {"a", "LShift", "RShift", "LCtl", "RCtl", "Alt", "CapsLock", "Del"}
  BY DEF KeyCodes
<1>3. PICK run \in Runs : LeadsTo(run, from, list, t)
  OBVIOUS
<1>4. u \in SUBSET AllFlags
  BY <1>1, AfterTypes
<1>5. ASSUME NEW d \in Nat, Up(key) = <<d>>, After(t, d) = to
      PROVE  Led
  <2>1. list \o Up(key) = Append(list, d)
    BY <1>5
  <2> HIDE DEF t, to
  <2> QED BY <1>3, <1>5, <2>1, OneMoreCode
<1>6. ASSUME NEW d \in Nat, Up(key) = <<224, d>>, After(u, d) = to
      PROVE  Led
  <2>1. list \o Up(key) = Append(Append(list, 224), d)
    BY <1>6
  <2> DEFINE more == Append(list, 224)
  <2> HIDE DEF t, to
  <2>2. more \in Seq(Nat) /\ \E run2 \in Runs : LeadsTo(run2, from, more, u)
    BY <1>3, OneMoreCode
  <2>3. PICK run2 \in Runs : LeadsTo(run2, from, more, u)
    BY <2>2
  <2> HIDE DEF more, u
  <2>4. Append(more, d) \in Seq(Nat) /\ \E run3 \in Runs : LeadsTo(run3, from, Append(more, d), to)
    BY <1>6, <2>2, <2>3, OneMoreCode
  <2> QED BY <2>1, <2>4 DEF more
<1> HIDE DEF t, to, u, Led
<1>7. ASSUME key = "a" PROVE Led
  <2>1. to = t BY <1>7 DEF to, t, Modifiers
  <2>2. Up(key) = <<158>> BY <1>7 DEF Up, KeyCodes
  <2>3. After(t, 158) = t BY <1>1, CodeEffects
  <2> QED BY <1>5, <2>1, <2>2, <2>3
<1>8. ASSUME key = "LShift" PROVE Led
  <2>1. "RShift" \notin h BY <1>8 DEF Kind
  <2>2. to = t \ {"SHIFT"} BY <1>8, <2>1 DEF to, t, Modifiers
  <2>3. Up(key) = <<170>> BY <1>8 DEF Up, KeyCodes
  <2>4. After(t, 170) = t \ {"SHIFT"} BY <1>1, CodeEffects
  <2> QED BY <1>5, <2>2, <2>3, <2>4
<1>9. ASSUME key = "RShift" PROVE Led
  <2>1. "LShift" \notin h BY <1>9 DEF Kind
  <2>2. to = t \ {"SHIFT"} BY <1>9, <2>1 DEF to, t, Modifiers
  <2>3. Up(key) = <<182>> BY <1>9 DEF Up, KeyCodes
  <2>4. After(t, 182) = t \ {"SHIFT"} BY <1>1, CodeEffects
  <2> QED BY <1>5, <2>2, <2>3, <2>4
<1>10. ASSUME key = "LCtl" PROVE Led
  <2>1. "RCtl" \notin h BY <1>10 DEF Kind
  <2>2. to = t \ {"CTL"} BY <1>10, <2>1 DEF to, t, Modifiers
  <2>3. Up(key) = <<157>> BY <1>10 DEF Up, KeyCodes
  <2>4. After(t, 157) = t \ {"CTL"} BY <1>1, CodeEffects
  <2> QED BY <1>5, <2>2, <2>3, <2>4
<1>11. ASSUME key = "RCtl" PROVE Led
  <2>1. "LCtl" \notin h BY <1>11 DEF Kind
  <2>2. to = t \ {"CTL"} BY <1>11, <2>1 DEF to, t, Modifiers
  <2>3. Up(key) = <<224, 157>> BY <1>11 DEF Up, KeyCodes, E0
  <2>4. After(u, 157) = t \ {"CTL"} BY <1>1, CodeEffects DEF u
  <2> QED BY <1>6, <2>2, <2>3, <2>4
<1>12. ASSUME key = "Alt" PROVE Led
  <2>1. to = t \ {"ALT"} BY <1>12 DEF to, t, Modifiers
  <2>2. Up(key) = <<184>> BY <1>12 DEF Up, KeyCodes
  <2>3. After(t, 184) = t \ {"ALT"} BY <1>1, CodeEffects
  <2> QED BY <1>5, <2>1, <2>2, <2>3
<1>13. ASSUME key = "CapsLock" PROVE Led
  <2>1. to = t BY <1>13 DEF to, t, Modifiers
  <2>2. Up(key) = <<186>> BY <1>13 DEF Up, KeyCodes
  <2>3. After(t, 186) = t BY <1>1, CodeEffects
  <2> QED BY <1>5, <2>1, <2>2, <2>3
<1>14. ASSUME key = "Del" PROVE Led
  <2>1. to = t BY <1>14 DEF to, t, Modifiers
  <2>2. Up(key) = <<224, 211>> BY <1>14 DEF Up, KeyCodes, E0
  <2>3. After(u, 211) = t BY <1>1, CodeEffects DEF u
  <2> QED BY <1>6, <2>1, <2>2, <2>3
<1> QED BY <1>2, <1>7, <1>8, <1>9, <1>10, <1>11, <1>12, <1>13, <1>14 DEF Led, to

\* What a step leaves alone
LEMMA SameModifiers ==
  ASSUME KbdInv, KbdTyped', UNCHANGED <<shift, held, codes, caps>>
  PROVE  KbdInv'
<1> QED BY DEF KbdInv

LEMMA StoreTypes ==
  ASSUME KbdTyped, NEW c \in Characters \cup {0}, Store(c)
  PROVE  /\ buf' \in [0 .. CONSBUFSIZE - 1 -> Characters \cup {0}]
         /\ wpos' \in 0 .. CONSBUFSIZE - 1
<1> QED BY CONSBUFSIZEAssumption DEF KbdTyped, Store, NoChar

LEMMA DeviceSteps ==
  ASSUME KbdInv, NEW key \in Keys, (Alone(key) /\ Press(key)) \/ Release(key)
  PROVE  KbdInv'
<1>1. KbdTyped /\ key \in DOMAIN KeyCodes
  BY KeysAssumption DEF KbdInv
<1>2. codes \in Seq(Nat) /\ caps \in BOOLEAN
  BY <1>1 DEF KbdTyped
<1>3. CASE Alone(key) /\ Press(key)
  <2>1. \A k \in held : Kind[k] # Kind[key]
    BY <1>3 DEF Alone
  <2>2. /\ held' = held \cup {key} /\ caps' = (IF key = "CapsLock" THEN ~caps ELSE caps)
        /\ codes' = codes \o Down(key) /\ shift' = shift
    BY <1>3 DEF Press, Send
  <2>3. /\ codes \o Down(key) \in Seq(Nat)
        /\ \E run \in Runs : LeadsTo(run, shift, codes \o Down(key),
             Modifiers(held \cup {key}, IF key = "CapsLock" THEN ~caps ELSE caps))
    BY <1>1, <1>2, <2>1, KeyDown DEF KbdInv
  <2>4. \E run \in Runs : LeadsTo(run, shift', codes', Modifiers(held', caps'))
    BY <2>2, <2>3
  <2>5. \A j, k \in held' : Kind[j] = Kind[k] => j = k
    BY <2>1, <2>2 DEF KbdInv
  <2>6. KbdTyped'
    BY <1>1, <1>3, <2>2, <2>3 DEF KbdTyped, Press
  <2> QED BY <2>4, <2>5, <2>6 DEF KbdInv
<1>4. CASE Release(key)
  <2>1. key \in held /\ \A k \in held \ {key} : Kind[k] # Kind[key]
    BY <1>4 DEF KbdInv, Release
  <2>2. /\ held' = held \ {key} /\ caps' = caps
        /\ codes' = codes \o Up(key) /\ shift' = shift
    BY <1>4 DEF Release, Send
  <2>3. /\ codes \o Up(key) \in Seq(Nat)
        /\ \E run \in Runs : LeadsTo(run, shift, codes \o Up(key), Modifiers(held \ {key}, caps))
    BY <1>1, <1>2, <2>1, KeyUp DEF KbdInv
  <2>4. \E run \in Runs : LeadsTo(run, shift', codes', Modifiers(held', caps'))
    BY <2>2, <2>3
  <2>5. \A j, k \in held' : Kind[j] = Kind[k] => j = k
    BY <2>2 DEF KbdInv
  <2>6. KbdTyped'
    BY <1>1, <1>4, <2>2, <2>3 DEF KbdTyped, Release
  <2> QED BY <2>4, <2>5, <2>6 DEF KbdInv
<1> QED BY <1>3, <1>4

LEMMA ScancodeStep ==
  ASSUME KbdInv, KbdData
  PROVE  KbdInv'
<1> DEFINE code == Head(codes)
<1>1. /\ KbdTyped /\ codes \in Seq(Nat) /\ codes # <<>> /\ codes' = Tail(codes)
      /\ shift \in SUBSET AllFlags /\ UNCHANGED <<rpos, doing, got, held, com, caps>>
  BY DEF KbdInv, KbdTyped, KbdData
<1>2. PICK run \in Runs : LeadsTo(run, shift, codes, Modifiers(held, caps))
  BY DEF KbdInv
<1>3. /\ code \in Nat /\ codes' \in Seq(Nat)
      /\ \E run2 \in Runs : LeadsTo(run2, After(shift, code), codes', Modifiers(held, caps))
  BY <1>1, <1>2, FirstCode
<1>4. /\ shift' = After(shift, code)
      /\ buf' \in [0 .. CONSBUFSIZE - 1 -> Characters \cup {0}] /\ wpos' \in 0 .. CONSBUFSIZE - 1
  <2>1. CASE code = E0 /\ shift' = shift \cup {"E0ESC"} /\ UNCHANGED <<buf, wpos, reboot>>
    BY <1>1, <2>1 DEF After, KbdTyped
  <2>2. CASE code # E0 /\ code >= 128 /\ Released(code) /\ UNCHANGED <<buf, wpos, reboot>>
    BY <1>1, <1>3, <2>2 DEF After, KbdTyped, Released, Escaped
  <2>3. CASE code < 128 /\ Pressed(code)
    <3> DEFINE d == IF Escaped THEN code + 128 ELSE code
               c == CapsLocked(ShiftFlags(d), charcode(ShiftFlags(d), d))
    <3>1. shift' = ShiftFlags(d) /\ Store(c)
      BY <2>3 DEF Pressed
    <3>2. code # E0 /\ ~(code >= 128)
      BY <1>3, <2>3 DEF E0
    <3>3. ShiftFlags(d) = After(shift, code)
      BY <3>2 DEF After, ShiftFlags, Escaped
    <3>4. c \in Characters \cup {0}
      BY DEF CapsLocked, charcode, Characters, NoChar, CtlA, UpperA, LowerA, KEY_DEL
    <3> HIDE DEF c
    <3> QED BY <1>1, <3>1, <3>3, <3>4, StoreTypes
  <2> QED BY <2>1, <2>2, <2>3 DEF KbdData
<1>5. After(shift, code) \in SUBSET AllFlags
  BY <1>1, <1>3, AfterTypes
<1> HIDE DEF code
<1>6. \E run2 \in Runs : LeadsTo(run2, shift', codes', Modifiers(held', caps'))
  BY <1>1, <1>3, <1>4
<1>7. KbdTyped'
  BY <1>1, <1>3, <1>4, <1>5 DEF KbdTyped
<1>8. \A j, k \in held' : Kind[j] = Kind[k] => j = k
  BY <1>1 DEF KbdInv
<1> QED BY <1>6, <1>7, <1>8 DEF KbdInv

LEMMA KbdStep == KbdInv /\ [ConNext]_conVars => KbdInv'
<1> SUFFICES ASSUME KbdInv, [ConNext]_conVars
             PROVE  KbdInv'
  OBVIOUS
<1>1. KbdTyped
  BY DEF KbdInv
<1>2. CASE SerialData
  <2>1. com \in Characters \cup {0} /\ Store(com)
    BY <1>1, <1>2 DEF SerialData, KbdTyped, Characters
  <2>2. KbdTyped'
    BY <1>1, <1>2, <2>1, StoreTypes DEF SerialData, KbdTyped
  <2> QED BY <1>2, <2>2, SameModifiers DEF SerialData
<1>3. CASE KbdData
  BY <1>3, ScancodeStep
<1>4. CASE Drained
  <2>1. KbdTyped'
    BY <1>1, <1>4 DEF Drained, KbdTyped
  <2> QED BY <1>4, <2>1, SameModifiers DEF Drained
<1>5. CASE Getc
  <2>1. KbdTyped'
    BY <1>1, <1>5, CONSBUFSIZEAssumption DEF Getc, KbdTyped
  <2> QED BY <1>5, <2>1, SameModifiers DEF Getc
<1>6. CASE Interrupt
  <2>1. KbdTyped'
    BY <1>1, <1>6 DEF Interrupt, KbdTyped
  <2> QED BY <1>6, <2>1, SameModifiers DEF Interrupt
<1>7. CASE Consume
  <2>1. KbdTyped'
    BY <1>1, <1>7 DEF Consume, KbdTyped
  <2> QED BY <1>7, <2>1, SameModifiers DEF Consume
<1>8. ASSUME NEW key \in Keys, (Alone(key) /\ Press(key)) \/ Release(key)
      PROVE  KbdInv'
  BY <1>8, DeviceSteps
<1>9. CASE Serial(LowerA)
  <2>1. KbdTyped'
    BY <1>1, <1>9 DEF Serial, KbdTyped
  <2> QED BY <1>9, <2>1, SameModifiers DEF Serial
<1>10. CASE UNCHANGED conVars
  <2>1. KbdTyped'
    BY <1>1, <1>10 DEF conVars, KbdTyped
  <2> QED BY <1>10, <2>1, SameModifiers DEF conVars
<1> QED BY <1>2, <1>3, <1>4, <1>5, <1>6, <1>7, <1>8, <1>9, <1>10 DEF ConNext, Input

LEMMA KbdInitially == ConInit => KbdInv
<1> SUFFICES ASSUME ConInit PROVE KbdInv
  OBVIOUS
<1> DEFINE none == [i \in Nat |-> {}]
<1>1. KbdTyped
  <2>1. codes \in Seq(Nat)
    BY DEF ConInit
  <2>2. /\ buf \in [0 .. CONSBUFSIZE - 1 -> Characters \cup {0}]
        /\ rpos \in 0 .. CONSBUFSIZE - 1 /\ wpos \in 0 .. CONSBUFSIZE - 1
    BY CONSBUFSIZEAssumption DEF ConInit
  <2>3. shift \in SUBSET AllFlags /\ com \in {0, LowerA} /\ caps \in BOOLEAN
    BY DEF ConInit
  <2>4. got \in Characters \cup {0} /\ doing = "user"
    BY DEF ConInit
  <2> QED BY <2>1, <2>2, <2>3, <2>4 DEF KbdTyped
<1>2. none \in Runs /\ none[0] = {}
  BY DEF Runs
<1> HIDE DEF none
<1>3. Modifiers(held, caps) = {} /\ shift = {} /\ codes = <<>> /\ held = {}
  BY DEF ConInit, Modifiers
<1>4. LeadsTo(none, shift, codes, Modifiers(held, caps))
  BY <1>2, <1>3 DEF LeadsTo
<1> QED BY <1>1, <1>2, <1>3, <1>4 DEF KbdInv

\* After the last scancode has been read, kbd_proc_data's modifiers are those
\* of the keys that are down, whatever keys were pressed and released and
\* however the interrupts cut up their scancodes.
THEOREM ModifiersAreRight == ConSpec => []KeyboardOK
<1>1. KbdInv => KeyboardOK
  <2> SUFFICES ASSUME KbdInv PROVE KeyboardOK
    OBVIOUS
  <2>1. ConTypeOK
    BY DEF KbdInv, KbdTyped, ConTypeOK, AllFlags, Characters
  <2>2. ASSUME codes = <<>> PROVE shift = Modifiers(held, caps)
    BY <2>2 DEF KbdInv, LeadsTo
  <2>3. ModifiersFollowKeys
    BY <2>2 DEF ModifiersFollowKeys, AnyHeld, Modifiers
  <2> QED BY <2>1, <2>3 DEF KeyboardOK
<1> QED BY KbdInitially, KbdStep, <1>1, PTL DEF ConSpec

-----------------------------------------------------------------------------
(***************************************************************************)
(* Page faults of a program                                                *)
(***************************************************************************)

Registers == [eip : Int, esp : Int, eax : Int, ebx : Int, ecx : Int, esi : Int, eflags : Int]
Memories == [StackWords -> Int]
Traps == [cpu : Registers, stacks : Memories, pushing : BOOLEAN]

UpTyped ==
  /\ cpu \in Registers /\ stacks \in Memories /\ traps \in Seq(Traps)
  /\ missing \subseteq StackPages \cup DataPages
  /\ insn \in DataPages \cup {0} /\ uses \subseteq DataPages
  /\ up \in {"off", "run", "done", "destroyed"}

\* Where the kernel puts the frame of a fault.
Base(esp) == IF OnUX(esp) THEN esp - UTF - 1 ELSE UXSTACKTOP - UTF

\* In memory m the frame at b has the registers that the upcall pops, and, until
\* it has pushed the return address, the rest.
Saved(m, b, c) ==
  /\ m[b + Esi] = c.esi /\ m[b + Ebx] = c.ebx /\ m[b + Ecx] = c.ecx /\ m[b + Eax] = c.eax
  /\ m[b + Eflags] = c.eflags
Whole(m, b, c) ==
  /\ Saved(m, b, c)
  /\ m[b + Eip] = c.eip /\ m[b + Esp] = c.esp
  /\ c.eip = 2008 => m[b + FaultVa] = c.esp - 1

\* Registers c and memory m are right for the place of the upcall, or of the
\* handler, that c.eip tells, when it has to do with fault t.
AtPlace(c, m, t) ==
  LET b == Base(t.cpu.esp)
      registers == c.esi = t.cpu.esi /\ c.ebx = t.cpu.ebx /\ c.ecx = t.cpu.ecx /\ c.eax = t.cpu.eax
      pushed == m[t.cpu.esp - 1] = t.cpu.eip
      saved == t.pushing \/ Saved(m, b, t.cpu)
  IN  \/ /\ c.eip \in 2000 .. 2003 /\ c.esp = b - (c.eip - 2000) /\ c.esp >= UXBASE
         /\ c.eip >= 2001 => m[b - 1] = b
         /\ c.eip >= 2002 => m[b - 2] = 2004
         /\ Whole(m, b, t.cpu) /\ ~t.pushing
      \/ c.eip = 2004 /\ c.esp = b - 1 /\ c.esp >= UXBASE /\ Whole(m, b, t.cpu) /\ ~t.pushing
      \/ c.eip = 2005 /\ c.esp = b /\ Whole(m, b, t.cpu) /\ ~t.pushing
      \/ c.eip = 2006 /\ c.esp = b /\ c.eax = b /\ Whole(m, b, t.cpu) /\ ~t.pushing
      \/ /\ c.eip = 2007 /\ c.esp = b /\ c.eax = b /\ c.ebx = t.cpu.eip
         /\ Whole(m, b, t.cpu) /\ ~t.pushing
      \/ c.eip = 2008 /\ c.esp = t.cpu.esp /\ c.eax = b /\ c.ebx = t.cpu.eip /\ saved
      \/ c.eip = 2009 /\ c.esp = t.cpu.esp - 1 /\ c.eax = b /\ pushed /\ saved
      \/ /\ c.eip = 2010 /\ c.esp = t.cpu.esp - 1 /\ c.eax = b
         /\ m[b + Esp] = t.cpu.esp - 1 /\ pushed /\ saved
      \/ c.eip = 2011 /\ c.esp = b /\ m[b + Esp] = t.cpu.esp - 1 /\ pushed /\ saved
      \/ c.eip = 2012 /\ c.esp = b + 2 /\ m[b + Esp] = t.cpu.esp - 1 /\ pushed /\ saved
      \/ /\ c.eip = 2013 /\ c.esp = b + 10 /\ m[b + Esp] = t.cpu.esp - 1 /\ pushed /\ saved
         /\ t.pushing \/ registers
      \/ /\ c.eip = 2014 /\ c.esp = b + 11 /\ m[b + Esp] = t.cpu.esp - 1 /\ pushed /\ saved
         /\ t.pushing \/ registers
      \/ /\ c.eip = 2015 /\ c.esp = b + 12 /\ m[b + Esp] = t.cpu.esp - 1 /\ pushed
         /\ t.pushing \/ (registers /\ c.eflags = t.cpu.eflags)
      \/ /\ c.eip = 2016 /\ c.esp = t.cpu.esp - 1 /\ pushed
         /\ t.pushing \/ (registers /\ c.eflags = t.cpu.eflags)

\* The frames of faults that are not over lie one below the other, each below
\* what the handler has on the stack when it faults.  Only the upcall's fault
\* when it pushes the return address takes the place of the frame it has to do with.
FrameAt(k) == Base(traps[k].cpu.esp)
Chain ==
  /\ traps # <<>> => traps[1].cpu.eip = Program /\ traps[1].cpu.esp \in 1 .. USTACKTOP
  /\ \A k \in 2 .. Len(traps) :
       \/ traps[k].cpu.eip = 2003
       \/ k = 2 /\ traps[k].cpu.eip = 2008 /\ traps[1].pushing
  /\ \A k \in 1 .. Len(traps) : FrameAt(k) >= UXBASE /\ (traps[k].pushing => k = 1)
  /\ \A j, k \in 1 .. Len(traps) :
       j < k /\ traps[j + 1].cpu.eip = 2003 => FrameAt(k) <= FrameAt(j) - UTF - 4

\* What was on a stack when the fault came is still there.
Kept ==
  \A k \in 1 .. Len(traps) : \A a \in StackWords :
    a >= traps[k].cpu.esp /\ SameStack(a, traps[k].cpu.esp) => stacks[a] = traps[k].stacks[a]

\* Who waits for a fault to be handled will go on where it was.
WhoWaits == \A k \in 1 .. Len(traps) - 1 : AtPlace(traps[k + 1].cpu, stacks, traps[k])

Levels == Chain /\ Kept /\ WhoWaits

\* The program runs, or the upcall for the last fault.  A page that was missing
\* for the return address is there before it is pushed again.
Running ==
  /\ up = "off" => traps = <<>>
  /\ traps = <<>> => cpu.eip = Program /\ (up = "run" => cpu.esp \in 1 .. USTACKTOP)
  /\ traps = <<>> => cpu.esp \in 0 .. USTACKTOP
  /\ traps # <<>> =>
       /\ AtPlace(cpu, stacks, Trapped)
       /\ cpu.eip \in 2004 .. 2008 /\ Trapped.cpu.eip = 2008 => Page(Trapped.cpu.esp - 1) \notin missing

UpInv == UpTyped /\ Levels /\ Running

LEMMA Stacks ==
  /\ USTACKTOP \in Nat /\ UXBASE \in Nat /\ UXSTACKTOP \in Nat /\ USTACKTOP < UXBASE
  /\ \A a : a \in StackWords <=> a \in Int /\ ((0 <= a /\ a < USTACKTOP) \/ OnUX(a))
  /\ \A a : OnUX(a) /\ a \in Int => Page(a) = a /\ a \notin StackPages \cup DataPages
<1>1. PICK size \in 1 .. UXBASE : StackPages = 0 .. size - 1
  BY StacksAssumption
<1>2. (CHOOSE n \in StackPages : \A m \in StackPages : m <= n) = size - 1
  <2>1. size - 1 \in StackPages /\ \A m \in StackPages : m <= size - 1
    BY <1>1, StacksAssumption
  <2>2. \A n \in StackPages : (\A m \in StackPages : m <= n) => n = size - 1
    BY <1>1, <2>1, StacksAssumption
  <2> QED
    BY <2>1, <2>2
<1>3. USTACKTOP = PGWORDS * size
  <2>1. USTACKTOP = PGWORDS * (1 + (size - 1))
    BY <1>2, Zenon DEF USTACKTOP
  <2> QED
    BY <2>1
<1>4. USTACKTOP \in Nat
  BY <1>1, <1>3, StacksAssumption
<1>5. UXSTACKTOP \in Nat /\ UXBASE <= UXSTACKTOP
  BY StacksAssumption DEF UXSTACKTOP
<1>6. \A a : OnUX(a) /\ a \in Int => Page(a) = a /\ a \notin StackPages \cup DataPages
  BY <1>1, <1>4, <1>5, StacksAssumption DEF OnUX, Page
<1> QED
  BY <1>4, <1>5, <1>6, StacksAssumption DEF StackWords, OnUX

LEMMA Layout ==
  /\ UTF = 13 /\ FaultVa = 0 /\ Esi = 3 /\ Ebx = 6 /\ Ecx = 8 /\ Eax = 9
  /\ Eip = 10 /\ Eflags = 11 /\ Esp = 12 /\ Program = 1000
BY DEF UTF, FaultVa, Esi, Ebx, Ecx, Eax, Eip, Eflags, Esp, Program

LEMMA TrapTypes ==
  ASSUME UpTyped, NEW k \in 1 .. Len(traps)
  PROVE  /\ traps[k] \in Traps /\ traps[k].cpu \in Registers /\ traps[k].stacks \in Memories
         /\ traps[k].pushing \in BOOLEAN
         /\ traps[k].cpu.esp \in Int /\ traps[k].cpu.eip \in Int
         /\ FrameAt(k) \in Int
         /\ OnUX(traps[k].cpu.esp) => FrameAt(k) = traps[k].cpu.esp - 14
         /\ ~OnUX(traps[k].cpu.esp) => FrameAt(k) = UXSTACKTOP - 13
         /\ FrameAt(k) + 13 <= UXSTACKTOP
<1>1. traps[k] \in Traps
  BY ElementOfSeq DEF UpTyped
<1>2. traps[k].cpu \in Registers /\ traps[k].stacks \in Memories /\ traps[k].pushing \in BOOLEAN
  BY <1>1 DEF Traps
<1>3. traps[k].cpu.esp \in Int /\ traps[k].cpu.eip \in Int
  BY <1>2 DEF Registers
<1> QED
  BY <1>1, <1>2, <1>3, Layout, Stacks DEF FrameAt, Base, OnUX

\* What AtPlace says in the handler
LEMMA InHandler ==
  ASSUME NEW c, NEW m, NEW t, c.eip = 2003, NEW b, b = Base(t.cpu.esp)
  PROVE  AtPlace(c, m, t) <=>
           /\ c.esp = b - 3 /\ c.esp >= UXBASE /\ m[b - 1] = b /\ m[b - 2] = 2004
           /\ Whole(m, b, t.cpu) /\ ~t.pushing
BY DEF AtPlace

\* and at the push of the return address
LEMMA AtPush ==
  ASSUME NEW c, NEW m, NEW t, c.eip = 2008
  PROVE  AtPlace(c, m, t) <=>
           /\ c.esp = t.cpu.esp /\ c.eax = Base(t.cpu.esp) /\ c.ebx = t.cpu.eip
           /\ t.pushing \/ Saved(m, Base(t.cpu.esp), t.cpu)
BY DEF AtPlace

\* A word that no fault has found on its stack
Fresh(a) == \A k \in 1 .. Len(traps) : SameStack(a, traps[k].cpu.esp) => a < traps[k].cpu.esp

\* A handler's fault and the fault it has to do with
LEMMA Nested ==
  ASSUME UpTyped, Levels, NEW k \in 1 .. Len(traps) - 1, traps[k + 1].cpu.eip = 2003
  PROVE  /\ traps[k + 1].cpu.esp = FrameAt(k) - 3
         /\ OnUX(traps[k + 1].cpu.esp)
         /\ FrameAt(k + 1) = FrameAt(k) - 17
<1>1. /\ k \in 1 .. Len(traps) /\ k + 1 \in 1 .. Len(traps)
  BY DEF UpTyped
<1>2. AtPlace(traps[k + 1].cpu, stacks, traps[k])
  BY DEF Levels, WhoWaits
<1>3. traps[k + 1].cpu.esp = FrameAt(k) - 3 /\ traps[k + 1].cpu.esp >= UXBASE
  BY <1>2, InHandler DEF FrameAt
<1>4. FrameAt(k) \in Int /\ FrameAt(k) + 13 <= UXSTACKTOP
  BY <1>1, TrapTypes
<1>5. OnUX(traps[k + 1].cpu.esp)
  BY <1>3, <1>4, Stacks DEF OnUX
<1>6. FrameAt(k + 1) = traps[k + 1].cpu.esp - 14
  BY <1>1, <1>5, TrapTypes
<1> QED
  BY <1>3, <1>4, <1>5, <1>6

\* What lies below the space the last fault left is fresh, and so is that word
\* of its stack that the return address goes to.
LEMMA FreshWords ==
  ASSUME UpTyped, Levels, traps # <<>>
  PROVE  /\ \A a \in Int : OnUX(a) /\ a < FrameAt(Len(traps)) + 14 => Fresh(a)
         /\ Trapped.cpu.esp - 1 \in StackWords => Fresh(Trapped.cpu.esp - 1)
<1>1. PICK n \in Nat : n = Len(traps) /\ n >= 1 /\ n \in 1 .. n /\ 1 \in 1 .. n
  BY EmptySeq DEF UpTyped
<1> USE <1>1
<1>2. ASSUME NEW k \in 1 .. n, OnUX(traps[k].cpu.esp)
      PROVE  FrameAt(n) + 14 <= traps[k].cpu.esp
  <2>1. CASE k = n
    BY <1>1, <1>2, <2>1, TrapTypes
  <2>2. CASE k # n
    <3>1. k # 1
      BY <1>1, <1>2, Stacks, TrapTypes DEF Levels, Chain, OnUX
    <3>2. k \in 2 .. n /\ k - 1 \in 1 .. n - 1 /\ k - 1 \in 1 .. n
      BY <1>1, <3>1
    <3>3. traps[k].cpu.eip = 2003
      <4>1. CASE k = 2 /\ traps[k].cpu.eip = 2008
        <5>1. AtPlace(traps[2].cpu, stacks, traps[1])
          BY <3>2, <4>1 DEF Levels, WhoWaits
        <5>2. traps[2].cpu.esp = traps[1].cpu.esp
          BY <4>1, <5>1, AtPush
        <5> QED
          BY <1>1, <1>2, <4>1, <5>2, Stacks, TrapTypes DEF Levels, Chain, OnUX
      <4> QED
        BY <3>2, <4>1 DEF Levels, Chain
    <3>4. PICK j \in 1 .. n - 1 : k = j + 1 /\ j \in 1 .. n /\ j < n
      BY <3>2
    <3>5. traps[k].cpu.esp = FrameAt(j) - 3
      BY <3>3, <3>4, Nested
    <3>6. FrameAt(n) <= FrameAt(j) - UTF - 4
      BY <3>3, <3>4 DEF Levels, Chain
    <3>7. FrameAt(n) \in Int /\ FrameAt(j) \in Int
      BY <3>4, TrapTypes
    <3> QED
      BY <3>5, <3>6, <3>7, Layout
  <2> QED
    BY <2>1, <2>2
<1>3. ASSUME NEW a \in Int, OnUX(a), a < FrameAt(n) + 14
      PROVE  Fresh(a)
  <2> SUFFICES ASSUME NEW k \in 1 .. n, SameStack(a, traps[k].cpu.esp)
               PROVE  a < traps[k].cpu.esp
    BY DEF Fresh
  <2>1. OnUX(traps[k].cpu.esp)
    BY <1>3 DEF SameStack
  <2>2. FrameAt(n) + 14 <= traps[k].cpu.esp
    BY <1>2, <2>1
  <2>3. FrameAt(n) \in Int /\ traps[k].cpu.esp \in Int
    BY <1>1, TrapTypes
  <2> QED
    BY <1>3, <2>2, <2>3
<1>4. ASSUME Trapped.cpu.esp - 1 \in StackWords
      PROVE  Fresh(Trapped.cpu.esp - 1)
  <2>1. CASE OnUX(Trapped.cpu.esp)
    <3>1. FrameAt(n) = Trapped.cpu.esp - 14 /\ Trapped.cpu.esp \in Int
      BY <1>1, <2>1, TrapTypes DEF Trapped
    <3>2. FrameAt(n) >= UXBASE
      BY <1>1 DEF Levels, Chain
    <3>3. OnUX(Trapped.cpu.esp - 1)
      BY <2>1, <3>1, <3>2, Stacks DEF OnUX
    <3> QED
      BY <1>3, <3>1, <3>3
  <2>2. CASE ~OnUX(Trapped.cpu.esp)
    <3>1. \/ n = 1
          \/ n = 2 /\ traps[2].cpu.eip = 2008
      <4> SUFFICES ASSUME n # 1
                   PROVE  n = 2 /\ traps[2].cpu.eip = 2008
        OBVIOUS
      <4>1. PICK j \in 1 .. n - 1 : n = j + 1 /\ n \in 2 .. n
        <5>1. n - 1 \in 1 .. n - 1 /\ n = (n - 1) + 1 /\ n \in 2 .. n
          OBVIOUS
        <5> QED
          BY <5>1
      <4>2. traps[n].cpu.eip # 2003
        <5> SUFFICES ASSUME traps[j + 1].cpu.eip = 2003
                     PROVE  FALSE
          BY <4>1
        <5>1. traps[j + 1].cpu.esp = FrameAt(j) - 3 /\ OnUX(traps[j + 1].cpu.esp)
          BY Nested
        <5> QED
          BY <2>2, <4>1, <5>1 DEF Trapped
      <4> QED
        BY <4>1, <4>2 DEF Levels, Chain
    <3>2. \A k \in 1 .. n : traps[k].cpu.esp = Trapped.cpu.esp
      <4>1. CASE n = 1
        BY <4>1 DEF Trapped
      <4>2. CASE n = 2 /\ traps[2].cpu.eip = 2008
        <5>1. AtPlace(traps[2].cpu, stacks, traps[1])
          BY <4>2 DEF Levels, WhoWaits
        <5> QED
          BY <4>2, <5>1, AtPush DEF Trapped
      <4> QED
        BY <3>1, <4>1, <4>2
    <3>3. Trapped.cpu.esp \in Int
      BY <1>1, TrapTypes DEF Trapped
    <3> QED
      BY <3>2, <3>3 DEF Fresh
  <2> QED
    BY <2>1, <2>2
<1> QED
  BY <1>3, <1>4

\* A frame depends on its words only.
LEMMA SameFrame ==
  ASSUME NEW m, NEW w, NEW b \in Int, NEW c, \A i \in 0 .. 12 : w[b + i] = m[b + i]
  PROVE  /\ Saved(m, b, c) <=> Saved(w, b, c)
         /\ Whole(m, b, c) <=> Whole(w, b, c)
<1>1. /\ w[b + 0] = m[b + 0] /\ w[b + 3] = m[b + 3] /\ w[b + 6] = m[b + 6] /\ w[b + 8] = m[b + 8]
      /\ w[b + 9] = m[b + 9] /\ w[b + 10] = m[b + 10] /\ w[b + 11] = m[b + 11]
      /\ w[b + 12] = m[b + 12]
  OBVIOUS
<1> QED
  BY <1>1, Layout DEF Saved, Whole

\* Who waits does not see the words that change.
LEMMA WaitingStays ==
  ASSUME UpTyped, Levels, \A a \in StackWords : ~Fresh(a) => stacks'[a] = stacks[a]
  PROVE  \A k \in 1 .. Len(traps) - 1 : AtPlace(traps[k + 1].cpu, stacks', traps[k])
<1> SUFFICES ASSUME NEW k \in 1 .. Len(traps) - 1
             PROVE  AtPlace(traps[k + 1].cpu, stacks', traps[k])
  OBVIOUS
<1>1. k \in 1 .. Len(traps) /\ k + 1 \in 1 .. Len(traps) /\ Len(traps) \in Nat
  BY DEF UpTyped
<1>2. AtPlace(traps[k + 1].cpu, stacks, traps[k])
  BY DEF Levels, WhoWaits
<1>3. CASE traps[k + 1].cpu.eip = 2003
  <2>1. PICK b \in Int : /\ b = Base(traps[k].cpu.esp) /\ b = FrameAt(k)
                         /\ b + 13 <= UXSTACKTOP
    BY <1>1, TrapTypes DEF FrameAt
  <2>2. traps[k + 1].cpu.esp = b - 3 /\ OnUX(b - 3)
    BY <1>3, <2>1, Nested
  <2>3. \A a \in b - 3 .. b + 12 : stacks'[a] = stacks[a]
    <3> SUFFICES ASSUME NEW a \in b - 3 .. b + 12
                 PROVE  stacks'[a] = stacks[a]
      OBVIOUS
    <3>a. a \in Int /\ b - 3 <= a /\ a <= b + 12
      BY <2>1
    <3>1. OnUX(a) /\ a \in Int /\ a \in StackWords
      BY <2>1, <2>2, <3>a, Stacks DEF OnUX
    <3>2. SameStack(a, traps[k + 1].cpu.esp) /\ ~(a < traps[k + 1].cpu.esp)
      BY <2>1, <2>2, <3>1 DEF SameStack, OnUX
    <3> QED
      BY <1>1, <3>1, <3>2 DEF Fresh
  <2>4. /\ stacks[b - 1] = b /\ stacks[b - 2] = 2004 /\ Whole(stacks, b, traps[k].cpu)
        /\ traps[k + 1].cpu.esp >= UXBASE /\ ~traps[k].pushing
    BY <1>2, <1>3, <2>1 DEF AtPlace
  <2>5. stacks'[b - 1] = b /\ stacks'[b - 2] = 2004 /\ Whole(stacks', b, traps[k].cpu)
    <3>1. /\ stacks'[b - 1] = stacks[b - 1] /\ stacks'[b - 2] = stacks[b - 2]
          /\ \A i \in 0 .. 12 : stacks'[b + i] = stacks[b + i]
      <4>1. b - 1 \in b - 3 .. b + 12 /\ b - 2 \in b - 3 .. b + 12
        BY <2>1
      <4>2. ASSUME NEW i \in 0 .. 12 PROVE b + i \in b - 3 .. b + 12
        BY <2>1
      <4> QED
        BY <2>3, <4>1, <4>2
    <3>2. Whole(stacks, b, traps[k].cpu) <=> Whole(stacks', b, traps[k].cpu)
      BY <3>1, SameFrame
    <3> QED
      BY <2>4, <3>1, <3>2
  <2> QED
    BY <1>3, <2>1, <2>2, <2>4, <2>5 DEF AtPlace
<1>4. CASE k + 1 = 2 /\ traps[2].cpu.eip = 2008 /\ traps[1].pushing
  <2>1. k = 1
    BY <1>4
  <2> QED
    BY <1>2, <1>4, <2>1, AtPush
<1> QED
  BY <1>1, <1>3, <1>4 DEF Levels, Chain

\* Handling a fault leaves the faults before it as they are.
LEMMA LevelsStay ==
  ASSUME UpTyped, Levels, UNCHANGED traps,
         \A a \in StackWords : ~Fresh(a) => stacks'[a] = stacks[a]
  PROVE  Levels'
<1>1. Chain'
  BY DEF Levels, Chain, FrameAt
<1>2. Kept'
  <2>1. ASSUME NEW k \in 1 .. Len(traps), NEW a \in StackWords,
               a >= traps[k].cpu.esp, SameStack(a, traps[k].cpu.esp)
        PROVE  stacks'[a] = traps[k].stacks[a]
    <3>1. ~(a < traps[k].cpu.esp)
      BY <2>1, Stacks, TrapTypes
    <3>2. stacks'[a] = stacks[a]
      BY <2>1, <3>1 DEF Fresh
    <3> QED
      BY <2>1, <3>2 DEF Levels, Kept
  <2> QED
    BY <2>1 DEF Kept
<1>3. \A k \in 1 .. Len(traps) - 1 : AtPlace(traps[k + 1].cpu, stacks', traps[k])
  BY WaitingStays
<1> QED
  BY <1>1, <1>2, <1>3 DEF Levels, WhoWaits

\* What is known of the fault that is handled
LEMMA Handled ==
  ASSUME UpInv, traps # <<>>
  PROVE  /\ Len(traps) \in Nat /\ Len(traps) >= 1 /\ Len(traps) \in 1 .. Len(traps)
         /\ Trapped \in Traps /\ Trapped.cpu \in Registers
         /\ Trapped.cpu.esp \in Int /\ Trapped.cpu.eip \in Int
         /\ Base(Trapped.cpu.esp) \in Int /\ Base(Trapped.cpu.esp) = FrameAt(Len(traps))
         /\ UXBASE <= Base(Trapped.cpu.esp) /\ Base(Trapped.cpu.esp) + 13 <= UXSTACKTOP
         /\ AtPlace(cpu, stacks, Trapped)
         /\ \A a \in Int : OnUX(a) /\ a < Base(Trapped.cpu.esp) + 14 => Fresh(a)
         /\ Trapped.cpu.esp \in 1 .. USTACKTOP \/ OnUX(Trapped.cpu.esp)
         /\ Trapped.cpu.esp - 1 \in StackWords /\ Fresh(Trapped.cpu.esp - 1)
         /\ OnUX(Trapped.cpu.esp) => Base(Trapped.cpu.esp) = Trapped.cpu.esp - 14
<1>1. PICK n \in Nat : n = Len(traps) /\ n >= 1 /\ n \in 1 .. n
  BY EmptySeq DEF UpInv, UpTyped
<1>2. /\ Trapped \in Traps /\ Trapped.cpu \in Registers
      /\ Trapped.cpu.esp \in Int /\ Trapped.cpu.eip \in Int
      /\ FrameAt(n) \in Int /\ FrameAt(n) + 13 <= UXSTACKTOP
      /\ OnUX(Trapped.cpu.esp) => FrameAt(n) = Trapped.cpu.esp - 14
  BY <1>1, TrapTypes DEF UpInv, Trapped
<1>3. Base(Trapped.cpu.esp) = FrameAt(n) /\ UXBASE <= FrameAt(n)
  BY <1>1 DEF UpInv, Levels, Chain, FrameAt, Trapped
<1>4. /\ Trapped.cpu.esp \in 1 .. USTACKTOP \/ OnUX(Trapped.cpu.esp)
      /\ Trapped.cpu.esp - 1 \in StackWords
  <2>1. CASE OnUX(Trapped.cpu.esp)
    BY <1>2, <1>3, <2>1, Stacks DEF OnUX
  <2>2. CASE n = 1
    <3>1. Trapped.cpu.esp \in 1 .. USTACKTOP
      BY <1>1, <2>2 DEF UpInv, Levels, Chain, Trapped
    <3> QED
      BY <3>1, Stacks
  <2>3. CASE n = 2 /\ traps[2].cpu.eip = 2008
    <3>1. AtPlace(traps[2].cpu, stacks, traps[1])
      BY <1>1, <2>3 DEF UpInv, Levels, WhoWaits
    <3>2. Trapped.cpu.esp = traps[1].cpu.esp
      BY <1>1, <2>3, <3>1, AtPush DEF Trapped
    <3>3. Trapped.cpu.esp \in 1 .. USTACKTOP
      BY <1>1, <2>3, <3>2 DEF UpInv, Levels, Chain
    <3> QED
      BY <3>3, Stacks
  <2>4. CASE n # 1 /\ traps[n].cpu.eip = 2003
    <3>1. PICK j \in 1 .. n - 1 : n = j + 1
      <4>1. n - 1 \in 1 .. n - 1 /\ n = (n - 1) + 1
        BY <1>1, <2>4
      <4> QED
        BY <4>1
    <3>2. traps[j + 1].cpu.esp = FrameAt(j) - 3 /\ OnUX(traps[j + 1].cpu.esp)
      BY <1>1, <2>4, <3>1, Nested DEF UpInv
    <3> QED
      BY <1>1, <2>1, <3>1, <3>2 DEF Trapped
  <2>5. n # 1 => n \in 2 .. n
    BY <1>1
  <2> QED
    BY <1>1, <2>2, <2>3, <2>4, <2>5 DEF UpInv, Levels, Chain
<1>5. Fresh(Trapped.cpu.esp - 1) /\ \A a \in Int : OnUX(a) /\ a < FrameAt(n) + 14 => Fresh(a)
  BY <1>1, <1>4, FreshWords DEF UpInv
<1>6. AtPlace(cpu, stacks, Trapped)
  BY DEF UpInv, Running
<1> QED
  BY <1>1, <1>2, <1>3, <1>4, <1>5, <1>6

\* A step of the upcall or of the handler
LEMMA HandlingStep ==
  ASSUME UpInv, traps # <<>>, UNCHANGED <<traps, insn, uses, up>>,
         cpu' \in Registers, stacks' \in Memories, missing' \subseteq missing,
         \A a \in StackWords : ~Fresh(a) => stacks'[a] = stacks[a],
         AtPlace(cpu', stacks', Trapped),
         cpu'.eip \in 2004 .. 2008 /\ Trapped.cpu.eip = 2008
           => Page(Trapped.cpu.esp - 1) \notin missing'
  PROVE  UpInv'
<1>1. UpTyped'
  BY DEF UpInv, UpTyped
<1>2. Levels'
  BY LevelsStay DEF UpInv
<1>3. Trapped' = Trapped /\ traps' # <<>>
  BY DEF Trapped
<1>4. Running'
  BY <1>3 DEF UpInv, Running
<1> QED
  BY <1>1, <1>2, <1>4 DEF UpInv

LEMMA HandlingFacts ==
  ASSUME UpInv, up = "run", cpu.eip # Program
  PROVE  /\ traps # <<>>
         /\ \A i \in 0 .. 12 : Base(Trapped.cpu.esp) + i \in StackWords
                               /\ stacks[Base(Trapped.cpu.esp) + i] \in Int
                               /\ Fresh(Base(Trapped.cpu.esp) + i)
<1>1. traps # <<>>
  BY DEF UpInv, Running
<1>2. PICK b \in Int : b = Base(Trapped.cpu.esp) /\ UXBASE <= b /\ b + 13 <= UXSTACKTOP
  BY <1>1, Handled
<1>3. ASSUME NEW i \in 0 .. 12
      PROVE  b + i \in StackWords /\ stacks[b + i] \in Int /\ Fresh(b + i)
  <2>1. b + i \in Int /\ OnUX(b + i) /\ b + i < b + 14
    BY <1>2, Stacks DEF OnUX
  <2>2. b + i \in StackWords
    BY <2>1, Stacks
  <2> QED
    BY <1>1, <1>2, <2>1, <2>2, Handled DEF UpInv, UpTyped, Memories
<1> QED
  BY <1>1, <1>2, <1>3

Stores(w, v) == stacks' = [stacks EXCEPT ![w] = v]

LEMMA OneWord ==
  ASSUME UpTyped, NEW w \in StackWords, Fresh(w), NEW v \in Int, Stores(w, v)
  PROVE  /\ stacks' \in Memories /\ stacks'[w] = v
         /\ \A a : a # w => stacks'[a] = stacks[a]
         /\ \A a \in StackWords : ~Fresh(a) => stacks'[a] = stacks[a]
BY DEF UpTyped, Memories, Stores

\* The instructions that only change registers
LEMMA RegisterStep ==
  ASSUME UpInv, up = "run", cpu.eip # Program, UNCHANGED <<stacks, missing, insn, uses, traps, up>>,
         cpu' \in Registers, AtPlace(cpu', stacks, Trapped),
         cpu'.eip \in 2005 .. 2008 => cpu.eip \in 2004 .. 2007,
         cpu'.eip # 2004
  PROVE  UpInv'
<1>1. traps # <<>>
  BY HandlingFacts
<1>2. cpu'.eip \in 2004 .. 2008 /\ Trapped.cpu.eip = 2008 => Page(Trapped.cpu.esp - 1) \notin missing'
  BY <1>1 DEF UpInv, Running, Registers
<1>3. AtPlace(cpu', stacks', Trapped)
  OBVIOUS
<1>4. stacks' \in Memories /\ \A a \in StackWords : ~Fresh(a) => stacks'[a] = stacks[a]
  BY DEF UpInv, UpTyped
<1> QED
  BY <1>1, <1>2, <1>3, <1>4, HandlingStep

LEMMA Put ==
  \A r \in Registers, n \in Int :
    /\ [r EXCEPT !.eip = n] \in Registers /\ [r EXCEPT !.esp = n] \in Registers
    /\ [r EXCEPT !.eax = n] \in Registers /\ [r EXCEPT !.ebx = n] \in Registers
    /\ [r EXCEPT !.ecx = n] \in Registers /\ [r EXCEPT !.esi = n] \in Registers
    /\ [r EXCEPT !.eflags = n] \in Registers
BY DEF Registers

LEMMA AddTypes ==
  ASSUME NEW r \in Registers, NEW n \in Int
  PROVE  /\ Add(r, n) \in Registers /\ Add(r, n).esp = r.esp + n
         /\ \A f \in {"eip", "eax", "ebx", "ecx", "esi"} : Add(r, n)[f] = r[f]
<1>1. r.esp + n \in Int /\ -1 \in Int
  BY DEF Registers
<1>2. Add(r, n) \in Registers
  BY <1>1, Put DEF Add, Junk
<1>3. /\ Add(r, n).esp = r.esp + n /\ Add(r, n).eip = r.eip /\ Add(r, n).eax = r.eax
      /\ Add(r, n).ebx = r.ebx /\ Add(r, n).ecx = r.ecx /\ Add(r, n).esi = r.esi
  BY DEF Add, Registers
<1> QED
  BY <1>2, <1>3

LEMMA Regs1Types ==
  ASSUME UpTyped, NEW r \in Registers, Regs1(r)
  PROVE  /\ UNCHANGED <<stacks, missing, insn, uses, traps, up>>
         /\ cpu' \in Registers /\ cpu'.eip = r.eip + 1
         /\ cpu'.esp = r.esp /\ cpu'.eax = r.eax /\ cpu'.ebx = r.ebx /\ cpu'.ecx = r.ecx
         /\ cpu'.esi = r.esi /\ cpu'.eflags = r.eflags
<1>1. cpu' = [r EXCEPT !.eip = r.eip + 1] /\ r.eip + 1 \in Int
  BY DEF Regs1, Registers
<1> QED
  BY <1>1, Put DEF Regs1, Registers

LEMMA Instructions ==
  ASSUME UpInv,
         \/ PopArg \/ KeepFrame \/ LoadEip \/ LoadEsp \/ BackToFrame
         \/ SkipErr \/ Popal \/ SkipEip \/ Popfl \/ PopEsp
  PROVE  UpInv'
<1>1. up = "run" /\ cpu.eip \in 2004 .. 2015 /\ cpu.eip # Program
  BY Layout DEF PopArg, KeepFrame, LoadEip, LoadEsp, BackToFrame, SkipErr, Popal, SkipEip, Popfl, PopEsp, RunsAt
<1>2. /\ Base(Trapped.cpu.esp) \in Int /\ AtPlace(cpu, stacks, Trapped) /\ Trapped.cpu \in Registers
      /\ \A i \in 0 .. 12 : stacks[Base(Trapped.cpu.esp) + i] \in Int
  <2>1. traps # <<>> /\ \A i \in 0 .. 12 : stacks[Base(Trapped.cpu.esp) + i] \in Int
    BY <1>1, HandlingFacts
  <2> QED
    BY <2>1, Handled
<1>3. PICK t, b : /\ t = Trapped /\ b = Base(t.cpu.esp) /\ b \in Int /\ AtPlace(cpu, stacks, t)
                  /\ t.cpu \in Registers /\ \A i \in 0 .. 12 : stacks[b + i] \in Int
  BY <1>2
<1>4. /\ stacks[b + 3] \in Int /\ stacks[b + 6] \in Int /\ stacks[b + 8] \in Int /\ stacks[b + 9] \in Int
      /\ stacks[b + 10] \in Int /\ stacks[b + 11] \in Int /\ stacks[b + 12] \in Int
  BY <1>3
<1>5. cpu \in Registers /\ UpTyped
  BY DEF UpInv, UpTyped
<1>6. ASSUME NEW r \in Registers, Regs1(r), AtPlace(cpu', stacks, t), r.eip = cpu.eip
      PROVE  UpInv'
  <2>1. cpu' \in Registers /\ cpu'.eip = cpu.eip + 1 /\ UNCHANGED <<stacks, missing, insn, uses, traps, up>>
    BY <1>5, <1>6, Regs1Types
  <2>2. AtPlace(cpu', stacks, Trapped)
    BY <1>3, <1>6
  <2>3. /\ cpu'.eip \in 2005 .. 2008 => cpu.eip \in 2004 .. 2007
        /\ cpu'.eip # 2004
    BY <1>1, <2>1
  <2> QED
    BY <1>1, <2>1, <2>2, <2>3, RegisterStep
<1>7. CASE PopArg
  <2>1. PICK r \in Registers : Regs1(r) /\ r.esp = cpu.esp + 1 /\ r.eip = 2004 /\ cpu.eip = 2004
    BY <1>5, <1>7, AddTypes DEF PopArg, RunsAt
  <2>2. cpu'.eip = 2005 /\ cpu'.esp = cpu.esp + 1
    BY <1>5, <2>1, Regs1Types
  <2>3. AtPlace(cpu', stacks, t)
    BY <1>3, <2>1, <2>2 DEF AtPlace
  <2> QED
    BY <1>6, <2>1, <2>3
<1>8. CASE KeepFrame
  <2>1. Regs1([cpu EXCEPT !.eax = cpu.esp]) /\ cpu.eip = 2005
    BY <1>8 DEF KeepFrame, RunsAt
  <2>2. PICK r \in Registers : Regs1(r) /\ r.eip = 2005 /\ r.esp = cpu.esp /\ r.eax = cpu.esp
    BY <1>5, <2>1 DEF Registers
  <2>3. cpu'.eip = 2006 /\ cpu'.esp = cpu.esp /\ cpu'.eax = cpu.esp
    BY <1>5, <2>2, Regs1Types
  <2>4. AtPlace(cpu', stacks, t)
    BY <1>3, <2>1, <2>3 DEF AtPlace
  <2> QED
    BY <1>6, <2>1, <2>2, <2>4
<1>9. CASE LoadEip
  <2>1. Regs1([cpu EXCEPT !.ebx = stacks[cpu.esp + 10]]) /\ cpu.eip = 2006
    BY <1>9, Layout DEF LoadEip, RunsAt
  <2>2. cpu.esp = b /\ cpu.eax = b /\ stacks[b + 10] = t.cpu.eip
    BY <1>3, <2>1, Layout DEF AtPlace, Whole
  <2>3. PICK r \in Registers :
          Regs1(r) /\ r.eip = 2006 /\ r.esp = b /\ r.eax = b /\ r.ebx = t.cpu.eip
    BY <1>4, <1>5, <2>1, <2>2 DEF Registers
  <2>4. cpu'.eip = 2007 /\ cpu'.esp = b /\ cpu'.eax = b /\ cpu'.ebx = t.cpu.eip
    BY <1>5, <2>3, Regs1Types
  <2>5. AtPlace(cpu', stacks, t)
    BY <1>3, <2>1, <2>4 DEF AtPlace
  <2> QED
    BY <1>6, <2>1, <2>3, <2>5
<1>10. CASE LoadEsp
  <2>1. Regs1([cpu EXCEPT !.esp = stacks[cpu.esp + 12]]) /\ cpu.eip = 2007
    BY <1>10, Layout DEF LoadEsp, RunsAt
  <2>2. /\ cpu.esp = b /\ stacks[b + 12] = t.cpu.esp
        /\ cpu.eax = b /\ cpu.ebx = t.cpu.eip /\ Saved(stacks, b, t.cpu)
    BY <1>3, <2>1, Layout DEF AtPlace, Whole
  <2>3. PICK r \in Registers :
          Regs1(r) /\ r.eip = 2007 /\ r.esp = t.cpu.esp /\ r.eax = b /\ r.ebx = t.cpu.eip
    BY <1>4, <1>5, <2>1, <2>2 DEF Registers
  <2>4. cpu'.eip = 2008 /\ cpu'.esp = t.cpu.esp /\ cpu'.eax = b /\ cpu'.ebx = t.cpu.eip
    BY <1>5, <2>3, Regs1Types
  <2>5. AtPlace(cpu', stacks, t)
    BY <1>3, <2>2, <2>4 DEF AtPlace
  <2> QED
    BY <1>6, <2>1, <2>3, <2>5
<1>11. CASE BackToFrame
  <2>1. Regs1([cpu EXCEPT !.esp = cpu.eax]) /\ cpu.eip = 2010
    BY <1>11 DEF BackToFrame, RunsAt
  <2>2. cpu.eax = b
    BY <1>3, <2>1 DEF AtPlace
  <2>3. PICK r \in Registers : Regs1(r) /\ r.eip = 2010 /\ r.esp = b
    BY <1>5, <2>1, <2>2 DEF Registers
  <2>4. cpu'.eip = 2011 /\ cpu'.esp = b
    BY <1>5, <2>3, Regs1Types
  <2>5. AtPlace(cpu', stacks, t)
    BY <1>3, <2>1, <2>4 DEF AtPlace
  <2> QED
    BY <1>6, <2>1, <2>3, <2>5
<1>12. CASE SkipErr
  <2>1. PICK r \in Registers : Regs1(r) /\ r.esp = cpu.esp + 2 /\ r.eip = 2011 /\ cpu.eip = 2011
    BY <1>5, <1>12, AddTypes DEF SkipErr, RunsAt
  <2>2. cpu'.eip = 2012 /\ cpu'.esp = cpu.esp + 2
    BY <1>5, <2>1, Regs1Types
  <2>3. AtPlace(cpu', stacks, t)
    BY <1>3, <2>1, <2>2 DEF AtPlace
  <2> QED
    BY <1>6, <2>1, <2>3
<1>13. CASE Popal
  <2>1. /\ cpu.eip = 2012
        /\ Regs1([cpu EXCEPT !.esi = stacks[cpu.esp + Esi - 2], !.ebx = stacks[cpu.esp + Ebx - 2],
                             !.ecx = stacks[cpu.esp + Ecx - 2], !.eax = stacks[cpu.esp + Eax - 2],
                             !.esp = cpu.esp + 8])
    BY <1>13 DEF Popal, RunsAt
  <2>2. /\ cpu.esp + Esi - 2 = b + 3 /\ cpu.esp + Ebx - 2 = b + 6
        /\ cpu.esp + Ecx - 2 = b + 8 /\ cpu.esp + Eax - 2 = b + 9 /\ cpu.esp + 8 = b + 10
    BY <1>3, <2>1, Layout DEF AtPlace
  <2>3. PICK si \in Int, bx \in Int, cx \in Int, ax \in Int :
          /\ stacks[cpu.esp + Esi - 2] = si /\ stacks[cpu.esp + Ebx - 2] = bx
          /\ stacks[cpu.esp + Ecx - 2] = cx /\ stacks[cpu.esp + Eax - 2] = ax
          /\ stacks[b + 3] = si /\ stacks[b + 6] = bx /\ stacks[b + 8] = cx /\ stacks[b + 9] = ax
    BY <1>4, <2>2
  <2>4. cpu.esp + 8 \in Int
    BY <1>3, <2>2
  <2>5. [cpu EXCEPT !.esi = si, !.ebx = bx, !.ecx = cx, !.eax = ax, !.esp = cpu.esp + 8] \in Registers
    BY <1>5, <2>4, Put
  <2>6. PICK q \in Registers :
          q = [cpu EXCEPT !.esi = si, !.ebx = bx, !.ecx = cx, !.eax = ax, !.esp = cpu.esp + 8]
    BY <2>5
  <2>7. q.eip = cpu.eip
    BY <1>5, <2>6 DEF Registers
  <2>8. Regs1(q)
    BY <2>1, <2>3, <2>6 DEF Regs1
  <2>9. /\ q.esp = b + 10 /\ q.esi = stacks[b + 3] /\ q.ebx = stacks[b + 6]
        /\ q.ecx = stacks[b + 8] /\ q.eax = stacks[b + 9]
    BY <1>5, <2>2, <2>3, <2>6 DEF Registers
  <2>10. /\ cpu'.eip = 2013 /\ cpu'.esp = b + 10
         /\ cpu'.esi = stacks[b + 3] /\ cpu'.ebx = stacks[b + 6] /\ cpu'.ecx = stacks[b + 8] /\ cpu'.eax = stacks[b + 9]
    BY <1>5, <2>1, <2>7, <2>8, <2>9, Regs1Types
  <2>11. AtPlace(cpu', stacks, t)
    BY <1>3, <2>1, <2>10, Layout DEF AtPlace, Saved
  <2> QED
    BY <1>6, <2>7, <2>8, <2>11
<1>14. CASE SkipEip
  <2>1. PICK r \in Registers :
          /\ Regs1(r) /\ r.esp = cpu.esp + 1 /\ r.eip = 2013 /\ cpu.eip = 2013
          /\ r.esi = cpu.esi /\ r.ebx = cpu.ebx /\ r.ecx = cpu.ecx /\ r.eax = cpu.eax
    BY <1>5, <1>14, AddTypes DEF SkipEip, RunsAt
  <2>2. /\ cpu'.eip = 2014 /\ cpu'.esp = cpu.esp + 1
        /\ cpu'.esi = cpu.esi /\ cpu'.ebx = cpu.ebx /\ cpu'.ecx = cpu.ecx /\ cpu'.eax = cpu.eax
    BY <1>5, <2>1, Regs1Types
  <2>3. AtPlace(cpu', stacks, t)
    BY <1>3, <2>1, <2>2 DEF AtPlace
  <2> QED
    BY <1>6, <2>1, <2>3
<1>15. CASE Popfl
  <2>1. Regs1([cpu EXCEPT !.eflags = stacks[cpu.esp], !.esp = cpu.esp + 1]) /\ cpu.eip = 2014
    BY <1>15 DEF Popfl, RunsAt
  <2>2. cpu.esp = b + 11 /\ cpu.esp + 1 = b + 12
    BY <1>3, <2>1 DEF AtPlace
  <2>3. PICK r \in Registers :
          /\ Regs1(r) /\ r.eip = 2014 /\ r.esp = b + 12 /\ r.eflags = stacks[b + 11]
          /\ r.esi = cpu.esi /\ r.ebx = cpu.ebx /\ r.ecx = cpu.ecx /\ r.eax = cpu.eax
    <3>1. PICK f \in Int : stacks[cpu.esp] = f /\ stacks[b + 11] = f
      BY <1>4, <2>2
    <3>2. cpu.esp + 1 \in Int
      BY <1>3, <2>2
    <3>3. [cpu EXCEPT !.eflags = f, !.esp = cpu.esp + 1] \in Registers
      BY <1>5, <3>2, Put
    <3>4. PICK q \in Registers : q = [cpu EXCEPT !.eflags = f, !.esp = cpu.esp + 1]
      BY <3>3
    <3>5. Regs1(q)
      BY <2>1, <3>1, <3>4 DEF Regs1
    <3>6. /\ q.eip = 2014 /\ q.esp = b + 12 /\ q.eflags = stacks[b + 11]
          /\ q.esi = cpu.esi /\ q.ebx = cpu.ebx /\ q.ecx = cpu.ecx /\ q.eax = cpu.eax
      BY <1>5, <2>1, <2>2, <3>1, <3>4 DEF Registers
    <3> QED
      BY <3>5, <3>6
  <2>4. /\ cpu'.eip = 2015 /\ cpu'.esp = b + 12 /\ cpu'.eflags = stacks[b + 11]
        /\ cpu'.esi = cpu.esi /\ cpu'.ebx = cpu.ebx /\ cpu'.ecx = cpu.ecx /\ cpu'.eax = cpu.eax
    BY <1>5, <2>3, Regs1Types
  <2>5. AtPlace(cpu', stacks, t)
    BY <1>3, <2>1, <2>4, Layout DEF AtPlace, Saved
  <2> QED
    BY <1>6, <2>1, <2>3, <2>5
<1>16. CASE PopEsp
  <2>1. Regs1([cpu EXCEPT !.esp = stacks[cpu.esp]]) /\ cpu.eip = 2015
    BY <1>16 DEF PopEsp, RunsAt
  <2>2. cpu.esp = b + 12 /\ stacks[b + 12] = t.cpu.esp - 1
    BY <1>3, <2>1, Layout DEF AtPlace
  <2>3. PICK r \in Registers :
          /\ Regs1(r) /\ r.eip = 2015 /\ r.esp = t.cpu.esp - 1 /\ r.eflags = cpu.eflags
          /\ r.esi = cpu.esi /\ r.ebx = cpu.ebx /\ r.ecx = cpu.ecx /\ r.eax = cpu.eax
    BY <1>4, <1>5, <2>1, <2>2 DEF Registers
  <2>4. /\ cpu'.eip = 2016 /\ cpu'.esp = t.cpu.esp - 1 /\ cpu'.eflags = cpu.eflags
        /\ cpu'.esi = cpu.esi /\ cpu'.ebx = cpu.ebx /\ cpu'.ecx = cpu.ecx /\ cpu'.eax = cpu.eax
    BY <1>5, <2>3, Regs1Types
  <2>5. AtPlace(cpu', stacks, t)
    BY <1>3, <2>1, <2>4 DEF AtPlace
  <2> QED
    BY <1>6, <2>1, <2>3, <2>5
<1> QED
  BY <1>7, <1>8, <1>9, <1>10, <1>11, <1>12, <1>13, <1>14, <1>15, <1>16

LEMMA PushTypes ==
  ASSUME UpTyped, NEW v, Push(v)
  PROVE  /\ UNCHANGED <<missing, insn, uses, traps, up>>
         /\ cpu' \in Registers /\ cpu'.eip = cpu.eip + 1 /\ cpu'.esp = cpu.esp - 1
         /\ cpu'.eax = cpu.eax /\ cpu'.ebx = cpu.ebx /\ cpu'.ecx = cpu.ecx
         /\ cpu'.esi = cpu.esi /\ cpu'.eflags = cpu.eflags
         /\ Stores(cpu.esp - 1, v)
<1>1. cpu \in Registers
  BY DEF UpTyped
<1>2. cpu.eip + 1 \in Int /\ cpu.esp - 1 \in Int
  BY <1>1 DEF Registers
<1>3. cpu' = [cpu EXCEPT !.eip = cpu.eip + 1, !.esp = cpu.esp - 1]
  BY DEF Push
<1>4. cpu' \in Registers
  BY <1>1, <1>2, <1>3, Put
<1> QED
  BY <1>1, <1>3, <1>4 DEF Push, Registers, Stores

\* An instruction of the upcall that stores a word
LEMMA WordStep ==
  ASSUME UpInv, up = "run", cpu.eip # Program, cpu.eip \notin 2003 .. 2007, cpu.eip \in Int,
         NEW w \in StackWords, Fresh(w), NEW v \in Int, Stores(w, v),
         UNCHANGED <<missing, insn, uses, traps, up>>, cpu' \in Registers, cpu'.eip = cpu.eip + 1,
         AtPlace(cpu', stacks', Trapped)
  PROVE  UpInv'
<1>1. traps # <<>>
  BY HandlingFacts
<1>2. UpTyped
  BY DEF UpInv
<1>3. stacks' \in Memories /\ \A a \in StackWords : ~Fresh(a) => stacks'[a] = stacks[a]
  BY <1>2, OneWord
<1>4. cpu'.eip \notin 2004 .. 2008
  OBVIOUS
<1> QED
  BY <1>1, <1>3, <1>4, HandlingStep

LEMMA Pushes ==
  ASSUME UpInv, up = "run",
         \/ cpu.eip = 2000 /\ cpu.esp - 1 # UXBASE - 1 /\ Push(cpu.esp)
         \/ cpu.eip = 2001 /\ cpu.esp - 1 # UXBASE - 1 /\ Push(2004)
         \/ cpu.eip = 2002 /\ cpu.esp - 1 # UXBASE - 1 /\ Push(Junk)
         \/ cpu.eip = 2008 /\ Push(cpu.ebx)
  PROVE  UpInv'
<1>1. cpu.eip # Program /\ cpu.eip \notin 2003 .. 2007 /\ cpu.eip \in Int
  BY Layout
<1>2. UpTyped /\ cpu \in Registers
  BY DEF UpInv, UpTyped
<1>3. traps # <<>>
  BY <1>1, HandlingFacts
<1>4. PICK t, b : /\ t = Trapped /\ b = Base(t.cpu.esp) /\ b \in Int /\ AtPlace(cpu, stacks, t)
                  /\ t.cpu \in Registers /\ UXBASE <= b /\ b + 13 <= UXSTACKTOP
                  /\ t.cpu.esp \in 1 .. USTACKTOP \/ OnUX(t.cpu.esp)
                  /\ \A a \in Int : OnUX(a) /\ a < b + 14 => Fresh(a)
                  /\ t.cpu.esp - 1 \in StackWords /\ Fresh(t.cpu.esp - 1)
                  /\ OnUX(t.cpu.esp) => b = t.cpu.esp - 14
  BY <1>3, Handled
<1>5. ASSUME NEW v \in Int, Push(v), NEW w \in StackWords, w = cpu.esp - 1, Fresh(w),
             AtPlace(cpu', stacks', t)
      PROVE  UpInv'
  <2>1. /\ UNCHANGED <<missing, insn, uses, traps, up>> /\ cpu' \in Registers
        /\ cpu'.eip = cpu.eip + 1 /\ Stores(w, v)
    BY <1>2, <1>5, PushTypes
  <2>2. AtPlace(cpu', stacks', Trapped)
    BY <1>4, <1>5
  <2> QED
    BY <1>1, <1>5, <2>1, <2>2, WordStep
<1>6. ASSUME NEW v \in Int, Push(v), NEW w \in StackWords, w = cpu.esp - 1, Fresh(w),
             w < b \/ w > b + 12
      PROVE  /\ stacks'[w] = v /\ \A a : a # w => stacks'[a] = stacks[a]
             /\ \A c : (Saved(stacks, b, c) <=> Saved(stacks', b, c)) /\ (Whole(stacks, b, c) <=> Whole(stacks', b, c))
             /\ cpu' \in Registers /\ cpu'.eip = cpu.eip + 1 /\ cpu'.esp = w
             /\ cpu'.eax = cpu.eax /\ cpu'.ebx = cpu.ebx
  <2>1. /\ cpu' \in Registers /\ cpu'.eip = cpu.eip + 1 /\ cpu'.esp = w
        /\ cpu'.eax = cpu.eax /\ cpu'.ebx = cpu.ebx /\ Stores(w, v)
    BY <1>2, <1>6, PushTypes
  <2>2. stacks'[w] = v /\ \A a : a # w => stacks'[a] = stacks[a]
    BY <1>2, <1>6, <2>1, OneWord
  <2>3. w \in Int
    BY <1>2, <1>6 DEF Registers
  <2>4. \A i \in 0 .. 12 : stacks'[b + i] = stacks[b + i]
    BY <1>4, <1>6, <2>2, <2>3
  <2> QED
    BY <1>4, <2>1, <2>2, <2>4, SameFrame
<1>7. CASE cpu.eip \in 2000 .. 2002
  <2>1. /\ cpu.esp = b - (cpu.eip - 2000) /\ cpu.esp >= UXBASE
        /\ cpu.eip >= 2001 => stacks[b - 1] = b
        /\ cpu.eip >= 2002 => stacks[b - 2] = 2004
        /\ Whole(stacks, b, t.cpu) /\ ~t.pushing
    BY <1>4, <1>7 DEF AtPlace
  <2>2. PICK w \in StackWords : w = cpu.esp - 1 /\ w < b /\ Fresh(w) /\ w >= UXBASE /\ w \in Int
    <3>1. cpu.esp - 1 < b /\ cpu.esp - 1 >= UXBASE /\ cpu.esp - 1 \in Int /\ OnUX(cpu.esp - 1)
      BY <1>4, <1>7, <2>1, Stacks DEF OnUX
    <3>2. cpu.esp - 1 \in StackWords
      BY <3>1, Stacks
    <3>3. Fresh(cpu.esp - 1)
      BY <1>4, <3>1
    <3> QED
      BY <3>1, <3>2, <3>3
  <2>3. PICK v \in Int : /\ Push(v)
                         /\ cpu.eip = 2000 => v = b
                         /\ cpu.eip = 2001 => v = 2004
    BY <1>4, <1>7, <2>1 DEF Junk
  <2>4. /\ stacks'[w] = v /\ \A a : a # w => stacks'[a] = stacks[a]
        /\ Whole(stacks', b, t.cpu)
        /\ cpu' \in Registers /\ cpu'.eip = cpu.eip + 1 /\ cpu'.esp = w
    BY <1>6, <2>1, <2>2, <2>3
  <2>5. /\ cpu'.eip \in 2000 .. 2003 /\ cpu'.esp = b - (cpu'.eip - 2000) /\ cpu'.esp >= UXBASE
    BY <1>4, <1>7, <2>1, <2>2, <2>4
  <2>6. cpu'.eip >= 2001 => stacks'[b - 1] = b
    BY <1>4, <1>7, <2>1, <2>2, <2>3, <2>4
  <2>7. cpu'.eip >= 2002 => stacks'[b - 2] = 2004
    BY <1>4, <1>7, <2>1, <2>2, <2>3, <2>4
  <2>8. AtPlace(cpu', stacks', t)
    BY <1>4, <2>1, <2>4, <2>5, <2>6, <2>7 DEF AtPlace
  <2> QED
    BY <1>5, <2>2, <2>3, <2>8
<1>8. CASE cpu.eip = 2008
  <2>1. /\ cpu.esp = t.cpu.esp /\ cpu.eax = b /\ cpu.ebx = t.cpu.eip
        /\ t.pushing \/ Saved(stacks, b, t.cpu)
    BY <1>4, <1>8, AtPush
  <2>2. PICK w \in StackWords : w = cpu.esp - 1 /\ Fresh(w) /\ (w < b \/ w > b + 12)
    BY <1>4, <2>1, Stacks DEF Registers
  <2>3. PICK v \in Int : Push(v) /\ v = t.cpu.eip
    BY <1>4, <1>8, <2>1 DEF Registers
  <2>4. /\ stacks'[w] = v
        /\ Saved(stacks, b, t.cpu) => Saved(stacks', b, t.cpu)
        /\ cpu'.eip = 2009 /\ cpu'.esp = w /\ cpu'.eax = b
    BY <1>6, <1>8, <2>1, <2>2, <2>3
  <2>5. AtPlace(cpu', stacks', t)
    BY <1>4, <2>1, <2>2, <2>3, <2>4 DEF AtPlace
  <2> QED
    BY <1>5, <2>2, <2>3, <2>5
<1> QED
  BY <1>7, <1>8

LEMMA StoreEspStep ==
  ASSUME UpInv, StoreEsp
  PROVE  UpInv'
<1>1. up = "run" /\ cpu.eip = 2009 /\ cpu.eip # Program
  BY Layout DEF StoreEsp, RunsAt
<1>2. UpTyped /\ cpu \in Registers
  BY DEF UpInv, UpTyped
<1>3. traps # <<>>
  BY <1>1, HandlingFacts
<1>4. PICK t, b : /\ t = Trapped /\ b = Base(t.cpu.esp) /\ b \in Int /\ AtPlace(cpu, stacks, t)
                  /\ UXBASE <= b /\ b + 13 <= UXSTACKTOP /\ t.cpu.esp \in Int
                  /\ t.cpu.esp \in 1 .. USTACKTOP \/ OnUX(t.cpu.esp)
                  /\ OnUX(t.cpu.esp) => b = t.cpu.esp - 14
                  /\ \A a \in Int : OnUX(a) /\ a < b + 14 => Fresh(a)
  BY <1>3, Handled
<1>5. /\ cpu.esp = t.cpu.esp - 1 /\ cpu.eax = b /\ stacks[t.cpu.esp - 1] = t.cpu.eip
      /\ t.pushing \/ Saved(stacks, b, t.cpu)
  BY <1>1, <1>4 DEF AtPlace
<1>6. PICK w \in StackWords : w = b + 12 /\ Fresh(w) /\ w # t.cpu.esp - 1 /\ w \in Int
  <2>1. OnUX(b + 12) /\ b + 12 \in Int /\ b + 12 # t.cpu.esp - 1
    BY <1>4, Stacks DEF OnUX
  <2> QED
    BY <1>4, <2>1, Stacks
<1>7. PICK v \in Int : v = t.cpu.esp - 1 /\ Stores(w, v)
  <2>1. cpu.eax + Esp = w /\ cpu.esp = t.cpu.esp - 1 /\ cpu.esp \in Int
    BY <1>4, <1>5, <1>6, Layout
  <2>2. Stores(cpu.eax + Esp, cpu.esp)
    BY DEF StoreEsp, Stores
  <2> QED
    BY <2>1, <2>2
<1>8. stacks'[w] = v /\ \A a : a # w => stacks'[a] = stacks[a]
  BY <1>2, <1>6, <1>7, OneWord
<1>9. Saved(stacks, b, t.cpu) => Saved(stacks', b, t.cpu)
  <2>1. /\ stacks'[b + 3] = stacks[b + 3] /\ stacks'[b + 6] = stacks[b + 6] /\ stacks'[b + 8] = stacks[b + 8]
        /\ stacks'[b + 9] = stacks[b + 9] /\ stacks'[b + 11] = stacks[b + 11]
    BY <1>4, <1>6, <1>8
  <2> QED
    BY <2>1, Layout DEF Saved
<1>10. cpu' \in Registers /\ cpu'.eip = 2010 /\ cpu'.esp = cpu.esp /\ cpu'.eax = cpu.eax
  <2>1. cpu' = [cpu EXCEPT !.eip = cpu.eip + 1] /\ cpu.eip + 1 \in Int
    BY <1>1 DEF StoreEsp
  <2> QED
    BY <1>1, <1>2, <2>1, Put DEF Registers
<1>11. AtPlace(cpu', stacks', t)
  BY <1>4, <1>5, <1>6, <1>7, <1>8, <1>9, <1>10, Layout DEF AtPlace
<1>12. UNCHANGED <<missing, insn, uses, traps, up>>
  BY DEF StoreEsp
<1> QED
  BY <1>1, <1>4, <1>6, <1>7, <1>10, <1>11, <1>12, WordStep

LEMMA ProvideStep ==
  ASSUME UpInv, Provide
  PROVE  UpInv'
<1>1. up = "run" /\ cpu.eip = 2003 /\ cpu.eip # Program
  BY Layout DEF Provide, RunsAt, Handler
<1>2. traps # <<>>
  BY <1>1, HandlingFacts
<1>3. AtPlace(cpu, stacks, Trapped)
  BY <1>2, Handled
<1>4. UNCHANGED <<cpu, stacks, insn, uses, traps, up>> /\ missing' \subseteq missing
  BY DEF Provide
<1>5. cpu \in Registers /\ stacks \in Memories
  BY DEF UpInv, UpTyped
<1> QED
  BY <1>1, <1>2, <1>3, <1>4, <1>5, HandlingStep

LEMMA HandlerReturnsStep ==
  ASSUME UpInv, HandlerReturns
  PROVE  UpInv'
<1>1. up = "run" /\ cpu.eip = 2003 /\ cpu.eip # Program
  BY Layout DEF HandlerReturns, RunsAt, Handler
<1>2. traps # <<>>
  BY <1>1, HandlingFacts
<1>3. PICK t, b : /\ t = Trapped /\ b = Base(t.cpu.esp) /\ b \in Int /\ AtPlace(cpu, stacks, t)
                  /\ t.cpu.esp \in Int
  BY <1>2, Handled
<1>4. /\ cpu.esp = b - 3 /\ cpu.esp >= UXBASE /\ stacks[b - 1] = b /\ stacks[b - 2] = 2004
      /\ Whole(stacks, b, t.cpu) /\ ~t.pushing
  BY <1>1, <1>3, InHandler
<1>5. cpu \in Registers
  BY DEF UpInv, UpTyped
<1>6. UNCHANGED <<stacks, missing, insn, uses, traps, up>>
  BY DEF HandlerReturns
<1>7. cpu' \in Registers /\ cpu'.eip = 2004 /\ cpu'.esp = b - 1
  <2>1. cpu.esp + 1 = b - 2 /\ cpu.esp + 2 = b - 1 /\ cpu.esp + 2 \in Int
    BY <1>3, <1>4
  <2>2. stacks[cpu.esp + 1] = 2004
    BY <1>4, <2>1
  <2>3. PICK j \in Int, e \in Int : j = Junk /\ e = 2004
    BY DEF Junk
  <2>4. cpu' = [cpu EXCEPT !.eip = e, !.esp = cpu.esp + 2, !.eax = j, !.ecx = j, !.eflags = j]
    BY <2>2, <2>3 DEF HandlerReturns
  <2>5. cpu' \in Registers
    BY <1>5, <2>1, <2>4, Put
  <2>6. cpu'.eip = 2004 /\ cpu'.esp = cpu.esp + 2
    BY <1>5, <2>3, <2>4 DEF Registers
  <2> QED
    BY <2>1, <2>5, <2>6
<1>8. AtPlace(cpu', stacks, t)
  BY <1>3, <1>4, <1>7, Stacks DEF AtPlace
<1>9. t.cpu.eip = 2008 => Page(t.cpu.esp - 1) \notin missing
  <2>1. cpu.esp + 2 = b - 1 /\ b + FaultVa = b
    BY <1>3, <1>4, Layout
  <2>2. stacks[stacks[cpu.esp + 2] + FaultVa] = stacks[b]
    BY <1>4, <2>1
  <2>3. t.cpu.eip = 2008 => stacks[b] = t.cpu.esp - 1
    BY <1>4, <2>1 DEF Whole
  <2>4. FaultPage \notin missing
    BY DEF HandlerReturns
  <2> QED
    BY <2>2, <2>3, <2>4 DEF FaultPage
<1>10. stacks' \in Memories /\ (\A a \in StackWords : ~Fresh(a) => stacks'[a] = stacks[a])
       /\ missing' \subseteq missing
  BY <1>6 DEF UpInv, UpTyped
<1>11. AtPlace(cpu', stacks', Trapped) /\ (Trapped.cpu.eip = 2008 => Page(Trapped.cpu.esp - 1) \notin missing')
  BY <1>3, <1>6, <1>8, <1>9
<1> QED
  BY <1>1, <1>2, <1>6, <1>7, <1>10, <1>11, HandlingStep

LEMMA InterruptedTypes ==
  ASSUME UpTyped, cpu.eip = 2008 => traps # <<>>
  PROVE  /\ Interrupted \in Seq(Traps) /\ Len(Interrupted) = Len(traps)
         /\ \A k \in 1 .. Len(traps) :
              /\ Interrupted[k].cpu = traps[k].cpu /\ Interrupted[k].stacks = traps[k].stacks
              /\ Interrupted[k].pushing <=> (traps[k].pushing \/ (k = Len(traps) /\ cpu.eip = 2008))
              /\ ~(k = Len(traps) /\ cpu.eip = 2008) => Interrupted[k] = traps[k]
<1>1. CASE cpu.eip # 2008
  <2>1. Interrupted = traps
    BY <1>1 DEF Interrupted
  <2>2. \A k \in 1 .. Len(traps) : traps[k].pushing \in BOOLEAN
    BY TrapTypes
  <2> QED
    BY <1>1, <2>1, <2>2 DEF UpTyped
<1>2. CASE cpu.eip = 2008
  <2>1. PICK n \in Nat : n = Len(traps) /\ n >= 1 /\ n \in 1 .. n
    BY <1>2, EmptySeq DEF UpTyped
  <2>2. traps[n] \in Traps /\ \A k \in 1 .. n : traps[k] \in Traps
    BY <2>1, TrapTypes
  <2>3. PICK q : q = [traps[n] EXCEPT !.pushing = TRUE]
    OBVIOUS
  <2>4. q \in Traps /\ q.cpu = traps[n].cpu /\ q.stacks = traps[n].stacks /\ q.pushing = TRUE
    BY <2>2, <2>3 DEF Traps
  <2>5. Interrupted = [traps EXCEPT ![n] = q]
    BY <1>2, <2>1, <2>3 DEF Interrupted
  <2>6. Interrupted \in Seq(Traps) /\ Len(Interrupted) = n
        /\ \A k \in 1 .. n : Interrupted[k] = IF k = n THEN q ELSE traps[k]
    BY <2>1, <2>4, <2>5, ExceptSeq DEF UpTyped
  <2>7. \A k \in 1 .. n : traps[k].pushing \in BOOLEAN
    BY <2>1, TrapTypes
  <2>8. ASSUME NEW k \in 1 .. n
        PROVE  /\ Interrupted[k].cpu = traps[k].cpu /\ Interrupted[k].stacks = traps[k].stacks
               /\ Interrupted[k].pushing <=> (traps[k].pushing \/ k = n)
               /\ k # n => Interrupted[k] = traps[k]
    <3>1. CASE k = n
      <4>1. Interrupted[k] = q
        BY <2>6, <3>1
      <4> QED
        BY <2>4, <3>1, <4>1
    <3>2. CASE k # n
      <4>1. Interrupted[k] = traps[k]
        BY <2>6, <3>2
      <4> QED
        BY <2>7, <3>2, <4>1
    <3> QED
      BY <3>1, <3>2
  <2> QED
    BY <1>2, <2>1, <2>6, <2>8
<1> QED
  BY <1>1, <1>2

\* What the kernel writes
LEMMA FrameWords ==
  ASSUME UpTyped, NEW va \in Int, page_fault_handler(va), Fits, NEW b, b = Base(cpu.esp)
  PROVE  /\ b \in Int /\ UXBASE <= b /\ b + 13 <= UXSTACKTOP
         /\ OnUX(cpu.esp) => b = cpu.esp - 14
         /\ stacks' \in Memories /\ Saved(stacks', b, cpu)
         /\ stacks'[b + Eip] = cpu.eip /\ stacks'[b + Esp] = cpu.esp /\ stacks'[b + FaultVa] = va
         /\ \A a \in StackWords : a < b \/ a > b + 12 => stacks'[a] = stacks[a]
         /\ cpu' \in Registers /\ cpu'.eip = 2000 /\ cpu'.esp = b
         /\ up' = up
         /\ traps' = Append(Interrupted, [cpu |-> cpu, stacks |-> stacks, pushing |-> FALSE])
<1>1. cpu \in Registers /\ cpu.esp \in Int /\ stacks \in Memories
  BY DEF UpTyped, Registers
<1>2. /\ b \in Int /\ b = Utf /\ UXBASE <= b /\ b + 13 <= UXSTACKTOP
      /\ OnUX(cpu.esp) => b = cpu.esp - 14
  <2>1. /\ Base(cpu.esp) \in Int /\ Utf = Base(cpu.esp) /\ UXBASE <= Base(cpu.esp)
        /\ Base(cpu.esp) + 13 <= UXSTACKTOP /\ (OnUX(cpu.esp) => Base(cpu.esp) = cpu.esp - 14)
    BY <1>1, Stacks, Layout DEF Fits, Utf, Base, OnUX
  <2> QED
    BY <2>1
<1>3. PICK f : f = Frame(va)
  OBVIOUS
<1>4. /\ f[3] = cpu.esi /\ f[6] = cpu.ebx /\ f[8] = cpu.ecx /\ f[9] = cpu.eax
      /\ f[10] = cpu.eip /\ f[11] = cpu.eflags /\ f[12] = cpu.esp /\ f[0] = va
  BY <1>3, Layout DEF Frame
<1>5. \A k \in 0 .. 12 : f[k] \in Int
  BY <1>1, <1>3, Layout DEF Frame, Registers
<1>6. stacks' = [a \in StackWords |-> IF a \in b .. b + 12 THEN f[a - b] ELSE stacks[a]]
  <2>1. UTF - 1 = 12 /\ b + UTF - 1 = b + 12
    BY <1>2, Layout
  <2> QED
    BY <1>2, <1>3, <2>1 DEF page_fault_handler
<1>7. ASSUME NEW i \in 0 .. 12
      PROVE  stacks'[b + i] = f[i]
  <2>1. OnUX(b + i) /\ b + i \in StackWords /\ b + i \in b .. b + 12 /\ (b + i) - b = i
    BY <1>2, Stacks DEF OnUX
  <2> QED
    BY <1>6, <2>1
<1>8. stacks' \in Memories
  <2>1. ASSUME NEW a \in StackWords
        PROVE  (IF a \in b .. b + 12 THEN f[a - b] ELSE stacks[a]) \in Int
    <3>1. a \in b .. b + 12 => a - b \in 0 .. 12
      BY <1>2
    <3> QED
      BY <1>1, <1>5, <3>1 DEF Memories
  <2> QED
    BY <1>6, <2>1 DEF Memories
<1>9. \A a \in StackWords : a < b \/ a > b + 12 => stacks'[a] = stacks[a]
  BY <1>2, <1>6, Stacks
<1>10. /\ stacks'[b + 3] = f[3] /\ stacks'[b + 6] = f[6] /\ stacks'[b + 8] = f[8] /\ stacks'[b + 9] = f[9]
       /\ stacks'[b + 10] = f[10] /\ stacks'[b + 11] = f[11] /\ stacks'[b + 12] = f[12] /\ stacks'[b + 0] = f[0]
  BY <1>7
<1>11. cpu' \in Registers /\ cpu'.eip = 2000 /\ cpu'.esp = b
  <2>1. PICK e \in Int : e = 2000
    OBVIOUS
  <2>2. cpu' = [cpu EXCEPT !.eip = e, !.esp = b]
    BY <1>2, <2>1 DEF page_fault_handler, _pgfault_upcall
  <2>3. b \in Int
    BY <1>2
  <2>4. cpu' \in Registers
    BY <1>1, <2>2, <2>3, Put
  <2> QED
    BY <1>1, <2>1, <2>2, <2>4 DEF Registers
<1>12. /\ Saved(stacks', b, cpu) /\ stacks'[b + Eip] = cpu.eip /\ stacks'[b + Esp] = cpu.esp
       /\ stacks'[b + FaultVa] = va
  BY <1>4, <1>10, Layout DEF Saved
<1>13. up' = up /\ traps' = Append(Interrupted, [cpu |-> cpu, stacks |-> stacks, pushing |-> FALSE])
  BY DEF page_fault_handler
<1> QED
  BY <1>2, <1>8, <1>9, <1>11, <1>12, <1>13

\* The upcall faults when it pushes the return address only when it returns to
\* the program, whose stack is another.
LEMMA PushFaults ==
  ASSUME UpInv, up = "run", cpu.eip = 2008,
         Page(cpu.esp - 1) \in missing \/ cpu.esp - 1 = UXBASE - 1
  PROVE  Len(traps) = 1 /\ Trapped = traps[1] /\ cpu.esp \in 1 .. USTACKTOP /\ ~OnUX(cpu.esp)
         /\ cpu.esp = Trapped.cpu.esp
<1>1. traps # <<>>
  BY HandlingFacts, Layout
<1>2. PICK n \in Nat : n = Len(traps) /\ n >= 1 /\ n \in 1 .. n /\ Trapped = traps[n]
  BY <1>1, Handled DEF Trapped
<1>3. PICK t : /\ t = Trapped /\ AtPlace(cpu, stacks, t) /\ t.cpu.esp \in Int /\ t.cpu.esp - 1 \in StackWords
               /\ t.cpu.esp \in 1 .. USTACKTOP \/ OnUX(t.cpu.esp)
               /\ t.cpu.eip = 2008 => Page(t.cpu.esp - 1) \notin missing
  BY <1>1, Handled DEF UpInv, Running
<1>4. cpu.esp = t.cpu.esp
  BY <1>3, AtPush
<1>5. t.cpu.esp - 1 # UXBASE - 1
  BY <1>3, Stacks DEF OnUX
<1>6. Page(t.cpu.esp - 1) \in missing /\ missing \subseteq StackPages \cup DataPages
  BY <1>4, <1>5 DEF UpInv, UpTyped
<1>7. ~OnUX(t.cpu.esp - 1)
  BY <1>3, <1>6, Stacks
<1>8. ~OnUX(t.cpu.esp)
  BY <1>3, <1>5, <1>7, Stacks DEF OnUX
<1>9. n = 1
  <2> SUFFICES ASSUME n # 1
               PROVE  FALSE
    OBVIOUS
  <2>1. PICK j \in 1 .. n - 1 : n = j + 1 /\ n \in 2 .. n
    <3>1. n - 1 \in 1 .. n - 1 /\ n = (n - 1) + 1 /\ n \in 2 .. n
      BY <1>2
    <3> QED
      BY <3>1
  <2>2. traps[n].cpu.eip # 2008
    BY <1>2, <1>3, <1>6
  <2>3. traps[j + 1].cpu.eip = 2003
    BY <1>2, <2>1, <2>2 DEF UpInv, Levels, Chain
  <2>4. UpTyped /\ Levels /\ j \in 1 .. Len(traps) - 1
    BY <1>2, <2>1 DEF UpInv
  <2>5. traps[j + 1].cpu.esp = FrameAt(j) - 3 /\ OnUX(traps[j + 1].cpu.esp)
    BY <2>3, <2>4, Nested
  <2> QED
    BY <1>2, <1>3, <1>8, <2>1, <2>5
<1> QED
  BY <1>2, <1>3, <1>4, <1>8, <1>9

\* A fault of an instruction that can have one, with room for its frame
FaultOf(va) ==
  \/ cpu.eip = Program
  \/ cpu.eip = 2003
  \/ cpu.eip = 2008 /\ va = cpu.esp - 1 /\ (Page(cpu.esp - 1) \in missing \/ cpu.esp - 1 = UXBASE - 1)

FrameFresh ==
  \A a \in StackWords : Base(cpu.esp) <= a /\ a <= Base(cpu.esp) + 12 => Fresh(a)

LEMMA FrameIsFresh ==
  ASSUME UpInv, up = "run", NEW va, FaultOf(va), UXBASE <= Base(cpu.esp)
  PROVE  /\ FrameFresh
         /\ cpu.eip = Program => traps = <<>>
         /\ cpu.eip # Program => traps # <<>>
         /\ cpu.eip = 2003 => /\ ~Trapped.pushing
                              /\ cpu.esp = Base(Trapped.cpu.esp) - 3
                              /\ Base(cpu.esp) = Base(Trapped.cpu.esp) - 17
                              /\ OnUX(cpu.esp)
<1>1. cpu \in Registers /\ cpu.esp \in Int
  BY DEF UpInv, UpTyped, Registers
<1>2. CASE cpu.eip = Program
  <2>1. traps = <<>>
    <3> SUFFICES ASSUME traps # <<>>
                 PROVE  FALSE
      OBVIOUS
    <3>1. AtPlace(cpu, stacks, Trapped)
      BY Handled
    <3> QED
      BY <1>2, <3>1, Layout DEF AtPlace
  <2>2. \A a : Fresh(a)
    BY <2>1 DEF Fresh
  <2> QED
    BY <1>2, <2>1, <2>2, Layout DEF FrameFresh
<1>3. CASE cpu.eip = 2003
  <2>1. traps # <<>>
    BY <1>3, HandlingFacts, Layout
  <2>2. PICK t, b : /\ t = Trapped /\ b = Base(t.cpu.esp) /\ b \in Int /\ AtPlace(cpu, stacks, t)
                    /\ b + 13 <= UXSTACKTOP /\ t \in Traps
                    /\ \A a \in Int : OnUX(a) /\ a < b + 14 => Fresh(a)
    BY <2>1, Handled
  <2>3. cpu.esp = b - 3 /\ cpu.esp >= UXBASE /\ ~t.pushing
    BY <1>3, <2>2, InHandler
  <2>4. OnUX(cpu.esp) /\ Base(cpu.esp) = b - 17
    BY <2>2, <2>3, Stacks, Layout DEF OnUX, Base
  <2>5. ASSUME NEW a \in StackWords, Base(cpu.esp) <= a, a <= Base(cpu.esp) + 12
        PROVE  Fresh(a)
    <3>1. a \in Int /\ a < b + 14 /\ OnUX(a)
      BY <2>2, <2>4, <2>5, Stacks DEF OnUX
    <3> QED
      BY <2>2, <3>1
  <2> QED
    BY <1>3, <2>1, <2>2, <2>3, <2>4, <2>5, Layout DEF FrameFresh
<1>4. CASE cpu.eip = 2008 /\ (Page(cpu.esp - 1) \in missing \/ cpu.esp - 1 = UXBASE - 1)
  <2>1. traps # <<>>
    BY <1>4, HandlingFacts, Layout
  <2>2. ~OnUX(cpu.esp) /\ cpu.esp = Trapped.cpu.esp
    BY <1>4, PushFaults
  <2>3. PICK b : /\ b = Base(cpu.esp) /\ b \in Int /\ b + 13 <= UXSTACKTOP
                 /\ \A a \in Int : OnUX(a) /\ a < b + 14 => Fresh(a)
    BY <2>1, <2>2, Handled
  <2>4. ASSUME NEW a \in StackWords, b <= a, a <= b + 12
        PROVE  Fresh(a)
    <3>1. a \in Int /\ a < b + 14 /\ OnUX(a)
      BY <2>3, <2>4, Stacks DEF OnUX
    <3> QED
      BY <2>3, <3>1
  <2> QED
    BY <1>4, <2>1, <2>3, <2>4, Layout DEF FrameFresh
<1>5. \/ cpu.eip = Program
      \/ cpu.eip = 2003
      \/ cpu.eip = 2008 /\ (Page(cpu.esp - 1) \in missing \/ cpu.esp - 1 = UXBASE - 1)
  BY DEF FaultOf
<1> QED
  BY <1>2, <1>3, <1>4, <1>5

LEMMA FaultStep ==
  ASSUME UpInv, up = "run", NEW va \in Int, FaultOf(va), Fits, page_fault_handler(va),
         UNCHANGED <<missing, insn, uses>>
  PROVE  UpInv'
<1>1. UpTyped /\ Levels /\ cpu \in Registers /\ stacks \in Memories /\ traps \in Seq(Traps)
      /\ cpu.esp \in Int
  BY DEF UpInv, UpTyped, Registers
<1>2. PICK b : b = Base(cpu.esp)
  OBVIOUS
<1>20. /\ b \in Int /\ UXBASE <= b /\ b + 13 <= UXSTACKTOP
       /\ OnUX(cpu.esp) => b = cpu.esp - 14
  BY <1>1, <1>2, FrameWords
<1>21. /\ stacks' \in Memories /\ Saved(stacks', b, cpu)
       /\ stacks'[b + Eip] = cpu.eip /\ stacks'[b + Esp] = cpu.esp /\ stacks'[b + FaultVa] = va
       /\ \A a \in StackWords : a < b \/ a > b + 12 => stacks'[a] = stacks[a]
  BY <1>1, <1>2, FrameWords
<1>22. /\ cpu' \in Registers /\ cpu'.eip = 2000 /\ cpu'.esp = b
       /\ up' = up
  BY <1>1, <1>2, FrameWords
<1>23. traps' = Append(Interrupted, [cpu |-> cpu, stacks |-> stacks, pushing |-> FALSE])
  BY DEF page_fault_handler
<1>3. /\ FrameFresh
      /\ cpu.eip = Program => traps = <<>>
      /\ cpu.eip # Program => traps # <<>>
      /\ cpu.eip = 2003 => /\ ~Trapped.pushing
                           /\ cpu.esp = Base(Trapped.cpu.esp) - 3
                           /\ Base(cpu.esp) = Base(Trapped.cpu.esp) - 17
                           /\ OnUX(cpu.esp)
  BY <1>2, <1>20, <1>21, <1>22, FrameIsFresh
<1>4. cpu.eip = 2008 => /\ Len(traps) = 1 /\ Trapped = traps[1] /\ cpu.esp \in 1 .. USTACKTOP
                        /\ ~OnUX(cpu.esp) /\ cpu.esp = Trapped.cpu.esp /\ va = cpu.esp - 1
  BY PushFaults, Layout DEF FaultOf
<1>5. PICK n \in Nat : n = Len(traps) /\ (n # 0 => traps # <<>>) /\ (traps # <<>> => n # 0)
  BY <1>1, EmptySeq
<1>6. PICK q \in Traps : q = [cpu |-> cpu, stacks |-> stacks, pushing |-> FALSE]
  BY <1>1 DEF Traps
<1>7. q.cpu = cpu /\ q.stacks = stacks /\ ~q.pushing
  BY <1>6
<1>8. PICK ts \in Seq(Traps) :
        /\ ts = Interrupted /\ Len(ts) = n
        /\ \A k \in 1 .. n : /\ ts[k].cpu = traps[k].cpu /\ ts[k].stacks = traps[k].stacks
                             /\ ts[k].pushing <=> (traps[k].pushing \/ (k = n /\ cpu.eip = 2008))
                             /\ ~(k = n /\ cpu.eip = 2008) => ts[k] = traps[k]
  BY <1>1, <1>3, <1>5, InterruptedTypes, Layout
<1>9. /\ traps' \in Seq(Traps) /\ traps' # <<>> /\ Len(traps') = n + 1
      /\ \A k \in 1 .. n : traps'[k] = ts[k]
      /\ traps'[n + 1] = q
  <2>1. traps' = Append(ts, q) /\ Len(ts) = n
    BY <1>6, <1>8, <1>23
  <2> QED
    BY <2>1, AppendProperties
<1>10. ASSUME NEW a \in StackWords, ~Fresh(a)
       PROVE  stacks'[a] = stacks[a]
  <2>1. ~(b <= a /\ a <= b + 12)
    BY <1>2, <1>3, <1>10 DEF FrameFresh
  <2>2. a < b \/ a > b + 12
    BY <1>20, <2>1, Stacks
  <2> QED
    BY <1>21, <2>2
<1>11. UpTyped'
  BY <1>1, <1>2, <1>20, <1>21, <1>22, <1>9 DEF UpTyped
<1>12. Trapped' = q
  BY <1>9 DEF Trapped
<1>13. AtPlace(cpu', stacks', q)
  <2>1. Whole(stacks', b, cpu)
    BY <1>2, <1>20, <1>21, <1>22, <1>4 DEF Whole
  <2>2. cpu'.esp = b - (cpu'.eip - 2000) /\ cpu'.esp >= UXBASE /\ cpu'.eip = 2000
    BY <1>2, <1>20, <1>21, <1>22, Stacks
  <2> QED
    BY <1>2, <1>20, <1>21, <1>22, <1>7, <2>1, <2>2 DEF AtPlace
<1>14. Running'
  BY <1>2, <1>20, <1>21, <1>22, <1>9, <1>12, <1>13 DEF Running
<1>15. Kept'
  <2> SUFFICES ASSUME NEW k \in 1 .. n + 1, NEW a \in StackWords,
                      a >= traps'[k].cpu.esp, SameStack(a, traps'[k].cpu.esp)
               PROVE  stacks'[a] = traps'[k].stacks[a]
    BY <1>9 DEF Kept
  <2>1. CASE k = n + 1
    <3>1. a >= cpu.esp /\ SameStack(a, cpu.esp) /\ traps'[k].stacks = stacks /\ a \in Int
      BY <1>7, <1>9, <2>1, Stacks
    <3>2. CASE OnUX(cpu.esp)
      <4>1. a > b + 12
        BY <1>1, <1>20, <3>1, <3>2
      <4> QED
        BY <1>21, <3>1, <4>1
    <3>3. CASE ~OnUX(cpu.esp)
      <4>1. ~OnUX(a)
        BY <3>1, <3>3 DEF SameStack
      <4>2. a < b
        BY <1>20, <4>1, Stacks
      <4> QED
        BY <1>21, <3>1, <4>2
    <3> QED
      BY <3>2, <3>3
  <2>2. CASE k # n + 1
    <3>1. k \in 1 .. Len(traps) /\ traps'[k].cpu = traps[k].cpu /\ traps'[k].stacks = traps[k].stacks
      BY <1>5, <1>8, <1>9, <2>2
    <3>2. traps[k].cpu.esp \in Int /\ a \in Int
      BY <1>1, <3>1, TrapTypes, Stacks
    <3>3. ~(a < traps[k].cpu.esp)
      BY <3>1, <3>2
    <3>4. stacks'[a] = stacks[a]
      BY <1>10, <3>1, <3>3 DEF Fresh
    <3>5. stacks[a] = traps[k].stacks[a]
      BY <1>1, <3>1 DEF Levels, Kept
    <3> QED
      BY <3>1, <3>4, <3>5
  <2> QED
    BY <2>1, <2>2
<1>16. WhoWaits'
  <2> SUFFICES ASSUME NEW k \in 1 .. n
               PROVE  AtPlace(traps'[k + 1].cpu, stacks', traps'[k])
    BY <1>9 DEF WhoWaits
  <2>1. CASE k # n
    <3>1. k \in 1 .. Len(traps) - 1 /\ k + 1 \in 1 .. n
      BY <1>5, <2>1
    <3>2. traps'[k + 1].cpu = traps[k + 1].cpu /\ traps'[k] = traps[k]
      BY <1>8, <1>9, <2>1, <3>1
    <3> QED
      BY <1>1, <1>10, <3>1, <3>2, WaitingStays
  <2>2. CASE k = n /\ cpu.eip = 2003
    <3>1. traps # <<>> /\ Trapped = traps[n]
      BY <1>5, <2>2 DEF Trapped
    <3>0. /\ AtPlace(cpu, stacks, traps[n]) /\ Base(traps[n].cpu.esp) \in Int
          /\ Base(traps[n].cpu.esp) + 13 <= UXSTACKTOP
      BY <3>1, Handled
    <3>10. PICK t : t = traps[n]
      OBVIOUS
    <3>2. PICK d \in Int : /\ t = traps[n] /\ d = Base(t.cpu.esp) /\ AtPlace(cpu, stacks, t)
                           /\ d + 13 <= UXSTACKTOP
      BY <3>0, <3>10
    <3>3. traps'[k + 1].cpu = cpu /\ traps'[k] = t
      BY <1>7, <1>8, <1>9, <2>2, <3>2
    <3>4. /\ cpu.esp = d - 3 /\ cpu.esp >= UXBASE /\ stacks[d - 1] = d /\ stacks[d - 2] = 2004
          /\ Whole(stacks, d, t.cpu) /\ ~t.pushing
      <4>1. cpu.eip = 2003 /\ d = Base(t.cpu.esp) /\ AtPlace(cpu, stacks, t)
        BY <2>2, <3>2
      <4> QED
        BY ONLY <4>1, InHandler
    <3>5. b = d - 17
      BY <1>2, <1>20, <1>21, <1>22, <1>3, <2>2, <3>1, <3>2
    <3>6. \A a \in d - 3 .. d + 12 : stacks'[a] = stacks[a]
      <4> SUFFICES ASSUME NEW a \in d - 3 .. d + 12
                   PROVE  stacks'[a] = stacks[a]
        OBVIOUS
      <4> DEFINE esp == cpu.esp
      <4>0. esp = d - 3 /\ esp >= UXBASE /\ d \in Int /\ d + 13 <= UXSTACKTOP
        BY <3>2, <3>4
      <4> HIDE DEF esp
      <4>1. a \in Int /\ OnUX(a) /\ a > b + 12
        BY <3>5, <4>0, Stacks DEF OnUX
      <4>2. a \in StackWords
        BY <4>1, Stacks
      <4> QED
        BY <1>2, <1>20, <1>21, <1>22, <4>1, <4>2
    <3>7. /\ stacks'[d - 1] = stacks[d - 1] /\ stacks'[d - 2] = stacks[d - 2]
          /\ \A i \in 0 .. 12 : stacks'[d + i] = stacks[d + i]
      <4>1. /\ d - 1 \in d - 3 .. d + 12 /\ d - 2 \in d - 3 .. d + 12
            /\ \A i \in 0 .. 12 : d + i \in d - 3 .. d + 12
        OBVIOUS
      <4> QED
        BY <3>6, <4>1
    <3>8. Whole(stacks, d, t.cpu) <=> Whole(stacks', d, t.cpu)
      BY <3>2, <3>7, SameFrame
    <3>9. AtPlace(cpu, stacks', t)
      BY <2>2, <3>2, <3>4, <3>7, <3>8 DEF AtPlace
    <3> QED
      BY <3>3, <3>9
  <2>3. CASE k = n /\ cpu.eip = 2008
    <3>1. traps # <<>> /\ Trapped = traps[n]
      BY <1>5, <2>3 DEF Trapped
    <3>2. PICK t : t = traps[n] /\ AtPlace(cpu, stacks, t)
      BY <3>1, Handled
    <3>3. PICK u : u = traps'[k]
      OBVIOUS
    <3>4. u.cpu = t.cpu /\ u.pushing /\ traps'[k + 1].cpu = cpu
      BY <1>7, <1>8, <1>9, <2>3, <3>2, <3>3
    <3>5. cpu.esp = t.cpu.esp /\ cpu.eax = Base(t.cpu.esp) /\ cpu.ebx = t.cpu.eip
      BY <2>3, <3>2, AtPush
    <3>6. AtPlace(cpu, stacks', u)
      BY <2>3, <3>4, <3>5, AtPush
    <3> QED
      BY <3>3, <3>4, <3>6
  <2>4. n # 0
    OBVIOUS
  <2> QED
    BY <1>3, <1>5, <2>1, <2>2, <2>3, <2>4 DEF FaultOf
<1>17. ASSUME NEW k \in 1 .. n
       PROVE  /\ k \in 1 .. Len(traps) /\ traps'[k].cpu = traps[k].cpu
              /\ FrameAt(k)' = FrameAt(k) /\ FrameAt(k) \in Int
              /\ traps'[k].pushing <=> (traps[k].pushing \/ (k = n /\ cpu.eip = 2008))
  <2>1. k \in 1 .. Len(traps) /\ traps'[k].cpu = traps[k].cpu /\ traps'[k] = ts[k]
    BY <1>5, <1>8, <1>9
  <2>2. FrameAt(k) \in Int
    BY <1>1, <2>1, TrapTypes
  <2> QED
    BY <1>8, <2>1, <2>2 DEF FrameAt
<1>18. /\ traps'[n + 1].cpu = cpu /\ FrameAt(n + 1)' = b /\ ~traps'[n + 1].pushing
  BY <1>2, <1>20, <1>21, <1>22, <1>7, <1>9 DEF FrameAt
<1>19. Chain'
  <2>1. traps'[1].cpu.eip = Program /\ traps'[1].cpu.esp \in 1 .. USTACKTOP
    <3>1. CASE n = 0
      <4>1. cpu.eip = Program
        BY <1>3, <1>5, <3>1
      <4>2. cpu.esp \in 1 .. USTACKTOP
        BY <1>5, <3>1 DEF UpInv, Running
      <4> QED
        BY <1>18, <3>1, <4>1, <4>2
    <3>2. CASE n # 0
      <4>1. 1 \in 1 .. n /\ traps # <<>>
        BY <1>5, <3>2
      <4> QED
        BY <1>1, <1>17, <4>1 DEF Levels, Chain
    <3> QED
      BY <3>1, <3>2
  <2>2. ASSUME NEW k \in 2 .. n + 1
        PROVE  \/ traps'[k].cpu.eip = 2003
               \/ k = 2 /\ traps'[k].cpu.eip = 2008 /\ traps'[1].pushing
    <3>1. CASE k = n + 1
      <4>1. 1 \in 1 .. n /\ cpu.eip # Program
        BY <1>3, <1>5, <3>1
      <4>2. cpu.eip = 2008 => n = 1 /\ traps'[1].pushing
        BY <1>4, <1>5, <1>17, <4>1
      <4> QED
        BY <1>18, <3>1, <4>1, <4>2 DEF FaultOf
    <3>2. CASE k # n + 1
      <4>1. k \in 1 .. n /\ 1 \in 1 .. n /\ k \in 2 .. Len(traps)
        BY <1>5, <3>2
      <4>2. \/ traps[k].cpu.eip = 2003
            \/ k = 2 /\ traps[k].cpu.eip = 2008 /\ traps[1].pushing
        BY <1>1, <4>1 DEF Levels, Chain
      <4> QED
        BY <1>17, <4>1, <4>2
    <3> QED
      BY <3>1, <3>2
  <2>3. ASSUME NEW k \in 1 .. n + 1
        PROVE  FrameAt(k)' >= UXBASE /\ (traps'[k].pushing => k = 1)
    <3>1. CASE k = n + 1
      BY <1>2, <1>20, <1>21, <1>22, <1>18, <3>1, Stacks
    <3>2. CASE k # n + 1
      <4>1. k \in 1 .. n
        BY <3>2
      <4>2. FrameAt(k) >= UXBASE /\ (traps[k].pushing => k = 1)
        BY <1>1, <1>17, <4>1 DEF Levels, Chain
      <4>3. k = n /\ cpu.eip = 2008 => k = 1
        BY <1>4, <1>5
      <4>4. FrameAt(k)' = FrameAt(k)
        BY <1>17, <4>1
      <4>5. traps'[k].pushing => k = 1
        BY <1>17, <4>1, <4>2, <4>3
      <4> QED
        BY <4>2, <4>4, <4>5
    <3> QED
      BY <3>1, <3>2
  <2>4. ASSUME NEW j \in 1 .. n + 1, NEW k \in 1 .. n + 1, j < k, traps'[j + 1].cpu.eip = 2003
        PROVE  FrameAt(k)' <= FrameAt(j)' - 17
    <3>1. j \in 1 .. n /\ j \in 1 .. Len(traps)
      BY <1>5, <2>4
    <3>2. CASE k # n + 1
      <4>1. k \in 1 .. n /\ j + 1 \in 1 .. n /\ k \in 1 .. Len(traps)
        BY <1>5, <2>4, <3>2
      <4>2. traps[j + 1].cpu.eip = 2003
        BY <1>17, <2>4, <4>1
      <4>3. FrameAt(k) <= FrameAt(j) - 17
        <5>1. FrameAt(k) <= FrameAt(j) - UTF - 4
          BY <1>1, <2>4, <3>1, <4>1, <4>2 DEF Levels, Chain
        <5>2. FrameAt(k) \in Int /\ FrameAt(j) \in Int
          BY <1>1, <3>1, <4>1, TrapTypes
        <5> QED
          BY <5>1, <5>2, Layout
      <4> QED
        BY <1>17, <3>1, <4>1, <4>3
    <3>3. CASE k = n + 1
      <4>1. CASE j = n
        <5>1. cpu.eip = 2003
          BY <1>18, <2>4, <4>1
        <5>2. FrameAt(n) = Base(Trapped.cpu.esp)
          BY <1>5 DEF FrameAt, Trapped
        <5> QED
          BY <1>2, <1>20, <1>21, <1>22, <1>3, <1>17, <1>18, <3>1, <3>3, <4>1, <5>1, <5>2
      <4>2. CASE j # n
        <5>1. j + 1 \in 1 .. n /\ n \in 1 .. n /\ n \in 1 .. Len(traps) /\ j < n
          BY <1>5, <3>1, <4>2
        <5>2. traps[j + 1].cpu.eip = 2003
          BY <1>17, <2>4, <5>1
        <5>3. FrameAt(n) <= FrameAt(j) - 17
          BY <1>1, <1>17, <3>1, <5>1, <5>2, Layout DEF Levels, Chain
        <5>4. cpu.eip = 2003
          BY <1>3, <1>4, <1>5, <5>1 DEF FaultOf
        <5>5. b = FrameAt(n) - 17
          BY <1>2, <1>20, <1>21, <1>22, <1>3, <1>5, <5>4 DEF FrameAt, Trapped
        <5> QED
          BY <1>17, <1>18, <3>1, <3>3, <5>1, <5>3, <5>5
      <4> QED
        BY <4>1, <4>2
    <3> QED
      BY <3>2, <3>3
  <2> QED
    <3>1. Len(traps') = n + 1 /\ traps' # <<>>
      BY <1>9
    <3>2. \A k \in 1 .. n + 1 : FrameAt(k)' \in Int
      BY <1>17, <1>18, <1>20
    <3>3. \A k \in 1 .. n + 1 : FrameAt(k)' - 17 = FrameAt(k)' - UTF - 4
      BY <3>2, Layout
    <3> QED
      BY <2>1, <2>2, <2>3, <2>4, <3>1, <3>3 DEF Chain
<1> QED
  BY <1>11, <1>14, <1>15, <1>16, <1>19 DEF UpInv, Levels

\* A fault is handled or ends the program.
LEMMA AnyFault ==
  ASSUME UpInv, up = "run", NEW va \in Int, FaultOf(va) \/ ~Fits, page_fault_handler(va),
         UNCHANGED <<missing, insn, uses>>
  PROVE  UpInv'
<1>1. CASE ~Fits
  <2>1. up' = "destroyed" /\ UNCHANGED <<cpu, stacks, traps>>
    BY <1>1 DEF page_fault_handler
  <2>2. UpTyped'
    BY <2>1 DEF UpInv, UpTyped
  <2>3. Levels'
    BY <2>1, LevelsStay DEF UpInv
  <2>4. Trapped' = Trapped
    BY <2>1 DEF Trapped
  <2>5. Running'
    BY <2>1, <2>4 DEF UpInv, Running
  <2> QED
    BY <2>2, <2>3, <2>5 DEF UpInv
<1>2. CASE Fits
  BY <1>2, FaultStep
<1> QED
  BY <1>1, <1>2

\* The upcall and the handler run out of the exception stack only where it ends.
LEMMA BelowTheStack ==
  ASSUME UpInv, up = "run", cpu.eip \in 2000 .. 2002,
         Page(cpu.esp - 1) \in missing \/ cpu.esp - 1 = UXBASE - 1
  PROVE  ~Fits
<1>1. traps # <<>>
  BY HandlingFacts, Layout
<1>2. PICK t : t = Trapped
  OBVIOUS
<1>3. PICK b \in Int : /\ b = Base(t.cpu.esp) /\ AtPlace(cpu, stacks, t)
                       /\ b + 13 <= UXSTACKTOP
  BY <1>1, <1>2, Handled
<1>4. cpu.esp = b - (cpu.eip - 2000) /\ cpu.esp >= UXBASE
  BY <1>3 DEF AtPlace
<1>5. cpu.esp \in Int /\ OnUX(cpu.esp)
  BY <1>3, <1>4, Stacks DEF OnUX
<1>6. missing \subseteq StackPages \cup DataPages
  BY DEF UpInv, UpTyped
<1>7. cpu.esp = UXBASE
  <2> SUFFICES ASSUME cpu.esp # UXBASE
               PROVE  FALSE
    OBVIOUS
  <2>1. OnUX(cpu.esp - 1) /\ cpu.esp - 1 \in Int /\ cpu.esp - 1 # UXBASE - 1
    BY <1>4, <1>5, Stacks DEF OnUX
  <2> QED
    BY <1>6, <2>1, Stacks
<1> QED
  BY <1>5, <1>7, Stacks, Layout DEF Fits, Utf

LEMMA UpcallPushes ==
  ASSUME UpInv, PushArg \/ CallHandler \/ Locals \/ PushEip
  PROVE  UpInv'
<1>1. up = "run" /\ cpu.eip \in {2000, 2001, 2002, 2008}
  BY DEF PushArg, CallHandler, Locals, PushEip, RunsAt
<1>2. cpu.esp - 1 \in Int
  BY DEF UpInv, UpTyped, Registers
<1>3. CASE Page(cpu.esp - 1) \in missing \/ cpu.esp - 1 = UXBASE - 1
  <2>1. page_fault_handler(cpu.esp - 1) /\ UNCHANGED <<missing, insn, uses>>
    BY <1>3 DEF PushArg, CallHandler, Locals, PushEip, Access
  <2>2. CASE cpu.eip = 2008
    <3>1. FaultOf(cpu.esp - 1)
      BY <1>3, <2>2 DEF FaultOf
    <3> QED
      BY <1>1, <1>2, <2>1, <3>1, AnyFault
  <2>3. CASE cpu.eip \in 2000 .. 2002
    <3>1. ~Fits
      BY <1>1, <1>3, <2>3, BelowTheStack
    <3> QED
      BY <1>1, <1>2, <2>1, <3>1, AnyFault
  <2> QED
    BY <1>1, <2>2, <2>3
<1>4. CASE ~(Page(cpu.esp - 1) \in missing \/ cpu.esp - 1 = UXBASE - 1)
  <2>1. \/ cpu.eip = 2000 /\ Push(cpu.esp)
        \/ cpu.eip = 2001 /\ Push(2004)
        \/ cpu.eip = 2002 /\ Push(Junk)
        \/ cpu.eip = 2008 /\ Push(cpu.ebx)
    BY <1>4 DEF PushArg, CallHandler, Locals, PushEip, Access, RunsAt
  <2> QED
    BY <1>1, <1>4, <2>1, Pushes
<1> QED
  BY <1>3, <1>4

LEMMA TouchStep ==
  ASSUME UpInv, NEW page \in DataPages, Touch(page)
  PROVE  UpInv'
<1>1. up = "run" /\ FaultOf(page) /\ page_fault_handler(page) /\ UNCHANGED <<missing, insn, uses>>
  BY DEF Touch, RunsAt, FaultOf, Handler
<1>2. page \in Int
  BY StacksAssumption
<1> QED
  BY <1>1, <1>2, AnyFault

LEMMA ExecuteStep ==
  ASSUME UpInv, Execute
  PROVE  UpInv'
<1>1. up = "run" /\ cpu.eip = Program
  BY DEF Execute, RunsAt
<1>2. cpu \in Registers /\ cpu.esp - 1 \in Int /\ stacks \in Memories /\ UpTyped
      /\ insn \in DataPages \cup {0}
  BY DEF UpInv, UpTyped, Registers
<1>3. PICK a \in Int : a = IF insn = 0 THEN cpu.esp - 1 ELSE insn
  <2>1. (IF insn = 0 THEN cpu.esp - 1 ELSE insn) \in Int
    BY <1>2, StacksAssumption
  <2> QED
    BY <2>1
<1>4. CASE Page(a) \in missing \/ a = UXBASE - 1
  <2>1. page_fault_handler(a) /\ UNCHANGED <<missing, insn, uses>>
    BY <1>3, <1>4 DEF Execute, Access
  <2>2. FaultOf(a)
    BY <1>1 DEF FaultOf
  <2> QED
    BY <1>1, <2>1, <2>2, AnyFault
<1>5. CASE ~(Page(a) \in missing \/ a = UXBASE - 1)
  <2>1. /\ up' = "done" /\ UNCHANGED <<missing, insn, uses, traps>>
        /\ \/ stacks' = [stacks EXCEPT ![cpu.esp - 1] = Junk] /\ cpu' = [cpu EXCEPT !.esp = cpu.esp - 1]
           \/ UNCHANGED <<cpu, stacks>>
    BY <1>3, <1>5 DEF Execute, Access
  <2>2. traps = <<>>
    <3> SUFFICES ASSUME traps # <<>>
                 PROVE  FALSE
      OBVIOUS
    <3>1. AtPlace(cpu, stacks, Trapped)
      BY Handled
    <3> QED
      BY <1>1, <3>1, Layout DEF AtPlace
  <2>3. cpu.esp \in 1 .. USTACKTOP
    BY <1>1, <2>2 DEF UpInv, Running
  <2>4. \A w \in StackWords : Fresh(w)
    BY <2>2 DEF Fresh
  <2>5. /\ cpu' \in Registers /\ stacks' \in Memories
        /\ cpu'.eip = Program /\ cpu'.esp \in 0 .. USTACKTOP
    <3>1. CASE UNCHANGED <<cpu, stacks>>
      BY <1>1, <1>2, <2>3, <3>1, Stacks
    <3>2. CASE stacks' = [stacks EXCEPT ![cpu.esp - 1] = Junk] /\ cpu' = [cpu EXCEPT !.esp = cpu.esp - 1]
      <4>1. cpu' \in Registers
        BY <1>2, <3>2, Put
      <4>2. cpu'.eip = Program /\ cpu'.esp = cpu.esp - 1
        BY <1>1, <1>2, <3>2 DEF Registers
      <4>3. stacks' \in Memories
        <5>1. PICK w \in StackWords, j \in Int : Stores(w, j) /\ Fresh(w)
          <6>1. cpu.esp - 1 \in StackWords
            BY <2>3, Stacks
          <6>2. Junk \in Int
            BY DEF Junk
          <6>3. Stores(cpu.esp - 1, Junk)
            BY <3>2 DEF Stores
          <6> QED
            BY <2>4, <6>1, <6>2, <6>3
        <5> QED
          BY <1>2, <5>1, OneWord
      <4> QED
        BY <2>3, <4>1, <4>2, <4>3, Stacks
    <3> QED
      BY <2>1, <3>1, <3>2
  <2>6. UpTyped'
    BY <1>2, <2>1, <2>5 DEF UpTyped
  <2>7. Levels'
    BY <1>2, <2>1, <2>4, LevelsStay DEF UpInv
  <2>8. Running'
    BY <2>1, <2>2, <2>5 DEF Running
  <2> QED
    BY <2>6, <2>7, <2>8 DEF UpInv
<1> QED
  BY <1>4, <1>5

\* The return goes to where the fault was, with the registers it had there.
LEMMA Returns ==
  ASSUME UpInv, Ret
  PROVE  /\ traps # <<>> /\ cpu' \in Registers
         /\ cpu'.eip = Trapped.cpu.eip /\ cpu'.esp = Trapped.cpu.esp
         /\ ~Trapped.pushing => cpu' = Trapped.cpu
<1>1. up = "run" /\ cpu.eip = 2016
  BY DEF Ret, Returning, RunsAt
<1>2. traps # <<>>
  BY <1>1, HandlingFacts, Layout
<1>3. PICK t : t = Trapped
  OBVIOUS
<1>4. t.cpu \in Registers /\ t.cpu.esp \in Int /\ AtPlace(cpu, stacks, t)
  BY <1>2, <1>3, Handled
<1>5. /\ cpu.esp = t.cpu.esp - 1 /\ stacks[t.cpu.esp - 1] = t.cpu.eip
      /\ \/ t.pushing
         \/ /\ cpu.esi = t.cpu.esi /\ cpu.ebx = t.cpu.ebx /\ cpu.ecx = t.cpu.ecx
            /\ cpu.eax = t.cpu.eax /\ cpu.eflags = t.cpu.eflags
  BY <1>1, <1>4 DEF AtPlace
<1>6. PICK c \in Registers : c = t.cpu
  BY <1>4
<1>7. stacks[cpu.esp] = c.eip /\ cpu.esp + 1 = c.esp
  BY <1>4, <1>5, <1>6
<1>8. cpu' = [cpu EXCEPT !.eip = stacks[cpu.esp], !.esp = cpu.esp + 1]
  BY DEF Ret
<1>9. cpu' = [cpu EXCEPT !.eip = c.eip, !.esp = c.esp]
  BY <1>7, <1>8
<1>10. cpu \in Registers /\ c.eip \in Int /\ c.esp \in Int
  BY <1>6 DEF UpInv, UpTyped, Registers
<1>11. cpu' \in Registers
  BY <1>9, <1>10, Put
<1>12. cpu'.eip = c.eip /\ cpu'.esp = c.esp
  BY <1>9, <1>10 DEF Registers
<1>13. ~t.pushing => cpu' = c
  BY <1>5, <1>6, <1>9, <1>10 DEF Registers
<1> QED
  BY <1>2, <1>3, <1>6, <1>11, <1>12, <1>13

LEMMA RetStep ==
  ASSUME UpInv, Ret
  PROVE  UpInv'
<1>1. up = "run" /\ cpu.eip = 2016 /\ UNCHANGED <<stacks, missing, insn, uses, up>>
  BY DEF Ret, Returning, RunsAt
<1>2. /\ traps # <<>> /\ cpu' \in Registers
      /\ cpu'.eip = Trapped.cpu.eip /\ cpu'.esp = Trapped.cpu.esp
      /\ ~Trapped.pushing => cpu' = Trapped.cpu
  BY Returns
<1>3. UpTyped /\ Levels /\ traps \in Seq(Traps)
  BY DEF UpInv, UpTyped
<1>4. PICK n \in Nat : n = Len(traps) /\ n >= 1 /\ Trapped = traps[n] /\ n \in 1 .. Len(traps)
  BY <1>2, <1>3, EmptySeq DEF Trapped
<1>5. /\ traps' \in Seq(Traps) /\ Len(traps') = n - 1
      /\ \A k \in 1 .. n - 1 : traps'[k] = traps[k]
  <2>1. traps' = SubSeq(traps, 1, n - 1)
    BY <1>4 DEF Ret
  <2>2. \A k \in 1 .. n - 1 : traps[k] \in Traps
    BY <1>3, <1>4, TrapTypes
  <2>3. /\ SubSeq(traps, 1, n - 1) \in Seq(Traps)
        /\ Len(SubSeq(traps, 1, n - 1)) = IF 1 <= n - 1 THEN (n - 1) - 1 + 1 ELSE 0
        /\ \A k \in 1 .. (n - 1) - 1 + 1 : SubSeq(traps, 1, n - 1)[k] = traps[1 + k - 1]
    BY <2>2, SubSeqProperties
  <2> QED
    BY <1>4, <2>1, <2>3
<1>6. UpTyped'
  BY <1>1, <1>2, <1>3, <1>5 DEF UpTyped
<1>7. /\ traps' = <<>> => n = 1
      /\ traps' # <<>> => n - 1 >= 1 /\ n - 1 \in 1 .. n - 1
  BY <1>4, <1>5, EmptySeq
<1>8. Levels'
  <2>1. \A k \in 1 .. n - 1 : k \in 1 .. Len(traps) /\ FrameAt(k)' = FrameAt(k)
    BY <1>4, <1>5 DEF FrameAt
  <2>2. Chain'
    <3>1. traps' # <<>> => traps'[1].cpu.eip = Program /\ traps'[1].cpu.esp \in 1 .. USTACKTOP
      BY <1>2, <1>3, <1>5, <1>7 DEF Levels, Chain
    <3>2. ASSUME NEW k \in 2 .. n - 1
          PROVE  \/ traps'[k].cpu.eip = 2003
                 \/ k = 2 /\ traps'[k].cpu.eip = 2008 /\ traps'[1].pushing
      <4>1. k \in 2 .. Len(traps) /\ k \in 1 .. n - 1 /\ 1 \in 1 .. n - 1
        BY <1>4
      <4>2. \/ traps[k].cpu.eip = 2003
            \/ k = 2 /\ traps[k].cpu.eip = 2008 /\ traps[1].pushing
        BY <1>3, <4>1 DEF Levels, Chain
      <4> QED
        BY <1>5, <4>1, <4>2
    <3>3. ASSUME NEW k \in 1 .. n - 1
          PROVE  FrameAt(k)' >= UXBASE /\ (traps'[k].pushing => k = 1)
      BY <1>3, <1>5, <2>1 DEF Levels, Chain
    <3>4. ASSUME NEW j \in 1 .. n - 1, NEW k \in 1 .. n - 1, j < k, traps'[j + 1].cpu.eip = 2003
          PROVE  FrameAt(k)' <= FrameAt(j)' - UTF - 4
      <4>1. j + 1 \in 1 .. n - 1
        BY <3>4
      <4>2. traps[j + 1].cpu.eip = 2003
        BY <1>5, <3>4, <4>1
      <4> QED
        BY <1>3, <2>1, <3>4, <4>2 DEF Levels, Chain
    <3> QED
      BY <1>5, <3>1, <3>2, <3>3, <3>4 DEF Chain
  <2>3. Kept'
    BY <1>1, <1>3, <1>5, <2>1 DEF Levels, Kept
  <2>4. WhoWaits'
    <3> SUFFICES ASSUME NEW k \in 1 .. (n - 1) - 1
                 PROVE  AtPlace(traps'[k + 1].cpu, stacks', traps'[k])
      BY <1>5 DEF WhoWaits
    <3>1. k \in 1 .. n - 1 /\ k + 1 \in 1 .. n - 1 /\ k \in 1 .. Len(traps) - 1
      BY <1>4
    <3>2. AtPlace(traps[k + 1].cpu, stacks, traps[k])
      BY <1>3, <3>1 DEF Levels, WhoWaits
    <3> QED
      BY <1>1, <1>5, <3>1, <3>2
  <2> QED
    BY <2>2, <2>3, <2>4 DEF Levels
<1>9. Running'
  <2>1. CASE traps' = <<>>
    <3>1. n = 1
      BY <1>7, <2>1
    <3>2. cpu'.eip = Program /\ cpu'.esp \in 1 .. USTACKTOP
      BY <1>2, <1>3, <1>4, <3>1 DEF Levels, Chain
    <3>3. cpu'.esp \in 0 .. USTACKTOP
      BY <3>2, Stacks
    <3> QED
      BY <1>1, <2>1, <3>2, <3>3 DEF Running
  <2>2. CASE traps' # <<>>
    <3>1. PICK m \in 1 .. n - 1 : n = m + 1 /\ m \in 1 .. Len(traps) - 1 /\ n \in 2 .. Len(traps)
      <4>1. n - 1 \in 1 .. n - 1 /\ n = (n - 1) + 1 /\ n - 1 \in 1 .. Len(traps) - 1
            /\ n \in 2 .. Len(traps)
        BY <1>4, <1>7, <2>2
      <4> QED
        BY <4>1
    <3>2. Trapped' = traps[m]
      BY <1>5, <3>1 DEF Trapped
    <3>3. ~traps[n].pushing
      BY <1>3, <1>4, <3>1 DEF Levels, Chain
    <3>4. cpu' = traps[m + 1].cpu
      BY <1>2, <1>4, <3>1, <3>3
    <3>5. AtPlace(cpu', stacks', Trapped')
      BY <1>1, <1>3, <3>1, <3>2, <3>4 DEF Levels, WhoWaits
    <3>6. \/ cpu'.eip = 2003
          \/ n = 2 /\ m = 1 /\ traps[m].cpu.eip = Program
      BY <1>2, <1>3, <1>4, <3>1, <3>4 DEF Levels, Chain
    <3>7. ~(cpu'.eip \in 2004 .. 2008 /\ Trapped'.cpu.eip = 2008)
      BY <3>2, <3>6, Layout
    <3> QED
      BY <1>1, <2>2, <3>5, <3>7 DEF Running
  <2> QED
    BY <2>1, <2>2
<1> QED
  BY <1>6, <1>8, <1>9 DEF UpInv

LEMMA EntryTypes ==
  ASSUME NEW esp \in Int
  PROVE  Regs(Program, esp) \in Registers /\ Regs(Program, esp).eip = Program /\ Regs(Program, esp).esp = esp
BY Layout DEF Regs, Registers

LEMMA EnterStep ==
  ASSUME UpInv, NEW esp \in 1 .. USTACKTOP, NEW lost \in SUBSET (StackPages \cup DataPages),
         NEW touched, touched \subseteq DataPages, NEW access \in DataPages \cup {0},
         Enter(esp, lost, access, touched)
  PROVE  UpInv'
<1>1. /\ up = "off" /\ up' = "run" /\ cpu' = Regs(Program, esp) /\ missing' = lost
      /\ insn' = access /\ uses' = touched /\ UNCHANGED <<stacks, traps>>
  BY DEF Enter
<1>2. traps = <<>>
  BY <1>1 DEF UpInv, Running
<1>3. cpu' \in Registers /\ cpu'.eip = Program /\ cpu'.esp = esp
  BY <1>1, EntryTypes
<1>4. UpTyped'
  BY <1>1, <1>3 DEF UpInv, UpTyped
<1>5. Levels'
  BY <1>1, LevelsStay DEF UpInv
<1>6. Running'
  BY <1>1, <1>2, <1>3, Stacks DEF Running
<1> QED
  BY <1>4, <1>5, <1>6 DEF UpInv

LEMMA UpInit ==
  ASSUME UpcallInit
  PROVE  UpInv
<1>1. cpu \in Registers /\ cpu.eip = Program /\ cpu.esp = USTACKTOP
  BY EntryTypes, Stacks DEF UpcallInit
<1>2. stacks \in Memories
  BY Stacks DEF UpcallInit, Memories
<1>3. traps = <<>> /\ Len(traps) = 0 /\ traps \in Seq(Traps) /\ up = "off"
  BY EmptySeq DEF UpcallInit
<1>4. UpTyped
  BY <1>1, <1>2, <1>3 DEF UpcallInit, UpTyped
<1>5. Levels
  BY <1>3 DEF Levels, Chain, Kept, WhoWaits
<1>6. Running
  BY <1>1, <1>3, Stacks DEF Running
<1> QED
  BY <1>4, <1>5, <1>6 DEF UpInv

LEMMA UpStep ==
  ASSUME UpInv, [UpcallNext]_upVars
  PROVE  UpInv'
<1>1. CASE UNCHANGED upVars
  <2>1. UpTyped'
    BY <1>1 DEF UpInv, UpTyped, upVars
  <2>2. Levels'
    BY <1>1, LevelsStay DEF UpInv, upVars
  <2>3. Running'
    BY <1>1 DEF UpInv, Running, Trapped, upVars
  <2> QED
    BY <2>1, <2>2, <2>3 DEF UpInv
<1>2. CASE UpcallStep
  <2>1. CASE \/ PopArg \/ KeepFrame \/ LoadEip \/ LoadEsp \/ BackToFrame
             \/ SkipErr \/ Popal \/ SkipEip \/ Popfl \/ PopEsp
    BY <2>1, Instructions
  <2>2. CASE PushArg \/ CallHandler \/ Locals \/ PushEip
    BY <2>2, UpcallPushes
  <2>3. CASE \E page \in DataPages : Touch(page)
    BY <2>3, TouchStep
  <2> QED
    BY <1>2, <2>1, <2>2, <2>3, ExecuteStep, ProvideStep, HandlerReturnsStep, StoreEspStep, RetStep
       DEF UpcallStep
<1>3. CASE \E esp \in 1 .. USTACKTOP, lost, touched \in SUBSET (StackPages \cup DataPages),
              access \in DataPages \cup {0} :
             touched \subseteq DataPages /\ Enter(esp, lost, access, touched)
  BY <1>3, EnterStep
<1> QED
  BY <1>1, <1>2, <1>3 DEF UpcallNext

LEMMA UpInvTypeOK ==
  ASSUME UpInv
  PROVE  UpcallTypeOK
<1>1. missing \subseteq StackPages \cup DataPages /\ up \in {"off", "run", "done", "destroyed"}
  BY DEF UpInv, UpTyped
<1>2. CASE traps = <<>>
  <2>1. cpu.eip = Program /\ cpu.esp \in 0 .. USTACKTOP
    BY <1>2 DEF UpInv, Running
  <2> QED
    BY <1>1, <2>1, Stacks DEF UpcallTypeOK
<1>3. CASE traps # <<>>
  <2>1. PICK t, b : /\ b \in Int /\ b = Base(t.cpu.esp) /\ AtPlace(cpu, stacks, t)
                    /\ UXBASE <= b /\ b + 13 <= UXSTACKTOP
                    /\ t.cpu.esp \in 1 .. USTACKTOP \/ OnUX(t.cpu.esp)
                    /\ t.cpu.esp \in Int /\ t.cpu.esp - 1 \in StackWords
    BY <1>3, Handled
  <2>2. cpu.eip \in 2000 .. 2016
    BY <2>1 DEF AtPlace
  <2>3. \/ cpu.esp = t.cpu.esp \/ cpu.esp = t.cpu.esp - 1
        \/ cpu.esp \in b .. b + 12
        \/ cpu.esp \in b - 3 .. b /\ cpu.esp >= UXBASE
    BY <2>1 DEF AtPlace
  <2>4. cpu.esp \in StackWords \cup {USTACKTOP, UXSTACKTOP}
    <3>1. CASE cpu.esp = t.cpu.esp
      BY <2>1, <3>1, Stacks
    <3>2. CASE cpu.esp = t.cpu.esp - 1
      BY <2>1, <3>2
    <3>3. CASE cpu.esp \in b .. b + 12
      <4>1. OnUX(cpu.esp) /\ cpu.esp \in Int
        BY <2>1, <3>3, Stacks DEF OnUX
      <4> QED
        BY <4>1, Stacks
    <3>4. CASE cpu.esp \in b - 3 .. b /\ cpu.esp >= UXBASE
      <4>1. OnUX(cpu.esp) /\ cpu.esp \in Int
        BY <2>1, <3>4, Stacks DEF OnUX
      <4> QED
        BY <4>1, Stacks
    <3> QED
      BY <2>3, <3>1, <3>2, <3>3, <3>4
  <2> QED
    BY <1>1, <2>2, <2>4 DEF UpcallTypeOK
<1> QED
  BY <1>2, <1>3

\* At the return nothing else can happen.
LEMMA OnlyTheReturn ==
  ASSUME Returning, [UpcallNext]_upVars
  PROVE  Ret \/ UNCHANGED upVars
<1>1. up = "run" /\ cpu.eip = 2016
  BY DEF Returning, RunsAt
<1>2. \A esp, lost, access, touched : ~Enter(esp, lost, access, touched)
  BY <1>1 DEF Enter
<1>3. ~Execute
  BY <1>1, Layout DEF Execute, RunsAt
<1>4. ~PushArg /\ ~CallHandler /\ ~Locals /\ ~Provide /\ ~HandlerReturns
      /\ \A page : ~Touch(page)
  BY <1>1 DEF PushArg, CallHandler, Locals, Provide, HandlerReturns, Touch, RunsAt, Handler
<1>5. ~PopArg /\ ~KeepFrame /\ ~LoadEip /\ ~LoadEsp /\ ~PushEip /\ ~StoreEsp /\ ~BackToFrame
  BY <1>1 DEF PopArg, KeepFrame, LoadEip, LoadEsp, PushEip, StoreEsp, BackToFrame, RunsAt
<1>6. ~SkipErr /\ ~Popal /\ ~SkipEip /\ ~Popfl /\ ~PopEsp
  BY <1>1 DEF SkipErr, Popal, SkipEip, Popfl, PopEsp, RunsAt
<1> QED
  BY <1>2, <1>3, <1>4, <1>5, <1>6 DEF UpcallNext, UpcallStep

LEMMA ReturnGood ==
  ASSUME UpInv, [UpcallNext]_upVars, Returning, ~UNCHANGED upVars
  PROVE  /\ cpu'.eip = Trapped.cpu.eip /\ cpu'.esp = Trapped.cpu.esp
         /\ \A a \in StackWords : a >= cpu'.esp /\ SameStack(a, cpu'.esp) => stacks[a] = Trapped.stacks[a]
         /\ ~Trapped.pushing => cpu' = Trapped.cpu
<1>1. Ret
  BY OnlyTheReturn
<1>2. /\ traps # <<>> /\ cpu'.eip = Trapped.cpu.eip /\ cpu'.esp = Trapped.cpu.esp
      /\ ~Trapped.pushing => cpu' = Trapped.cpu
  BY <1>1, Returns
<1>3. Len(traps) \in 1 .. Len(traps)
  BY <1>2, Handled
<1> QED
  BY <1>2, <1>3 DEF UpInv, Levels, Kept, Trapped

\* A page fault is invisible to the program that makes it: trap and upcall
\* (page_fault_handler, lib/pfentry.S) come back to the instruction that faulted
\* with its stack and, unless the upcall itself faulted, its registers, for every
\* size of the stacks and however deep the faults of the handler are nested.
THEOREM FaultsStayInvisible == UpcallSpec => FaultsAreInvisible
<1>1. UpcallInit => UpInv
  BY UpInit
<1>2. UpInv /\ [UpcallNext]_upVars => UpInv'
  BY UpStep
<1>3. UpInv => UpcallTypeOK
  BY UpInvTypeOK
<1>4. UpInv /\ [UpcallNext]_upVars =>
        [Returning =>
           /\ cpu'.eip = Trapped.cpu.eip /\ cpu'.esp = Trapped.cpu.esp
           /\ \A a \in StackWords : a >= cpu'.esp /\ SameStack(a, cpu'.esp) => stacks[a] = Trapped.stacks[a]]_upVars
  BY ReturnGood
<1>5. UpInv /\ [UpcallNext]_upVars => [Returning /\ ~Trapped.pushing => cpu' = Trapped.cpu]_upVars
  BY ReturnGood
<1> QED
  BY <1>1, <1>2, <1>3, <1>4, <1>5, PTL
     DEF UpcallSpec, FaultsAreInvisible, ResumesWhereItFaulted, RegistersReturn

-----------------------------------------------------------------------------
(***************************************************************************)
(* A line on the screen                                                    *)
(***************************************************************************)

Chars == STRING \cup Printable \cup {BlankCell, "BS", "NL"}
Cells == 0 .. CRT_SIZE - 1
RowEnd(a) == a + CRT_COLS - (a % CRT_COLS)
BlankFrom(screen, a) == \A k \in Cells : k >= a => screen[k] = BlankCell

\* Texts that are still to be printed begin a row after they went back in one.
NewRow(s) == \E j \in 1 .. Len(s) : s[j] = "NL"
GoesOn(s) ==
  \A i \in 1 .. Len(s) :
    s[i] # "BS" /\ (s[i] = "CR" => \E j \in i + 1 .. Len(s) : s[j] = "NL")

\* The first n characters of the line stand on the screen.
Shown(n) == \A k \in 1 .. n : crt_buf[start + k - 1] = line[k]

\* What is typed is stored first and then shown.
Editing ==
  /\ start >= 0
  /\ \/ todo = <<>> /\ crt_pos = start + Len(line) /\ Shown(Len(line))
     \/ /\ line # <<>> /\ todo = <<line[Len(line)]>>
        /\ crt_pos = start + Len(line) - 1 /\ Shown(Len(line) - 1)
     \/ todo = <<"BS">> /\ crt_pos = start + Len(line) + 1 /\ Shown(Len(line))

TermTyped ==
  /\ crt_pos \in Cells /\ crt_buf \in [Cells -> Chars]
  /\ todo \in Seq(Chars) /\ line \in Seq(Printable) /\ Len(line) < BUFLEN
  /\ reading \in BOOLEAN /\ start \in Int

TermInv ==
  /\ TermTyped
  /\ BlankFrom(crt_buf, RowEnd(crt_pos))
  /\ NewRow(todo) \/ BlankFrom(crt_buf, crt_pos)
  /\ IF reading THEN Editing ELSE GoesOn(todo)

\* The end of a row: where it lies, that it does not fall back, and that it is
\* the same for the row's beginning.
LEMMA Multiples ==
  ASSUME NEW c \in Nat \ {0}, NEW q \in Int, NEW r \in Int
  PROVE  /\ q < r => c * q + c <= c * r
         /\ q <= r => c * q <= c * r
         /\ q >= 0 => c * q >= 0
<1>1. ASSUME NEW d \in Nat PROVE c * d >= 0 /\ c * (d + 1) = c * d + c
  BY <1>1, SMT
<1>2. ASSUME q < r PROVE c * q + c <= c * r
  <2>1. r - q - 1 \in Nat BY <1>2
  <2>2. c * (r - q - 1) >= 0 BY <1>1, <2>1
  <2>3. c * (r - q - 1) = c * r - c * q - c BY SMT
  <2> QED BY <2>2, <2>3
<1>3. ASSUME q <= r PROVE c * q <= c * r
  <2>1. r - q \in Nat BY <1>3
  <2>2. c * (r - q) >= 0 BY <1>1, <2>1
  <2>3. c * (r - q) = c * r - c * q BY SMT
  <2> QED BY <2>2, <2>3
<1>4. ASSUME q >= 0 PROVE c * q >= 0
  BY <1>1, <1>4
<1> QED BY <1>2, <1>3, <1>4

LEMMA Division ==
  ASSUME NEW c \in Nat \ {0}, NEW a \in Nat
  PROVE  \E q \in Nat, r \in 0 .. c - 1 : a = c * q + r /\ a % c = r
<1>1. a \div c \in Nat /\ a % c \in 0 .. c - 1 /\ a = c * (a \div c) + (a % c)
  BY SMT
<1> QED BY <1>1

LEMMA RowEnds ==
  ASSUME NEW a \in Cells
  PROVE  /\ a % CRT_COLS \in 0 .. CRT_COLS - 1 /\ a - (a % CRT_COLS) \in Cells
         /\ RowEnd(a) \in Nat /\ a < RowEnd(a) /\ RowEnd(a) <= CRT_SIZE
         /\ RowEnd(a - (a % CRT_COLS)) = RowEnd(a)
         /\ a + 1 < CRT_SIZE => RowEnd(a) <= RowEnd(a + 1)
<1> USE ScreenAssumption
<1>a. a \in Nat /\ a < CRT_SIZE
  BY DEF Cells, CRT_SIZE
<1>1. PICK q \in Nat, r \in 0 .. CRT_COLS - 1 : a = CRT_COLS * q + r /\ a % CRT_COLS = r
  BY Division, <1>a
<1>2. CRT_COLS * q \in Int /\ CRT_COLS * q + CRT_COLS <= CRT_COLS * CRT_ROWS /\ CRT_COLS * q >= 0
  <2>1. ASSUME CRT_ROWS <= q PROVE FALSE
    <3>1. CRT_COLS * CRT_ROWS <= CRT_COLS * q
      BY <2>1, Multiples
    <3> QED BY <3>1, <1>1, <1>a DEF CRT_SIZE
  <2> QED BY <2>1, Multiples
<1>3. RowEnd(a) = CRT_COLS * q + CRT_COLS
  BY <1>1, <1>2 DEF RowEnd
<1>4. RowEnd(a - (a % CRT_COLS)) = RowEnd(a)
  <2>1. a - (a % CRT_COLS) = CRT_COLS * q
    BY <1>1, <1>2
  <2>2. PICK p \in Nat, t \in 0 .. CRT_COLS - 1 :
          CRT_COLS * q = CRT_COLS * p + t /\ (CRT_COLS * q) % CRT_COLS = t
    BY Division, <1>2
  <2>3. t = 0
    <3>1. ~(p < q) \/ CRT_COLS * p + CRT_COLS <= CRT_COLS * q BY Multiples
    <3>2. ~(q < p) \/ CRT_COLS * q + CRT_COLS <= CRT_COLS * p BY Multiples
    <3>3. CRT_COLS * p \in Int OBVIOUS
    <3> QED BY <2>2, <3>1, <3>2, <3>3, <1>2
  <2> QED BY <2>1, <2>2, <2>3, <1>2, <1>3 DEF RowEnd
<1>5. ASSUME a + 1 < CRT_SIZE PROVE RowEnd(a) <= RowEnd(a + 1)
  <2>1. PICK p \in Nat, t \in 0 .. CRT_COLS - 1 :
          a + 1 = CRT_COLS * p + t /\ (a + 1) % CRT_COLS = t
    <3>1. a + 1 \in Nat BY <1>a
    <3> QED BY Division, <3>1
  <2>2. p < q => CRT_COLS * p + CRT_COLS <= CRT_COLS * q
    BY Multiples
  <2>3. q <= p => CRT_COLS * q <= CRT_COLS * p
    BY Multiples
  <2>4. CRT_COLS * p \in Int OBVIOUS
  <2> QED BY <2>1, <2>2, <2>3, <2>4, <1>1, <1>2, <1>3 DEF RowEnd
<1> QED BY <1>1, <1>2, <1>3, <1>4, <1>5, <1>a DEF Cells, CRT_SIZE

\* What is left to print when the first character is printed
Left(s) == (IF Head(s) = "TAB" THEN [k \in 1 .. 5 |-> BlankCell] ELSE <<>>) \o Tail(s)

LEMMA LeftToPrint ==
  ASSUME NEW s \in Seq(Chars), s # <<>>
  PROVE  /\ Head(s) \in Chars /\ Left(s) \in Seq(Chars)
         /\ GoesOn(s) => Head(s) # "BS" /\ GoesOn(Left(s))
         /\ Head(s) # "NL" /\ NewRow(s) => NewRow(Left(s))
         /\ Head(s) = "CR" /\ GoesOn(s) => NewRow(Left(s))
<1> DEFINE f == [k \in 1 .. 5 |-> BlankCell]
<1>1. PICK d \in {0, 5} :
        /\ Left(s) \in Seq(Chars) /\ Len(Left(s)) = d + Len(s) - 1
        /\ \A i \in 1 .. d : Left(s)[i] = BlankCell
        /\ \A i \in 2 .. Len(s) : Left(s)[d + i - 1] = s[i]
  <2>1. Tail(s) \in Seq(Chars) /\ Len(Tail(s)) = Len(s) - 1 /\ Len(s) \in Nat \ {0}
        /\ \A i \in 1 .. Len(s) - 1 : Tail(s)[i] = s[i + 1]
    BY EmptySeq, HeadTailProperties
  <2>2. CASE Head(s) = "TAB"
    <3>1. f \in Seq(Chars) /\ Len(f) = 5 /\ \A i \in 1 .. 5 : f[i] = BlankCell
      <4>1. f \in [1 .. 5 -> Chars] /\ DOMAIN f = 1 .. 5 BY DEF Chars
      <4>2. f \in Seq(Chars) BY <4>1, SeqDef
      <4>3. Len(f) = 5 BY <4>1, <4>2, LenProperties
      <4> QED BY <4>2, <4>3
    <3> HIDE DEF f
    <3>2. Left(s) = f \o Tail(s)
      BY <2>2 DEF Left, f
    <3>a. /\ f \o Tail(s) \in Seq(Chars)
          /\ Len(f \o Tail(s)) = Len(f) + Len(Tail(s))
          /\ \A i \in 1 .. Len(f) + Len(Tail(s)) :
               (f \o Tail(s))[i] = IF i <= Len(f) THEN f[i] ELSE Tail(s)[i - Len(f)]
      <4>1. f \in Seq(Chars) /\ Tail(s) \in Seq(Chars) BY <2>1, <3>1
      <4> QED BY ONLY <4>1, ConcatProperties, Zenon
    <3>b. Len(f) + Len(Tail(s)) = 5 + Len(s) - 1
      BY <2>1, <3>1
    <3>3. Left(s) \in Seq(Chars) /\ Len(Left(s)) = 5 + Len(s) - 1
      BY <3>2, <3>a, <3>b
    <3>4. \A i \in 1 .. 5 + Len(s) - 1 : Left(s)[i] = IF i <= 5 THEN f[i] ELSE Tail(s)[i - 5]
      BY <3>1, <3>2, <3>a, <3>b
    <3>5. ASSUME NEW i \in 2 .. Len(s) PROVE Left(s)[5 + i - 1] = s[i]
      <4>1. Left(s)[5 + i - 1] = Tail(s)[i - 1]
        <5>1. 5 + i - 1 \in 1 .. 5 + Len(s) - 1 /\ ~(5 + i - 1 <= 5) /\ 5 + i - 1 - 5 = i - 1
          BY <2>1
        <5> QED BY <3>4, <5>1
      <4>2. i - 1 \in 1 .. Len(s) - 1 /\ (i - 1) + 1 = i BY <2>1
      <4> QED BY <2>1, <4>1, <4>2
    <3>6. ASSUME NEW i \in 1 .. 5 PROVE Left(s)[i] = BlankCell
      BY <2>1, <3>1, <3>4
    <3> QED BY <3>3, <3>5, <3>6
  <2>3. CASE Head(s) # "TAB"
    <3>1. Left(s) = Tail(s)
      BY <2>1, <2>3 DEF Left
    <3>2. Left(s) \in Seq(Chars) /\ Len(Left(s)) = 0 + Len(s) - 1
      BY <2>1, <3>1
    <3>3. ASSUME NEW i \in 2 .. Len(s) PROVE Left(s)[0 + i - 1] = s[i]
      <4>1. i - 1 \in 1 .. Len(s) - 1 /\ (i - 1) + 1 = i /\ 0 + i - 1 = i - 1 BY <2>1
      <4> QED BY <2>1, <3>1, <4>1
    <3> QED BY <3>2, <3>3
  <2> QED BY <2>2, <2>3
<1>2. Len(s) \in Nat \ {0} /\ Head(s) = s[1] /\ Head(s) \in Chars
  BY EmptySeq
<1>3. ASSUME GoesOn(s) PROVE Head(s) # "BS" /\ GoesOn(Left(s))
  <2>1. ASSUME NEW i \in 1 .. Len(Left(s))
        PROVE  Left(s)[i] # "BS"
               /\ (Left(s)[i] = "CR" => \E j \in i + 1 .. Len(Left(s)) : Left(s)[j] = "NL")
    <3>1. CASE i <= d
      <4>1. Left(s)[i] = BlankCell BY <1>1, <3>1
      <4> QED BY <4>1 DEF BlankCell
    <3>2. CASE i > d
      <4>1. i - d + 1 \in 2 .. Len(s) /\ Left(s)[i] = s[i - d + 1]
        BY <1>1, <1>2, <3>2
      <4>2. ASSUME Left(s)[i] = "CR" PROVE \E j \in i + 1 .. Len(Left(s)) : Left(s)[j] = "NL"
        <5>1. PICK j \in i - d + 2 .. Len(s) : s[j] = "NL"
          <6>1. i - d + 1 \in 1 .. Len(s) /\ (i - d + 1) + 1 = i - d + 2 /\ s[i - d + 1] = "CR"
            BY <1>2, <4>1, <4>2
          <6>2. \E j \in (i - d + 1) + 1 .. Len(s) : s[j] = "NL"
            BY <6>1, <1>3 DEF GoesOn
          <6> QED BY <6>1, <6>2
        <5>2. d + j - 1 \in i + 1 .. Len(Left(s)) /\ Left(s)[d + j - 1] = "NL"
          BY <1>1, <1>2, <4>1, <5>1
        <5> QED BY <5>2
      <4>3. Left(s)[i] # "BS"
        <5>1. i - d + 1 \in 1 .. Len(s) BY <1>2, <4>1
        <5> QED BY <5>1, <1>3, <4>1 DEF GoesOn
      <4> QED BY <4>2, <4>3
    <3> QED BY <3>1, <3>2, <1>1
  <2> QED BY <1>2, <1>3, <2>1 DEF GoesOn
<1>4. ASSUME NEW j \in 2 .. Len(s), s[j] = "NL" PROVE NewRow(Left(s))
  <2>1. d + j - 1 \in 1 .. Len(Left(s)) /\ Left(s)[d + j - 1] = "NL"
    BY <1>1, <1>2, <1>4
  <2> QED BY <2>1 DEF NewRow
<1>5. ASSUME Head(s) # "NL", NewRow(s) PROVE NewRow(Left(s))
  <2>1. PICK j \in 1 .. Len(s) : s[j] = "NL"
    BY <1>5 DEF NewRow
  <2> QED BY <1>2, <1>4, <1>5, <2>1
<1>6. ASSUME Head(s) = "CR", GoesOn(s) PROVE NewRow(Left(s))
  <2>1. PICK j \in 1 + 1 .. Len(s) : s[j] = "NL"
    BY <1>2, <1>6 DEF GoesOn
  <2> QED BY <1>4, <2>1
<1> QED BY <1>1, <1>2, <1>3, <1>5, <1>6

\* What a character does before scrolling
LEMMA PutAt ==
  ASSUME TermTyped, BlankFrom(crt_buf, RowEnd(crt_pos)), NEW c \in Chars,
         c = "BS" => BlankFrom(crt_buf, crt_pos),
         NEW p, p = cga_putc_At(c)
  PROVE  /\ p.pos \in 0 .. CRT_SIZE /\ p.buf \in [Cells -> Chars]
         /\ p.pos < CRT_SIZE => BlankFrom(p.buf, RowEnd(p.pos))
         /\ c = "NL" \/ (c # "CR" /\ BlankFrom(crt_buf, crt_pos)) => BlankFrom(p.buf, p.pos)
<1> USE ScreenAssumption
<1>a. CRT_SIZE \in Nat /\ crt_pos \in Nat /\ crt_pos < CRT_SIZE /\ crt_buf \in [Cells -> Chars]
  BY DEF TermTyped, Cells, CRT_SIZE
<1>b. /\ RowEnd(crt_pos) \in Nat /\ crt_pos < RowEnd(crt_pos) /\ RowEnd(crt_pos) <= CRT_SIZE
      /\ RowEnd(crt_pos - (crt_pos % CRT_COLS)) = RowEnd(crt_pos)
      /\ crt_pos - (crt_pos % CRT_COLS) \in Cells
      /\ crt_pos + 1 < CRT_SIZE => RowEnd(crt_pos) <= RowEnd(crt_pos + 1)
  BY RowEnds DEF TermTyped
<1>1. CASE c = "BS" /\ crt_pos > 0
  <2>1. p.pos = crt_pos - 1 /\ p.buf = [crt_buf EXCEPT ![crt_pos - 1] = BlankCell]
    BY <1>1 DEF cga_putc_At
  <2>2. p.buf \in [Cells -> Chars] /\ p.pos \in Cells
    <3>1. crt_pos - 1 \in Cells BY <1>a, <1>1 DEF Cells
    <3> QED BY <1>a, <2>1, <3>1 DEF Chars
  <2>3. BlankFrom(p.buf, p.pos)
    BY <1>a, <1>1, <2>1, <2>2 DEF BlankFrom, Cells
  <2>4. RowEnd(p.pos) \in Nat /\ p.pos < RowEnd(p.pos)
    BY RowEnds, <2>2
  <2>5. BlankFrom(p.buf, RowEnd(p.pos))
    BY <2>2, <2>3, <2>4 DEF BlankFrom, Cells
  <2> QED BY <1>a, <1>1, <2>2, <2>3, <2>5 DEF Cells
<1>2. CASE (c = "BS" /\ ~(crt_pos > 0)) \/ c = "TAB"
  <2>1. p.pos = crt_pos /\ p.buf = crt_buf
    BY <1>2 DEF cga_putc_At
  <2> QED BY <1>a, <1>2, <2>1
<1>3. CASE c = "NL"
  <2>1. p.pos = RowEnd(crt_pos) /\ p.buf = crt_buf
    BY <1>3 DEF cga_putc_At, RowEnd
  <2>2. p.pos < CRT_SIZE => p.pos \in Cells
    BY <1>a, <1>b, <2>1 DEF Cells
  <2>3. p.pos < CRT_SIZE => BlankFrom(p.buf, RowEnd(p.pos))
    <3> SUFFICES ASSUME p.pos < CRT_SIZE PROVE BlankFrom(p.buf, RowEnd(p.pos)) OBVIOUS
    <3>1. RowEnd(p.pos) \in Nat /\ p.pos < RowEnd(p.pos) /\ p.pos \in Nat
      BY RowEnds, <2>2, <1>b, <2>1
    <3>2. BlankFrom(crt_buf, p.pos) BY <2>1
    <3> QED BY <2>1, <3>1, <3>2 DEF BlankFrom, Cells
  <2> QED BY <1>a, <1>b, <1>3, <2>1, <2>3
<1>4. CASE c = "CR"
  <2>1. p.pos = crt_pos - (crt_pos % CRT_COLS) /\ p.buf = crt_buf
    BY <1>4 DEF cga_putc_At
  <2>2. BlankFrom(p.buf, RowEnd(p.pos))
    BY <1>b, <2>1
  <2> QED BY <1>a, <1>b, <1>4, <2>1, <2>2 DEF Cells
<1>5. CASE c \notin {"BS", "NL", "CR", "TAB"}
  <2>1. p.pos = crt_pos + 1 /\ p.buf = [crt_buf EXCEPT ![crt_pos] = c]
    BY <1>5 DEF cga_putc_At
  <2>2. p.buf \in [Cells -> Chars]
    BY <1>a, <2>1 DEF Cells
  <2>3. \A k \in Cells : k > crt_pos => p.buf[k] = crt_buf[k]
    BY <1>a, <2>1 DEF Cells
  <2>4. p.pos < CRT_SIZE => BlankFrom(p.buf, RowEnd(p.pos))
    <3> SUFFICES ASSUME p.pos < CRT_SIZE PROVE BlankFrom(p.buf, RowEnd(p.pos)) OBVIOUS
    <3>1. RowEnd(p.pos) \in Nat /\ p.pos < RowEnd(p.pos)
      <4>1. p.pos \in Cells BY <1>a, <2>1 DEF Cells
      <4> QED BY RowEnds, <4>1
    <3> QED BY <1>a, <1>b, <2>1, <2>3, <3>1 DEF BlankFrom, Cells
  <2>5. BlankFrom(crt_buf, crt_pos) => BlankFrom(p.buf, p.pos)
    BY <1>a, <2>1, <2>3 DEF BlankFrom, Cells
  <2> QED BY <1>a, <1>5, <2>1, <2>2, <2>4, <2>5
<1> QED BY <1>1, <1>2, <1>3, <1>4, <1>5

LEMMA TermInitially == TermInit => TermInv
<1> SUFFICES ASSUME TermInit PROVE TermInv
  OBVIOUS
<1> USE ScreenAssumption DEF TermInit
<1>1. 0 \in Cells
  <2>1. CRT_COLS * CRT_ROWS > 0 /\ CRT_COLS * CRT_ROWS \in Nat
    BY BUFLEN <= CRT_COLS * CRT_ROWS - CRT_COLS DEF CRT_SIZE
  <2> QED BY <2>1 DEF Cells, CRT_SIZE
<1>2. TermTyped
  <2>1. crt_buf \in [Cells -> Chars]
    BY DEF Cells, Chars
  <2>2. <<>> \in Seq(Chars) /\ <<>> \in Seq(Printable) /\ Len(<<>>) = 0
    BY EmptySeq
  <2> QED BY <1>1, <2>1, <2>2 DEF TermTyped
<1>3. \A a : BlankFrom(crt_buf, a)
  BY DEF BlankFrom, Cells
<1>4. GoesOn(todo)
  BY DEF GoesOn
<1> QED BY <1>2, <1>3, <1>4 DEF TermInv

LEMMA PutKeepsInv == TermInv /\ cga_putc => TermInv'
<1> SUFFICES ASSUME TermInv, cga_putc PROVE TermInv'
  OBVIOUS
<1> USE ScreenAssumption
<1> DEFINE c == Head(todo)
           p == cga_putc_At(c)
<1>a. /\ todo # <<>> /\ todo \in Seq(Chars) /\ line \in Seq(Printable) /\ Len(line) \in Nat
      /\ Len(line) < BUFLEN /\ reading \in BOOLEAN /\ start \in Int
      /\ crt_pos \in Nat /\ crt_pos < CRT_SIZE /\ CRT_SIZE \in Nat
      /\ crt_buf \in [Cells -> Chars]
  BY DEF TermInv, TermTyped, cga_putc, Cells, CRT_SIZE
<1>b. /\ todo' = Left(todo) /\ line' = line /\ reading' = reading
      /\ IF p.pos >= CRT_SIZE
         THEN /\ crt_buf' = Scrolled(p.buf) /\ crt_pos' = p.pos - CRT_COLS
              /\ start' = IF reading THEN start - CRT_COLS ELSE 0
         ELSE crt_buf' = p.buf /\ crt_pos' = p.pos /\ start' = start
  BY DEF cga_putc, Left, MustScroll
<1>c. c \in Chars /\ todo' \in Seq(Chars)
  BY <1>a, <1>b, LeftToPrint
<1>d. reading => /\ \/ /\ line # <<>> /\ todo = <<line[Len(line)]>>
                       /\ crt_pos = start + Len(line) - 1 /\ Shown(Len(line) - 1)
                    \/ todo = <<"BS">> /\ crt_pos = start + Len(line) + 1 /\ Shown(Len(line))
                 /\ ~NewRow(todo) /\ c \notin {"CR", "NL"} /\ todo' = <<>> /\ start >= 0
  <2> SUFFICES ASSUME reading PROVE /\ \/ /\ line # <<>> /\ todo = <<line[Len(line)]>>
                                          /\ crt_pos = start + Len(line) - 1 /\ Shown(Len(line) - 1)
                                       \/ /\ todo = <<"BS">> /\ crt_pos = start + Len(line) + 1
                                          /\ Shown(Len(line))
                                    /\ ~NewRow(todo) /\ c \notin {"CR", "NL"} /\ todo' = <<>>
                                    /\ start >= 0
    OBVIOUS
  <2>1. \/ /\ line # <<>> /\ todo = <<line[Len(line)]>>
           /\ crt_pos = start + Len(line) - 1 /\ Shown(Len(line) - 1)
        \/ todo = <<"BS">> /\ crt_pos = start + Len(line) + 1 /\ Shown(Len(line))
    BY <1>a DEF TermInv, Editing
  <2>2. line # <<>> => line[Len(line)] \in Printable
    <3> SUFFICES ASSUME line # <<>> PROVE line[Len(line)] \in Printable OBVIOUS
    <3>1. Len(line) \in 1 .. Len(line) BY <1>a, EmptySeq
    <3> QED BY <1>a, <3>1, ElementOfSeq
  <2>3. \E d \in Printable \cup {"BS"} : todo = <<d>>
    BY <2>1, <2>2
  <2>4. ~NewRow(todo) /\ c \notin {"CR", "NL", "TAB"}
    BY <2>3 DEF NewRow, Printable
  <2>5. todo' = <<>>
    BY <1>b, <2>3, <2>4 DEF Left
  <2> QED BY <2>1, <2>4, <2>5 DEF TermInv, Editing
<1>e. c = "BS" => BlankFrom(crt_buf, crt_pos)
  BY <1>a, <1>d, LeftToPrint DEF TermInv
<1>1. /\ p.pos \in 0 .. CRT_SIZE /\ p.buf \in [Cells -> Chars]
      /\ p.pos < CRT_SIZE => BlankFrom(p.buf, RowEnd(p.pos))
      /\ c = "NL" \/ (c # "CR" /\ BlankFrom(crt_buf, crt_pos)) => BlankFrom(p.buf, p.pos)
  BY PutAt, <1>c, <1>e DEF TermInv
<1>2. NewRow(todo') \/ BlankFrom(p.buf, p.pos)
  <2>1. CASE reading
    BY <1>1, <1>d, <2>1 DEF TermInv
  <2>2. CASE ~reading
    <3>1. GoesOn(todo) BY <2>2 DEF TermInv
    <3> QED BY <1>1, <1>a, <1>b, <3>1, LeftToPrint DEF TermInv
  <2> QED BY <2>1, <2>2
<1>3. reading => /\ start + Len(line) = p.pos /\ start >= 0 /\ todo' = <<>>
                 /\ \A k \in 1 .. Len(line) : p.buf[start + k - 1] = line[k]
  <2> SUFFICES ASSUME reading
               PROVE  /\ start + Len(line) = p.pos /\ start >= 0 /\ todo' = <<>>
                      /\ \A k \in 1 .. Len(line) : p.buf[start + k - 1] = line[k]
    OBVIOUS
  <2>1. CASE todo = <<"BS">> /\ crt_pos = start + Len(line) + 1 /\ Shown(Len(line))
    <3>1. p.pos = crt_pos - 1 /\ p.buf = [crt_buf EXCEPT ![crt_pos - 1] = BlankCell]
      <4>1. c = "BS" /\ crt_pos > 0 BY <1>a, <1>d, <2>1
      <4> QED BY <4>1 DEF cga_putc_At
    <3> HIDE DEF p
    <3>2. ASSUME NEW k \in 1 .. Len(line) PROVE p.buf[start + k - 1] = line[k]
      <4>1. start + k - 1 \in Cells /\ start + k - 1 # crt_pos - 1
        BY <1>a, <1>d, <2>1 DEF Cells
      <4> QED BY <1>a, <2>1, <3>1, <4>1 DEF Shown
    <3> QED BY <1>a, <1>d, <2>1, <3>1, <3>2
  <2>2. CASE /\ line # <<>> /\ todo = <<line[Len(line)]>>
             /\ crt_pos = start + Len(line) - 1 /\ Shown(Len(line) - 1)
    <3>1. c = line[Len(line)] /\ c \in Printable /\ Len(line) > 0
      <4>1. Len(line) \in 1 .. Len(line) BY <1>a, <2>2, EmptySeq
      <4> QED BY <1>a, <2>2, <4>1, ElementOfSeq
    <3>2. p.pos = crt_pos + 1 /\ p.buf = [crt_buf EXCEPT ![crt_pos] = c]
      BY <3>1 DEF cga_putc_At, Printable
    <3> HIDE DEF p, c
    <3>3. ASSUME NEW k \in 1 .. Len(line) PROVE p.buf[start + k - 1] = line[k]
      <4>1. start + k - 1 \in Cells /\ crt_pos \in Cells
        BY <1>a, <1>d, <2>2 DEF Cells
      <4>2. CASE k = Len(line)
        BY <1>a, <2>2, <3>1, <3>2, <4>1, <4>2
      <4>3. CASE k # Len(line)
        <5>1. k \in 1 .. Len(line) - 1 /\ start + k - 1 # crt_pos BY <1>a, <2>2, <4>3
        <5> QED BY <1>a, <2>2, <3>2, <4>1, <5>1 DEF Shown
      <4> QED BY <4>2, <4>3
    <3> QED BY <1>a, <1>d, <2>2, <3>2, <3>3
  <2> QED BY <1>d, <2>1, <2>2
<1>4. ~reading => GoesOn(todo')
  BY <1>a, <1>b, LeftToPrint DEF TermInv
<1> HIDE DEF p, c
<1>5. CASE p.pos < CRT_SIZE
  <2>1. crt_buf' = p.buf /\ crt_pos' = p.pos /\ start' = start
    BY <1>1, <1>a, <1>b, <1>5
  <2>2. TermTyped'
    BY <1>1, <1>5, <1>a, <1>b, <1>c, <2>1 DEF TermTyped, Cells
  <2>3. BlankFrom(crt_buf, RowEnd(crt_pos))'
    BY <1>1, <1>5, <2>1 DEF BlankFrom, RowEnd
  <2>4. (NewRow(todo) \/ BlankFrom(crt_buf, crt_pos))'
    BY <1>2, <2>1 DEF BlankFrom, NewRow
  <2>5. reading' => Editing'
    BY <1>3, <1>b, <2>1 DEF Editing, Shown
  <2>6. ~reading' => GoesOn(todo)'
    BY <1>4, <1>b DEF GoesOn
  <2> QED BY <2>2, <2>3, <2>4, <2>5, <2>6 DEF TermInv
<1>6. CASE p.pos = CRT_SIZE
  <2>1. /\ crt_buf' = Scrolled(p.buf) /\ crt_pos' = CRT_SIZE - CRT_COLS
        /\ start' = IF reading THEN start - CRT_COLS ELSE 0
    BY <1>a, <1>b, <1>6
  <2>a. CRT_SIZE - CRT_COLS \in Cells /\ CRT_COLS \in Nat \ {0} /\ BUFLEN <= CRT_SIZE - CRT_COLS
    BY <1>a DEF Cells
  <2>2. TermTyped'
    <3>1. crt_buf' \in [Cells -> Chars]
      <4>1. ASSUME NEW k \in Cells
            PROVE  (IF k < CRT_SIZE - CRT_COLS THEN p.buf[k + CRT_COLS] ELSE BlankCell) \in Chars
        <5>1. k < CRT_SIZE - CRT_COLS => k + CRT_COLS \in Cells BY <1>a DEF Cells
        <5> QED BY <1>1, <5>1 DEF Chars
      <4> QED BY <2>1, <4>1 DEF Scrolled, Cells
    <3>2. start' \in Int BY <1>a, <2>1
    <3> QED BY <1>a, <1>b, <1>c, <2>1, <2>a, <3>1, <3>2 DEF TermTyped, Cells
  <2>3. ASSUME NEW k \in Cells, k >= CRT_SIZE - CRT_COLS PROVE crt_buf'[k] = BlankCell
    BY <1>a, <2>1, <2>3 DEF Scrolled, Cells
  <2>4. BlankFrom(crt_buf, crt_pos)'
    BY <2>1, <2>3 DEF BlankFrom
  <2>5. BlankFrom(crt_buf, RowEnd(crt_pos))'
    <3>1. RowEnd(CRT_SIZE - CRT_COLS) \in Nat /\ CRT_SIZE - CRT_COLS < RowEnd(CRT_SIZE - CRT_COLS)
      BY <2>a, RowEnds
    <3>2. \A k \in Cells : k >= RowEnd(CRT_SIZE - CRT_COLS) => crt_buf'[k] = BlankCell
      BY <1>a, <2>a, <2>3, <3>1 DEF Cells
    <3> QED BY <2>1, <3>2 DEF BlankFrom, RowEnd
  <2>6. reading' => Editing'
    <3> SUFFICES ASSUME reading PROVE Editing' BY <1>b
    <3>a. start + Len(line) = CRT_SIZE
      BY <1>3, <1>6
    <3>b. start' = start - CRT_COLS /\ crt_pos' = CRT_SIZE - CRT_COLS
      BY <2>1
    <3>1. start' = start - CRT_COLS /\ start' >= 0 /\ crt_pos' = start' + Len(line)
      BY <1>a, <2>a, <3>a, <3>b
    <3>2. ASSUME NEW k \in 1 .. Len(line) PROVE crt_buf'[start' + k - 1] = line[k]
      <4>1. /\ start' + k - 1 \in Cells /\ start' + k - 1 < CRT_SIZE - CRT_COLS
            /\ start' + k - 1 + CRT_COLS = start + k - 1
        BY <1>a, <2>1, <2>a, <3>1 DEF Cells
      <4>2. crt_buf'[start' + k - 1] = p.buf[start' + k - 1 + CRT_COLS]
        BY <2>1, <4>1 DEF Scrolled, Cells
      <4> QED BY <1>3, <4>1, <4>2
    <3> QED BY <1>3, <1>b, <3>1, <3>2 DEF Editing, Shown
  <2>7. ~reading' => GoesOn(todo)'
    BY <1>4, <1>b DEF GoesOn
  <2> QED BY <2>2, <2>4, <2>5, <2>6, <2>7 DEF TermInv
<1> QED BY <1>1, <1>5, <1>6, <1>a

LEMMA TermSteps == TermInv /\ [TermNext]_termVars => TermInv'
<1> SUFFICES ASSUME TermInv, [TermNext]_termVars PROVE TermInv'
  OBVIOUS
<1>1. CASE cga_putc
  BY <1>1, PutKeepsInv
<1>2. CASE BeginLine
  <2>1. ~reading /\ BlankFrom(crt_buf, crt_pos) /\ todo = <<>>
    BY <1>2 DEF BeginLine, TermInv, NewRow
  <2>2. TermTyped'
    BY <1>2, ScreenAssumption DEF BeginLine, TermInv, TermTyped, Cells
  <2>3. Editing'
    BY <1>2 DEF BeginLine, Editing, TermInv, TermTyped, Cells, Shown
  <2> QED BY <1>2, <2>1, <2>2, <2>3 DEF BeginLine, TermInv, BlankFrom, RowEnd
<1>3. ASSUME NEW text \in Prompts, Prompt(text) PROVE TermInv'
  <2>1. ~reading /\ BlankFrom(crt_buf, crt_pos) /\ todo = <<>>
    BY <1>3 DEF Prompt, TermInv, NewRow
  <2>2. text \in Seq(Chars) /\ GoesOn(text)
    <3>1. text \in Seq(STRING) /\ GoesOn(text) BY PromptsAssumption DEF GoesOn
    <3>2. STRING \subseteq Chars BY DEF Chars
    <3> QED BY <3>1, <3>2, SeqMonotonic
  <2>3. TermTyped'
    BY <1>3, <2>2 DEF Prompt, TermInv, TermTyped, Cells
  <2> QED BY <1>3, <2>1, <2>2, <2>3 DEF Prompt, TermInv, BlankFrom, RowEnd, GoesOn
<1>4. ASSUME NEW c \in Printable \cup {"BS", "NL", "CR", "TAB"}, readline(c) PROVE TermInv'
  <2>a. /\ crt_buf' = crt_buf /\ crt_pos' = crt_pos /\ reading /\ todo = <<>>
        /\ start >= 0 /\ crt_pos = start + Len(line) /\ Shown(Len(line)) /\ BlankFrom(crt_buf, crt_pos)
    BY <1>4 DEF readline, TermInv, Editing, NewRow
  <2>b. /\ BlankFrom(crt_buf, crt_pos)' /\ BlankFrom(crt_buf, RowEnd(crt_pos))'
        /\ line \in Seq(Printable) /\ Len(line) \in Nat /\ start \in Int
    BY <2>a DEF TermInv, TermTyped, BlankFrom, RowEnd
  <2>1. CASE /\ c \in {"BS", "DEL"} /\ line # <<>> /\ line' = SubSeq(line, 1, Len(line) - 1)
             /\ todo' = <<"BS">> /\ UNCHANGED <<reading, start>>
    <3>1. /\ line' \in Seq(Printable) /\ Len(line') = Len(line) - 1 /\ Len(line) > 0
          /\ \A k \in 1 .. Len(line) - 1 : line'[k] = line[k]
      BY <2>1, <2>b
    <3>2. TermTyped'
      <4>1. <<"BS">> \in Seq(Chars) BY DEF Chars
      <4>2. Len(line') < BUFLEN BY <2>b, <3>1, ScreenAssumption DEF TermInv, TermTyped
      <4> QED BY <2>1, <2>a, <3>1, <4>1, <4>2 DEF TermInv, TermTyped
    <3>3. Editing'
      BY <2>1, <2>a, <2>b, <3>1 DEF Editing, Shown
    <3> QED BY <2>1, <2>a, <2>b, <3>2, <3>3 DEF TermInv
  <2>2. CASE /\ c \in Printable /\ Room /\ line' = Append(line, c) /\ todo' = <<c>>
             /\ UNCHANGED <<reading, start>>
    <3>1. /\ line' \in Seq(Printable) /\ Len(line') = Len(line) + 1 /\ line' # <<>>
          /\ \A k \in 1 .. Len(line) : line'[k] = line[k]
          /\ line'[Len(line')] = c
      BY <2>2, <2>b
    <3>2. TermTyped'
      <4>1. Len(line') < BUFLEN BY <2>2, <2>b, <3>1, ScreenAssumption DEF Room
      <4> QED BY <2>2, <2>a, <3>1, <4>1 DEF TermInv, TermTyped, Chars, Cells
    <3>3. Editing'
      BY <2>2, <2>a, <2>b, <3>1 DEF Editing, Shown
    <3> QED BY <2>2, <2>a, <2>b, <3>2, <3>3 DEF TermInv
  <2>3. CASE ~reading' /\ todo' = <<"NL">> /\ line' = <<>> /\ start' = 0 /\ reading' \in BOOLEAN
    <3>1. TermTyped'
      <4>1. todo' \in Seq(Chars) /\ line' \in Seq(Printable) /\ Len(line') = 0
        <5>1. <<"NL">> \in Seq(Chars) BY DEF Chars
        <5>2. <<>> \in Seq(Printable) /\ Len(<<>>) = 0 BY EmptySeq
        <5> QED BY <2>3, <5>1, <5>2
      <4>2. crt_pos' \in Cells /\ crt_buf' \in [Cells -> Chars]
        BY <2>a DEF TermInv, TermTyped
      <4>3. Len(line') < BUFLEN
        BY <4>1, ScreenAssumption
      <4>4. start' \in Int
        BY <2>3
      <4> QED BY <2>3, <4>1, <4>2, <4>3, <4>4 DEF TermTyped
    <3>2. GoesOn(todo)'
      BY <2>3 DEF GoesOn
    <3> QED BY <2>3, <2>b, <3>1, <3>2 DEF TermInv
  <2>4. CASE UNCHANGED <<line, todo, reading, start>>
    BY <2>4, <2>a DEF TermInv, TermTyped, BlankFrom, RowEnd, NewRow, Editing, Shown
  <2> QED BY <1>4, <2>1, <2>2, <2>3, <2>4 DEF readline
<1>5. CASE UNCHANGED termVars
  BY <1>5 DEF termVars, TermInv, TermTyped, BlankFrom, RowEnd, NewRow, GoesOn, Editing, Shown
<1> QED BY <1>1, <1>2, <1>3, <1>4, <1>5 DEF TermNext

\* A line stands on the screen as readline will return it, over the ends of
\* rows and while the screen scrolls, and the cursor never leaves the screen.
THEOREM LinesAreShown == TermSpec => []ScreenOK
<1>1. TermInv => ScreenOK
  <2> SUFFICES ASSUME TermInv PROVE ScreenOK
    OBVIOUS
  <2>1. TermTypeOK
    BY DEF TermInv, TermTyped, TermTypeOK, Cells
  <2>2. ScreenShowsLine
    <3> SUFFICES ASSUME reading, todo = <<>> PROVE ScreenShowsLine
      BY DEF ScreenShowsLine
    <3>1. Editing /\ BlankFrom(crt_buf, crt_pos)
      BY DEF TermInv, NewRow
    <3> QED BY <3>1 DEF ScreenShowsLine, Editing, Shown, BlankFrom, TermInv, TermTyped, Cells
  <2> QED BY <2>1, <2>2 DEF ScreenOK
<1> QED BY <1>1, TermInitially, TermSteps, PTL DEF TermSpec

-----------------------------------------------------------------------------
(***************************************************************************)
(* The time of day                                                         *)
(***************************************************************************)

Second(s) == seconds(Dates[s])

\* What was read into t before read n, and since second s began
Copied(t, n, s) ==
  \A k \in 1 .. NREGS : k < n => t[ReadOrder[k]] = Dates[s][ReadOrder[k]]

\* Nothing later than a second has been handed out.
HandedOut(time) == last.syscall <= time /\ last.vsys <= vsys /\ vsys <= time

\* The clock has not ticked in this call, or once; a tick spoils the first time
\* or the second, and the other one is of a single second.
Undisturbed ==
  /\ ticks = 0 /\ shown = {Now} /\ HandedOut(Now)
  /\ Copied(t1, step, rtc) /\ Copied(t2, step - NREGS, rtc)
Disturbed ==
  /\ ticks = 1 /\ ~uip /\ rtc > 1
  /\ shown = {Second(rtc - 1), Now} /\ HandedOut(Second(rtc - 1))
  /\ \/ Copied(t2, step - NREGS, rtc)
     \/ step > NREGS + 1 /\ Copied(t1, NREGS + 1, rtc - 1)

ClockTyped ==
  /\ rtc \in 1 .. Len(Dates) /\ step \in 0 .. 2 * NREGS + 1 /\ ticks \in Nat
  /\ t1 \in [Fields -> Nat] /\ t2 \in [Fields -> Nat]
  /\ vsys \in Nat /\ last \in [syscall : Nat, vsys : Nat]

ClockInv ==
  /\ ClockTyped
  /\ IF step = 0 THEN HandedOut(Now) ELSE Undisturbed \/ Disturbed

LEMMA RegisterFields ==
  /\ \A k \in 1 .. NREGS : ReadOrder[k] \in Fields
  /\ \A j, k \in 1 .. NREGS : ReadOrder[j] = ReadOrder[k] => j = k
  /\ \A field \in Fields : \E k \in 1 .. NREGS : ReadOrder[k] = field
<1>1. /\ ReadOrder[1] = "sec" /\ ReadOrder[2] = "min" /\ ReadOrder[3] = "hour"
      /\ ReadOrder[4] = "mday" /\ ReadOrder[5] = "mon" /\ ReadOrder[6] = "year"
  BY DEF ReadOrder
<1>2. \A k \in 1 .. NREGS : k \in {1, 2, 3, 4, 5, 6}
  BY DEF NREGS
<1>3. \A k \in {1, 2, 3, 4, 5, 6} : k \in 1 .. NREGS
  BY DEF NREGS
<1> QED BY <1>1, <1>2, <1>3 DEF Fields

LEMMA Seconds ==
  /\ Len(Dates) \in Nat \ {0}
  /\ \A s \in 1 .. Len(Dates) : Dates[s] \in [Fields -> Nat] /\ Second(s) \in Nat
  /\ \A s \in 1 .. Len(Dates) : s + 1 \in 1 .. Len(Dates) => Second(s) <= Second(s + 1)
<1>1. Dates \in Seq([Fields -> Nat]) /\ Dates # <<>>
  BY DatesAssumption
<1>2. Len(Dates) \in Nat \ {0}
  BY <1>1, EmptySeq
<1>3. \A s \in 1 .. Len(Dates) : Dates[s] \in [Fields -> Nat]
  BY <1>1, ElementOfSeq
<1>4. \A s \in 1 .. Len(Dates) : s + 1 \in 1 .. Len(Dates) => s \in 1 .. Len(Dates) - 1
  BY <1>2
<1> QED BY <1>2, <1>3, <1>4, DatesAssumption DEF Second

\* A time of which all was read in one second
LEMMA AllCopied ==
  ASSUME NEW t \in [Fields -> Nat], NEW s \in 1 .. Len(Dates), NEW n \in Int,
         n > NREGS, Copied(t, n, s)
  PROVE  seconds(t) = Second(s)
<1>1. Dates[s] \in [Fields -> Nat]
  BY Seconds
<1>2. ASSUME NEW field \in Fields PROVE t[field] = Dates[s][field]
  <2>1. PICK k \in 1 .. NREGS : ReadOrder[k] = field
    BY RegisterFields
  <2>2. k < n
    BY DEF NREGS
  <2> QED BY <2>1, <2>2 DEF Copied
<1>3. t = Dates[s]
  BY <1>1, <1>2
<1> QED BY <1>3 DEF Second

LEMMA OneMore ==
  ASSUME NEW t \in [Fields -> Nat], NEW s \in 1 .. Len(Dates), NEW n \in 1 .. NREGS,
         NEW u, u = [t EXCEPT ![ReadOrder[n]] = Dates[s][ReadOrder[n]]]
  PROVE  /\ u \in [Fields -> Nat]
         /\ Copied(t, n, s) => Copied(u, n + 1, s)
<1>1. Dates[s] \in [Fields -> Nat] /\ ReadOrder[n] \in Fields
  BY Seconds, RegisterFields
<1>2. u \in [Fields -> Nat] /\ u[ReadOrder[n]] = Dates[s][ReadOrder[n]]
  BY <1>1
<1>3. ASSUME Copied(t, n, s), NEW k \in 1 .. NREGS, k < n + 1
      PROVE  u[ReadOrder[k]] = Dates[s][ReadOrder[k]]
  <2>1. CASE k = n
    BY <2>1, <1>2
  <2>2. CASE k # n
    <3>1. k < n
      BY <1>3, <2>2 DEF NREGS
    <3>2. ReadOrder[k] # ReadOrder[n] /\ ReadOrder[k] \in Fields
      BY <2>2, RegisterFields
    <3> QED BY <1>1, <1>3, <3>1, <3>2 DEF Copied
  <2> QED BY <2>1, <2>2
<1> QED BY <1>2, <1>3 DEF Copied

LEMMA ClockInitially == ClockInit => ClockInv
<1>1. 1 \in 1 .. Len(Dates) /\ Second(1) \in Nat
  BY Seconds
<1> QED BY <1>1 DEF ClockInit, ClockInv, ClockTyped, HandedOut, Now, Second, Unset, NREGS

\* What gettime returns
LEMMA Returned ==
  ASSUME ClockInv, step = 2 * NREGS + 1, ~Again
  PROVE  /\ seconds(t1) \in shown /\ seconds(t1) \in Nat
         /\ last.syscall <= seconds(t1) /\ vsys <= seconds(t1) /\ seconds(t1) <= Now
<1>1. /\ rtc \in 1 .. Len(Dates) /\ t1 \in [Fields -> Nat] /\ t2 \in [Fields -> Nat]
      /\ Now = Second(rtc) /\ Now \in Nat /\ vsys \in Nat /\ last.syscall \in Nat
      /\ step - NREGS \in Int /\ step - NREGS > NREGS /\ step > NREGS /\ step \in Int
  BY Seconds DEF ClockInv, ClockTyped, Now, Second, NREGS
<1>2. CASE Undisturbed
  <2>1. seconds(t1) = Now
    BY <1>1, <1>2, AllCopied DEF Undisturbed
  <2> QED BY <1>1, <1>2, <2>1 DEF Undisturbed, HandedOut
<1>3. CASE Disturbed
  <2>1. rtc - 1 \in 1 .. Len(Dates) /\ Second(rtc - 1) \in Nat /\ Second(rtc - 1) <= Now
    <3>1. rtc - 1 \in 1 .. Len(Dates) /\ (rtc - 1) + 1 = rtc
      BY <1>1, <1>3 DEF Disturbed
    <3> QED BY <1>1, <3>1, Seconds
  <2>2. seconds(t1) \in {Second(rtc - 1), Now}
    <3>1. CASE Copied(t2, step - NREGS, rtc)
      <4>1. seconds(t2) = Now
        BY <1>1, <3>1, AllCopied
      <4>2. seconds(t1) = seconds(t2)
        BY <1>3 DEF Again, Disturbed
      <4> QED BY <4>1, <4>2
    <3>2. CASE Copied(t1, NREGS + 1, rtc - 1)
      <4>1. NREGS + 1 \in Int /\ NREGS + 1 > NREGS BY DEF NREGS
      <4> QED BY <1>1, <2>1, <3>2, <4>1, AllCopied
    <3> QED BY <1>3, <3>1, <3>2 DEF Disturbed
  <2> QED BY <1>1, <1>3, <2>1, <2>2 DEF Disturbed, HandedOut
<1> QED BY <1>1, <1>2, <1>3 DEF ClockInv, NREGS

LEMMA ReadStep == ClockInv /\ Read => ClockInv'
<1> SUFFICES ASSUME ClockInv, Read PROVE ClockInv'
  OBVIOUS
<1>a. /\ rtc' = rtc /\ ticks' = ticks /\ uip' = uip /\ shown' = shown /\ vsys' = vsys /\ last' = last
      /\ step \in 1 .. 2 * NREGS /\ step' = step + 1 /\ Now' = Now /\ step # 0 /\ step' # 0
      /\ rtc \in 1 .. Len(Dates) /\ t1 \in [Fields -> Nat] /\ t2 \in [Fields -> Nat]
  BY DEF Read, ClockInv, ClockTyped, Now, NREGS
<1>b. \A time : HandedOut(time)' <=> HandedOut(time)
  BY <1>a DEF HandedOut
<1>1. CASE step <= NREGS
  <2>1. t1' = [t1 EXCEPT ![ReadOrder[step]] = Dates[rtc][ReadOrder[step]]] /\ t2' = t2
    BY <1>1 DEF Read
  <2>2. step \in 1 .. NREGS
    BY <1>a, <1>1 DEF NREGS
  <2>3. t1' \in [Fields -> Nat] /\ (Copied(t1, step, rtc) => Copied(t1', step', rtc))
    BY <1>a, <2>1, <2>2, OneMore
  <2>4. Copied(t2', step' - NREGS, rtc)
    BY <1>a, <2>2 DEF Copied, NREGS
  <2>5. ClockTyped'
    <3>1. rtc' \in 1 .. Len(Dates) /\ step' \in 0 .. 2 * NREGS + 1
      BY <1>a DEF NREGS
    <3>2. /\ ticks' \in Nat /\ vsys' \in Nat /\ last' \in [syscall : Nat, vsys : Nat]
          /\ t1' \in [Fields -> Nat] /\ t2' \in [Fields -> Nat]
      BY <1>a, <2>1, <2>3 DEF ClockInv, ClockTyped
    <3> QED BY <3>1, <3>2 DEF ClockTyped
  <2>6. Undisturbed => Undisturbed'
    BY <1>a, <1>b, <2>3, <2>4 DEF Undisturbed, Copied, HandedOut
  <2>7. Disturbed => Disturbed'
    BY <1>a, <1>b, <2>4 DEF Disturbed, Copied, HandedOut, Second
  <2> QED BY <1>a, <2>5, <2>6, <2>7 DEF ClockInv
<1>2. CASE step > NREGS
  <2>1. t2' = [t2 EXCEPT ![ReadOrder[step - NREGS]] = Dates[rtc][ReadOrder[step - NREGS]]] /\ t1' = t1
    BY <1>a, <1>2 DEF Read, NREGS
  <2>2. step - NREGS \in 1 .. NREGS /\ step - NREGS + 1 = step' - NREGS
    BY <1>a, <1>2 DEF NREGS
  <2>3. t2' \in [Fields -> Nat] /\ (Copied(t2, step - NREGS, rtc) => Copied(t2', step' - NREGS, rtc))
    BY <1>a, <2>1, <2>2, OneMore
  <2>4. Copied(t1, step, rtc) => Copied(t1', step', rtc)
    <3>1. \A k \in 1 .. NREGS : k < step
      BY <1>a, <1>2 DEF NREGS
    <3> QED BY <2>1, <3>1 DEF Copied
  <2>5. ClockTyped'
    <3>1. rtc' \in 1 .. Len(Dates) /\ step' \in 0 .. 2 * NREGS + 1
      BY <1>a DEF NREGS
    <3>2. /\ ticks' \in Nat /\ vsys' \in Nat /\ last' \in [syscall : Nat, vsys : Nat]
          /\ t1' \in [Fields -> Nat] /\ t2' \in [Fields -> Nat]
      BY <1>a, <2>1, <2>3 DEF ClockInv, ClockTyped
    <3> QED BY <3>1, <3>2 DEF ClockTyped
  <2>6. Undisturbed => Undisturbed'
    BY <1>a, <1>b, <2>3, <2>4 DEF Undisturbed, Copied, HandedOut
  <2>7. Disturbed => Disturbed'
    BY <1>a, <1>b, <1>2, <2>1, <2>3 DEF Disturbed, Copied, HandedOut, Second, NREGS
  <2> QED BY <1>a, <2>5, <2>6, <2>7 DEF ClockInv
<1> QED BY <1>a, <1>1, <1>2 DEF NREGS

LEMMA TickStep == ClockInv /\ Tick => ClockInv'
<1> SUFFICES ASSUME ClockInv, Tick PROVE ClockInv'
  OBVIOUS
<1>1. /\ rtc \in 1 .. Len(Dates) /\ rtc' = rtc + 1 /\ rtc' \in 1 .. Len(Dates) /\ rtc' - 1 = rtc
      /\ Now = Second(rtc) /\ Now' = Second(rtc') /\ Now \in Nat /\ Now' \in Nat /\ Now <= Now'
      /\ ~uip' /\ step' = step /\ t1' = t1 /\ t2' = t2 /\ vsys' = vsys /\ last' = last
  BY Seconds DEF Tick, ClockInv, ClockTyped, Now, Second
<1>2. ClockTyped'
  BY <1>1 DEF Tick, ClockInv, ClockTyped, NREGS
<1>3. CASE step = 0
  <2>1. HandedOut(Now)'
    BY <1>1, <1>3 DEF ClockInv, ClockTyped, HandedOut
  <2> QED BY <1>1, <1>2, <1>3, <2>1 DEF ClockInv
<1>4. CASE step # 0
  <2>1. Undisturbed
    BY <1>4 DEF Tick, TickNear, ClockInv, ClockTyped, Disturbed, NREGS
  <2>2. /\ ticks' = 1 /\ shown' = {Second(rtc' - 1), Now'} 
        /\ last'.syscall <= Second(rtc' - 1) /\ last'.vsys <= vsys' /\ vsys' <= Second(rtc' - 1)
    BY <1>1, <1>4, <2>1 DEF Tick, Undisturbed, ClockInv, ClockTyped, HandedOut, NREGS
  <2>3. \/ Copied(t2', step' - NREGS, rtc')
        \/ step' > NREGS + 1 /\ Copied(t1', NREGS + 1, rtc' - 1)
    <3>a. step \in Int /\ NREGS = 6
      BY DEF ClockInv, ClockTyped, NREGS
    <3>1. CASE step <= NREGS + 1
      <4>1. \A k \in 1 .. NREGS : ~(k < step' - NREGS)
        BY <1>1, <3>1, <3>a
      <4> QED BY <4>1 DEF Copied
    <3>2. CASE step > NREGS + 1
      <4>1. \A k \in 1 .. NREGS : k < step
        BY <3>2, <3>a
      <4> QED BY <1>1, <2>1, <3>2, <4>1 DEF Undisturbed, Copied
    <3> QED BY <3>1, <3>2 DEF ClockInv, ClockTyped, NREGS
  <2>4. Disturbed'
    BY <1>1, <2>2, <2>3 DEF Disturbed, HandedOut, Copied, Second, Now
  <2> QED BY <1>1, <1>2, <1>4, <2>4 DEF ClockInv
<1> QED BY <1>3, <1>4

LEMMA ReturnStep == ClockInv /\ ReturnTime => ClockInv'
<1> SUFFICES ASSUME ClockInv, ReturnTime PROVE ClockInv'
  OBVIOUS
<1>1. CASE Again
  <2>1. /\ step' = 1 /\ UNCHANGED <<caller, vsys, last, rtc, uip, ticks, t1, t2, shown>>
        /\ step \in Int /\ step > 0
    BY <1>1 DEF ReturnTime, NREGS
  <2>2. \A t, s : Copied(t, 1, s) /\ Copied(t, 1 - NREGS, s)
    BY DEF Copied, NREGS
  <2>3. ClockTyped'
    BY <2>1 DEF ClockInv, ClockTyped, NREGS
  <2>4. Undisturbed => Undisturbed'
    BY <2>1, <2>2 DEF Undisturbed, Copied, HandedOut, Now
  <2>5. Disturbed => Disturbed'
    BY <2>1, <2>2 DEF Disturbed, Copied, HandedOut, Now, Second
  <2> QED BY <2>1, <2>3, <2>4, <2>5 DEF ClockInv
<1>2. CASE ~Again
  <2>1. /\ step' = 0 /\ rtc' = rtc /\ Now' = Now /\ t1' = t1 /\ t2' = t2 /\ ticks' = ticks
        /\ vsys' \in {vsys, seconds(t1)} /\ last'.vsys = last.vsys
        /\ last'.syscall \in {last.syscall, seconds(t1)} /\ last' \in [syscall : Nat, vsys : Nat]
    <3>1. seconds(t1) \in Nat
      BY <1>2, Returned DEF ReturnTime
    <3> QED BY <1>2, <3>1 DEF ReturnTime, Now, ClockInv, ClockTyped
  <2>2. /\ seconds(t1) \in Nat /\ last.syscall <= seconds(t1) /\ vsys <= seconds(t1)
        /\ seconds(t1) <= Now
    BY <1>2, Returned DEF ReturnTime
  <2>3. ClockTyped'
    BY <2>1, <2>2 DEF ClockInv, ClockTyped, NREGS
  <2>4. HandedOut(Now)'
    <3>1. Now \in Nat /\ vsys \in Nat /\ last.syscall \in Nat /\ last.vsys \in Nat /\ last.vsys <= vsys
      BY Seconds DEF ClockInv, ClockTyped, HandedOut, Undisturbed, Disturbed, Now, Second
    <3> QED BY <2>1, <2>2, <3>1 DEF HandedOut
  <2> QED BY <2>1, <2>3, <2>4 DEF ClockInv
<1> QED BY <1>1, <1>2

LEMMA ClockStep == ClockInv /\ [ClockNext]_clockVars => ClockInv'
<1> SUFFICES ASSUME ClockInv, [ClockNext]_clockVars PROVE ClockInv'
  OBVIOUS
<1>1. CASE Announce
  <2>1. Disturbed => step = 0
    BY <1>1 DEF Announce, TickNear, Disturbed, ClockInv, ClockTyped, NREGS
  <2> QED BY <1>1, <2>1 DEF Announce, ClockInv, ClockTyped, HandedOut, Undisturbed, Copied, Now
<1>2. CASE Tick
  BY <1>2, TickStep
<1>3. ASSUME NEW who, Begin(who) PROVE ClockInv'
  <2>1. \A t, s : Copied(t, 1, s) /\ Copied(t, 1 - NREGS, s)
    BY DEF Copied, NREGS
  <2>2. ClockTyped'
    BY <1>3 DEF Begin, ClockInv, ClockTyped, NREGS
  <2>3. Undisturbed'
    BY <1>3, <2>1 DEF Begin, ClockInv, Undisturbed, Copied, HandedOut, Now
  <2> QED BY <1>3, <2>2, <2>3 DEF Begin, ClockInv
<1>4. CASE Read
  BY <1>4, ReadStep
<1>5. CASE ReturnTime
  BY <1>5, ReturnStep
<1>6. CASE vsys_gettime
  <2>1. Now \in Nat
    BY Seconds DEF ClockInv, ClockTyped, Now, Second
  <2> QED BY <1>6, <2>1 DEF vsys_gettime, ClockInv, ClockTyped, HandedOut, Now
<1>7. CASE UNCHANGED clockVars
  BY <1>7 DEF clockVars, ClockInv, ClockTyped, HandedOut, Undisturbed, Disturbed, Copied, Now, Second
<1> QED BY <1>1, <1>2, <1>3, <1>4, <1>5, <1>6, <1>7 DEF ClockNext

\* gettime returns a time that the clock showed while it ran, and programs never
\* see the time go back, whatever the registers carry in a tick between two reads.
THEOREM TimesAreShown == ClockSpec => TimeIsRight
<1>1. ClockInv /\ [ClockNext]_clockVars
        => [step > 0 /\ step' = 0 => seconds(t1) \in shown]_clockVars
  <2> SUFFICES ASSUME ClockInv, ClockNext, step > 0, step' = 0 PROVE seconds(t1) \in shown
    OBVIOUS
  <2>1. step = 2 * NREGS + 1 /\ ~Again
    BY DEF ClockNext, Announce, Tick, Begin, Read, ReturnTime, vsys_gettime, ClockInv, ClockTyped, NREGS
  <2> QED BY <2>1, Returned
<1>2. ClockInv /\ [ClockNext]_clockVars
        => [last'.syscall >= last.syscall /\ last'.vsys >= last.vsys]_clockVars
  <2> SUFFICES ASSUME ClockInv, ClockNext
               PROVE  last'.syscall >= last.syscall /\ last'.vsys >= last.vsys
    OBVIOUS
  <2>1. last.syscall \in Nat /\ last.vsys \in Nat /\ last \in [syscall : Nat, vsys : Nat] /\ vsys \in Nat
    BY DEF ClockInv, ClockTyped
  <2>2. CASE ReturnTime
    <3>1. CASE last' = last
      BY <2>1, <3>1
    <3>2. CASE ~Again /\ last' = [last EXCEPT !.syscall = seconds(t1)]
      <4>1. seconds(t1) \in Nat /\ last.syscall <= seconds(t1)
        BY <2>2, <3>2, Returned DEF ReturnTime
      <4> QED BY <2>1, <3>2, <4>1
    <3> QED BY <2>2, <3>1, <3>2 DEF ReturnTime
  <2>3. CASE vsys_gettime
    BY <2>1, <2>3 DEF vsys_gettime, ClockInv, HandedOut
  <2>4. CASE last' = last
    BY <2>1, <2>4
  <2> QED BY <2>2, <2>3, <2>4 DEF ClockNext, Announce, Tick, Begin, Read
<1> QED BY <1>1, <1>2, ClockInitially, ClockStep, PTL
        DEF ClockSpec, TimeIsRight, TimeWasShown, TimeGoesOn
=============================================================================
