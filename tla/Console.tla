-------------------------------- MODULE Console --------------------------------
(***************************************************************************)
(* Console input (kern/console.c): the decoding of scancodes, the buffer   *)
(* that keyboard and serial interrupts fill and cons_getc empties.         *)
(*                                                                         *)
(* A step is one call of kbd_proc_data or serial_proc_data, or one         *)
(* character taken; the devices go on while the kernel drains them.  The   *)
(* keyboard, its controller and the serial line are external.              *)
(***************************************************************************)
EXTENDS Integers, Sequences

CONSTANTS
  CONSBUFSIZE,
  Keys,         \* the keys that are used, a subset of KeyCodes' domain
  MaxCodes      \* bound: scancodes in the keyboard controller

ASSUME CONSBUFSIZEAssumption == CONSBUFSIZE \in Nat \ {0}

VARIABLES
  shift,        \* modifiers and half-received escapes, a set of flags
  buf, rpos, wpos,   \* struct cons
  doing,          \* what the kernel is doing
  got,          \* what cons_getc returned last, 0 for nothing
  held, codes,  \* external: the keys held down, the scancodes not read yet
  com,          \* external: the character in the serial receiver
  caps,         \* external: the state caps lock should have
  reboot

conVars == <<shift, buf, rpos, wpos, doing, got, held, codes, com, caps, reboot>>

\* Scancodes when a key goes down; when it goes up, the last has 0x80 added.
E0 == 224
KeyCodes == [a |-> <<30>>, LShift |-> <<42>>, RShift |-> <<54>>, LCtl |-> <<29>>,
             RCtl |-> <<E0, 29>>, Alt |-> <<56>>, CapsLock |-> <<58>>, Del |-> <<E0, 83>>]
ASSUME KeysAssumption == Keys \subseteq DOMAIN KeyCodes
Down(key) == KeyCodes[key]
Up(key) == LET s == KeyCodes[key] IN [s EXCEPT ![Len(s)] = @ + 128]

\* shiftcode, togglecode and charcode
shiftcode(d) ==
  CASE d \in {29, 157} -> {"CTL"} [] d \in {42, 54} -> {"SHIFT"} [] d \in {56, 184} -> {"ALT"}
    [] OTHER -> {}
togglecode(d) == IF d = 58 THEN {"CAPSLOCK"} ELSE {}

NoChar == 0
CtlA == 1
UpperA == 65
LowerA == 97
KEY_DEL == 233
charcode(flags, d) ==
  CASE d = 30 /\ "CTL" \in flags -> CtlA
    [] d = 30 /\ "CTL" \notin flags -> IF "SHIFT" \in flags THEN UpperA ELSE LowerA
    [] d = 211 -> KEY_DEL
    [] OTHER -> NoChar

CapsLocked(flags, c) ==
  IF "CAPSLOCK" \notin flags THEN c
  ELSE CASE c = LowerA -> UpperA [] c = UpperA -> LowerA [] OTHER -> c

ConInit ==
  /\ shift = {} /\ buf = [i \in 0 .. CONSBUFSIZE - 1 |-> 0] /\ rpos = 0 /\ wpos = 0
  /\ doing = "user" /\ got = 0
  /\ held = {} /\ codes = <<>> /\ com = 0 /\ caps = FALSE /\ reboot = FALSE

-----------------------------------------------------------------------------
\* Devices

Send(s) == Len(codes) + Len(s) <= MaxCodes /\ codes' = codes \o s

Press(key) ==
  /\ key \notin held
  /\ Send(Down(key))
  /\ held' = held \cup {key}
  /\ caps' = IF key = "CapsLock" THEN ~caps ELSE caps
  /\ UNCHANGED <<shift, buf, rpos, wpos, doing, got, com, reboot>>

Release(key) ==
  /\ key \in held
  /\ Send(Up(key))
  /\ held' = held \ {key}
  /\ UNCHANGED <<shift, buf, rpos, wpos, doing, got, com, caps, reboot>>

Serial(c) ==
  /\ com = 0
  /\ com' = c
  /\ UNCHANGED <<shift, buf, rpos, wpos, doing, got, held, codes, caps, reboot>>

-----------------------------------------------------------------------------
\* An interrupt of a device, or cons_getc, which polls both.

Working(c) == ~reboot /\ doing = c

Interrupt ==
  /\ Working("user") /\ got = 0
  /\ \/ codes # <<>> /\ doing' = "kbd_intr"
     \/ com # 0 /\ doing' = "serial_intr"
     \/ doing' = "getc_serial"
  /\ UNCHANGED <<shift, buf, rpos, wpos, got, held, codes, com, caps, reboot>>

\* cons_intr stores what the device has, except characters that are zero.
Store(c) ==
  IF c = NoChar
  THEN UNCHANGED <<buf, wpos>>
  ELSE /\ buf' = [buf EXCEPT ![wpos] = c]
       /\ wpos' = IF wpos + 1 = CONSBUFSIZE THEN 0 ELSE wpos + 1

SerialData ==
  /\ Working("serial_intr") \/ Working("getc_serial")
  /\ com # 0
  /\ Store(com)
  /\ com' = 0
  /\ UNCHANGED <<shift, rpos, doing, got, held, codes, caps, reboot>>

\* kbd_proc_data
Escaped == "E0ESC" \in shift

Released(data) ==
  LET d == IF Escaped THEN data ELSE data - 128
  IN  shift' = shift \ (shiftcode(d) \cup {"E0ESC"})

ShiftFlags_Escaped(d) ==
  LET s == shift \cup shiftcode(d) IN (s \ togglecode(d)) \cup (togglecode(d) \ s)
ShiftFlags(d) ==
  LET s == (shift \ {"E0ESC"}) \cup shiftcode(d)
  IN  (s \ togglecode(d)) \cup (togglecode(d) \ s)

Pressed(data) ==
  LET d == IF Escaped THEN data + 128 ELSE data
      c == CapsLocked(ShiftFlags(d), charcode(ShiftFlags(d), d))
  IN  /\ shift' = ShiftFlags(d)
      /\ reboot' = (c = KEY_DEL /\ {"CTL", "ALT"} \subseteq ShiftFlags(d))
      /\ Store(c)

KbdData ==
  LET data == Head(codes)
  IN  /\ Working("kbd_intr") \/ Working("getc_kbd")
      /\ codes # <<>>
      /\ codes' = Tail(codes)
      /\ \/ data = E0 /\ shift' = shift \cup {"E0ESC"} /\ UNCHANGED <<buf, wpos, reboot>>
         \/ data # E0 /\ data >= 128 /\ Released(data) /\ UNCHANGED <<buf, wpos, reboot>>
         \/ data < 128 /\ Pressed(data)
      /\ UNCHANGED <<rpos, doing, got, held, com, caps>>

Drained ==
  /\ ~reboot
  /\ \/ doing \in {"serial_intr", "getc_serial"} /\ com = 0
     \/ doing \in {"kbd_intr", "getc_kbd"} /\ codes = <<>>
  /\ doing' = CASE doing = "getc_serial" -> "getc_kbd" [] doing = "getc_kbd" -> "getc"
              [] OTHER -> "user"
  /\ UNCHANGED <<shift, buf, rpos, wpos, got, held, codes, com, caps, reboot>>

Getc_NoWrap ==
  /\ Working("getc")
  /\ doing' = "user"
  /\ IF rpos = wpos THEN UNCHANGED <<got, rpos>>
     ELSE got' = buf[rpos] /\ rpos' = IF rpos + 1 = CONSBUFSIZE THEN 1 ELSE rpos + 1
  /\ UNCHANGED <<shift, buf, wpos, held, codes, com, caps, reboot>>
Getc ==
  /\ Working("getc")
  /\ doing' = "user"
  /\ IF rpos = wpos THEN UNCHANGED <<got, rpos>>
     ELSE got' = buf[rpos] /\ rpos' = IF rpos + 1 = CONSBUFSIZE THEN 0 ELSE rpos + 1
  /\ UNCHANGED <<shift, buf, wpos, held, codes, com, caps, reboot>>

\* The caller has its character.
Consume ==
  /\ Working("user") /\ got # 0
  /\ got' = 0
  /\ UNCHANGED <<shift, buf, rpos, wpos, doing, held, codes, com, caps, reboot>>

Input == SerialData \/ KbdData \/ Drained \/ Getc

\* One key of a kind is held at a time.
Kind == [a |-> 0, LShift |-> 1, RShift |-> 1, LCtl |-> 2, RCtl |-> 2, Alt |-> 3,
         CapsLock |-> 4, Del |-> 5]
Alone(key) == \A k \in held : Kind[k] # Kind[key]

ConNext ==
  \/ Input \/ Interrupt \/ Consume
  \/ ~reboot /\ \E key \in Keys : (Alone(key) /\ Press(key)) \/ Release(key)
  \/ ~reboot /\ Serial(LowerA)

ConSpec == ConInit /\ [][ConNext]_conVars

-----------------------------------------------------------------------------
(***************************************************************************)
(* Properties                                                              *)
(***************************************************************************)

\* The type invariant.
ConTypeOK ==
  /\ shift \subseteq {"SHIFT", "CTL", "ALT", "CAPSLOCK", "E0ESC"}
  /\ rpos \in 0 .. CONSBUFSIZE - 1 /\ wpos \in 0 .. CONSBUFSIZE - 1
  /\ doing \in {"user", "kbd_intr", "serial_intr", "getc_serial", "getc_kbd", "getc"}
  /\ got \in {0, CtlA, UpperA, LowerA, KEY_DEL}

\* What cons_getc has not returned yet
Waiting ==
  [i \in 1 .. (wpos - rpos + CONSBUFSIZE) % CONSBUFSIZE |-> buf[(rpos + i - 1) % CONSBUFSIZE]]

\* The two devices share one buffer with its reader: characters come out in
\* the order in which they were decoded, none twice and none that was not
\* typed, also when nobody reads for so long that the buffer overflows; then
\* all of it is lost.
Lossy == INSTANCE LossyQueue WITH
  Chars <- {CtlA, UpperA, LowerA, KEY_DEL}, Size <- CONSBUFSIZE, None <- 0,
  queue <- Waiting, got <- got
InOrder == Lossy!Empty /\ [][Lossy!Step]_<<Waiting, got>>

\* Once all scancodes are read, the modifiers are those of the keys that are
\* down, however presses, releases and escapes were cut up by interrupts; one
\* Ctrl key has escapes and the other none.
AnyHeld(S) == held \cap S # {}
ModifiersFollowKeys ==
  codes = <<>> /\ ~reboot =>
    shift = (IF AnyHeld({"LShift", "RShift"}) THEN {"SHIFT"} ELSE {})
            \cup (IF AnyHeld({"LCtl", "RCtl"}) THEN {"CTL"} ELSE {})
            \cup (IF AnyHeld({"Alt"}) THEN {"ALT"} ELSE {})
            \cup (IF caps THEN {"CAPSLOCK"} ELSE {})

\* The modifiers follow the keys (kbd_proc_data), and the ring keeps its bounds.
KeyboardOK == ConTypeOK /\ ModifiersFollowKeys
=============================================================================
