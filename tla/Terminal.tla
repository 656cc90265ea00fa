-------------------------------- MODULE Terminal --------------------------------
(***************************************************************************)
(* A line edited at the terminal: readline (lib/readline.c), which echoes  *)
(* what it stores, and the text screen with its cursor and its scrolling   *)
(* (cga_putc in kern/console.c).  Prompts and other output are texts of    *)
(* single characters.                                                      *)
(***************************************************************************)
EXTENDS Integers, Sequences

CONSTANTS
  CRT_COLS, CRT_ROWS, BUFLEN,
  Prompts        \* texts printed before a line is read

BlankCell == "_"
CRT_SIZE == CRT_COLS * CRT_ROWS

\* A line of readline leaves room for a row on the screen.
ASSUME ScreenAssumption ==
  /\ CRT_COLS \in Nat \ {0} /\ CRT_ROWS \in Nat \ {0}
  /\ BUFLEN \in Nat \ {0} /\ BUFLEN <= CRT_SIZE - CRT_COLS

\* Texts that go back in their row begin another before they end.
ASSUME PromptsAssumption ==
  \A text \in Prompts :
    /\ text \in Seq(STRING)
    /\ \A i \in 1 .. Len(text) :
         /\ text[i] # "BS"
         /\ text[i] = "CR" => \E j \in i + 1 .. Len(text) : text[j] = "NL"

VARIABLES
  crt_buf, crt_pos,   \* the screen and its cursor
  todo,          \* characters on their way to cga_putc
  line,          \* the characters readline has stored, buf[0 .. i-1]
  reading,       \* readline is in its loop
  start          \* history: where the line began, in cells of the whole scroll

termVars == <<crt_buf, crt_pos, todo, line, reading, start>>

TermInit ==
  /\ crt_buf = [k \in 0 .. CRT_SIZE - 1 |-> BlankCell] /\ crt_pos = 0
  /\ todo = <<>> /\ line = <<>> /\ reading = FALSE /\ start = 0

\* What a character does to screen and cursor, before scrolling
cga_putc_At(c) ==
  CASE c = "BS" -> IF crt_pos > 0
                   THEN [pos |-> crt_pos - 1, buf |-> [crt_buf EXCEPT ![crt_pos - 1] = BlankCell]]
                   ELSE [pos |-> crt_pos, buf |-> crt_buf]
    [] c = "NL" -> [pos |-> crt_pos + CRT_COLS - (crt_pos % CRT_COLS), buf |-> crt_buf]
    [] c = "CR" -> [pos |-> crt_pos - (crt_pos % CRT_COLS), buf |-> crt_buf]
    [] c = "TAB" -> [pos |-> crt_pos, buf |-> crt_buf]
    [] OTHER -> [pos |-> crt_pos + 1, buf |-> [crt_buf EXCEPT ![crt_pos] = c]]

Scrolled(buf) ==
  [k \in 0 .. CRT_SIZE - 1 |-> IF k < CRT_SIZE - CRT_COLS THEN buf[k + CRT_COLS] ELSE BlankCell]

MustScroll_Late(pos) == pos > CRT_SIZE
MustScroll(pos) == pos >= CRT_SIZE

\* cga_putc; a tab is five blanks more.
cga_putc ==
  LET c == Head(todo)
      p == cga_putc_At(c)
  IN  /\ todo # <<>>
      /\ todo' = (IF c = "TAB" THEN [k \in 1 .. 5 |-> BlankCell] ELSE <<>>) \o Tail(todo)
      /\ IF MustScroll(p.pos)
         THEN /\ crt_buf' = Scrolled(p.buf) /\ crt_pos' = p.pos - CRT_COLS
              /\ start' = IF reading THEN start - CRT_COLS ELSE 0
         ELSE crt_buf' = p.buf /\ crt_pos' = p.pos /\ start' = start
      /\ UNCHANGED <<line, reading>>

\* readline prints its prompt; when that is on the screen, the line begins.
Prompt(text) ==
  /\ todo = <<>> /\ ~reading /\ todo' = text
  /\ UNCHANGED <<crt_buf, crt_pos, line, reading, start>>
BeginLine ==
  /\ todo = <<>> /\ ~reading
  /\ reading' = TRUE /\ line' = <<>> /\ start' = crt_pos
  /\ UNCHANGED <<crt_buf, crt_pos, todo>>

\* readline takes the next character: a backspace or delete with something to
\* delete; a character from the blank up, delete among them, if there is
\* room; the end of the line.  Others do nothing.
Printable == {"x", "y", "DEL"}
Room == Len(line) < BUFLEN - 1
readline(c) ==
  /\ reading /\ todo = <<>>
  /\ \/ /\ c \in {"BS", "DEL"} /\ line # <<>>
        /\ line' = SubSeq(line, 1, Len(line) - 1) /\ todo' = <<"BS">> /\ UNCHANGED <<reading, start>>
     \/ /\ c \in Printable /\ ~(c = "DEL" /\ line # <<>>) /\ Room
        /\ line' = Append(line, c) /\ todo' = <<c>> /\ UNCHANGED <<reading, start>>
     \/ c \in {"NL", "CR"} /\ reading' = FALSE /\ todo' = <<"NL">> /\ line' = <<>> /\ start' = 0
     \/ /\ c = "TAB" \/ (c = "BS" /\ line = <<>>) \/ (c \in Printable \ {"DEL"} /\ ~Room)
        /\ UNCHANGED <<line, todo, reading, start>>
  /\ UNCHANGED <<crt_buf, crt_pos>>

TermNext ==
  \/ cga_putc \/ BeginLine
  \/ \E text \in Prompts : Prompt(text)
  \/ \E c \in Printable \cup {"BS", "NL", "CR", "TAB"} : readline(c)

TermSpec == TermInit /\ [][TermNext]_termVars

-----------------------------------------------------------------------------
(***************************************************************************)
(* Properties                                                              *)
(***************************************************************************)

\* The type invariant: the cursor stays on the screen.
TermTypeOK ==
  /\ crt_pos \in 0 .. CRT_SIZE - 1
  /\ DOMAIN crt_buf = 0 .. CRT_SIZE - 1
  /\ Len(line) < BUFLEN

\* While a line is edited, the screen shows between its beginning and the
\* cursor just the line that readline will return, and blanks behind, also
\* over the ends of rows, where a backspace goes back to the row above, and
\* when the screen scrolls under it.
ScreenShowsLine ==
  reading /\ todo = <<>> =>
    /\ crt_pos = start + Len(line)
    /\ \A k \in 1 .. Len(line) : crt_buf[start + k - 1] = line[k]
    /\ \A k \in crt_pos .. CRT_SIZE - 1 : crt_buf[k] = BlankCell

\* The cursor stays on the screen, which shows the line that is edited
\* (cga_putc, readline).
ScreenOK == TermTypeOK /\ ScreenShowsLine
=============================================================================
