--------------------------------- MODULE Printfmt --------------------------------
(***************************************************************************)
(* lib/printfmt.c: formatting of numbers and strings, and snprintf.        *)
(*                                                                         *)
(* Characters are strings of length one; a format is a sequence of them,   *)
(* and arguments are given in order.  An int has INTBITS bits, a long long *)
(* twice as many.  %i, which looks up a message and prints it as %s does,  *)
(* is left out.  A behaviour looks at one call.                            *)
(***************************************************************************)
EXTENDS Strings

LOCAL INSTANCE SequencesExt
LOCAL INSTANCE FiniteSetsExt

CONSTANTS
  INTBITS,
  Ints,         \* the numbers that are printed
  Words,        \* the strings that are printed, "ESC" is not printable
  Widths        \* widths and precisions, up to 9

\* printnum: padding goes before the first digit.
Before(width, padc) == [k \in 1 .. (IF width > 1 THEN width - 1 ELSE 0) |-> padc]
PadWidth_Kept(width) == width
PadWidth(width) == width - 1
printnum[num \in Nat, base \in Nat, width \in Int, padc \in STRING] ==
  (IF num >= base THEN printnum[num \div base, base, PadWidth(width), padc] ELSE Before(width, padc))
  \o <<CDigits[(num % base) + 1]>>

\* getuint and getint
Bits(lflag) == IF lflag >= 2 THEN 2 * INTBITS ELSE INTBITS
Unsigned(x, lflag) == x % 2 ^ Bits(lflag)

-----------------------------------------------------------------------------
\* The flags of a directive, up to its conversion
Plain == [padc |-> " ", width |-> -1, precision |-> -1, lflag |-> 0, alt |-> FALSE]
ProcessPrecision(d, n) == IF d.width < 0 THEN [d EXCEPT !.width = n] ELSE [d EXCEPT !.precision = n]

Number[fmt \in Seq(STRING), n \in Nat] ==
  IF fmt # <<>> /\ IsDigit(fmt[1], 10) THEN Number[Tail(fmt), n * 10 + DigitOf(fmt[1])]
  ELSE [n |-> n, fmt |-> fmt]

\* What is left of the format and of the arguments at the conversion.  This and
\* the loop of vprintfmt are functions of the rest of the format and of how many
\* arguments were taken.
Directives == [padc : {" ", "0", "-"}, width : Int, precision : Int, lflag : Nat, alt : BOOLEAN]
Directive(rest, args, first) ==
  LET Flags[fmt \in Seq(STRING), k \in Nat, d \in Directives] ==
        LET c == IF fmt = <<>> THEN "NUL" ELSE fmt[1]
            Go(e) == Flags[Tail(fmt), k, e]
        IN  CASE c \in {"-", "0"} -> Go([d EXCEPT !.padc = c])
              [] IsDigit(c, 10) /\ c # "0" ->
                   LET m == Number[fmt, 0] IN Flags[m.fmt, k, ProcessPrecision(d, m.n)]
              [] c = "*" -> Flags[Tail(fmt), k + 1, ProcessPrecision(d, args[k])]
              [] c = "." -> Go(IF d.width < 0 THEN [d EXCEPT !.width = 0] ELSE d)
              [] c = "#" -> Go([d EXCEPT !.alt = TRUE])
              [] c = "l" -> Go([d EXCEPT !.lflag = @ + 1])
              [] OTHER -> [fmt |-> fmt, c |-> c, k |-> k, d |-> d]
  IN  Flags[rest, first, Plain]

Repeat(c, n) == [k \in 1 .. (IF n > 0 THEN n ELSE 0) |-> c]
Shown(d, c) == IF d.alt /\ c = "ESC" THEN "?" ELSE c

String(d, p) ==
  LET n == IF d.precision \in 0 .. Len(p) THEN d.precision ELSE Len(p)
      left == IF d.width > 0 /\ d.padc # "-" THEN d.width - n ELSE 0
  IN  Repeat(d.padc, left) \o [i \in 1 .. n |-> Shown(d, p[i])]
      \o Repeat(" ", IF d.padc = "-" THEN d.width - n ELSE 0)

\* A number; the sign goes before the padding and does not count.
Num(d, num, base) == printnum[num, base, d.width, d.padc]
Signed(d, x) == IF x < 0 THEN <<"-">> \o Num(d, -x, 10) ELSE Num(d, x, 10)

Radixes == [u |-> 10, o |-> 8, x |-> 16]

\* vprintfmt: text up to the next directive, its conversion, and so on; a
\* directive it does not know is text.
vprintfmt(format, args) ==
  LET Output[fmt \in Seq(STRING), k \in Nat] ==
        LET Conversion(p) ==
              LET arg == args[p.k]
                  After(out) == out \o Output[Tail(p.fmt), p.k + 1]
              IN  CASE p.c = "c" -> After(<<arg>>)
                    [] p.c = "s" -> After(String(p.d, arg))
                    [] p.c = "d" -> After(Signed(p.d, arg))
                    [] p.c \in DOMAIN Radixes -> After(Num(p.d, Unsigned(arg, p.d.lflag), Radixes[p.c]))
                    [] p.c = "p" -> After(<<"0", "x">> \o Num(p.d, Unsigned(arg, 0), 16))
                    [] p.c = "%" -> <<"%">> \o Output[Tail(p.fmt), p.k]
                    [] OTHER -> <<"%">> \o Output[Tail(fmt), p.k]
        IN  CASE fmt = <<>> -> <<>>
              [] fmt # <<>> /\ fmt[1] # "%" -> <<fmt[1]>> \o Output[Tail(fmt), k]
              [] OTHER -> Conversion(Directive(Tail(fmt), args, k))
  IN  Output[format, 1]

\* snprintf through sprintputch: [the buffer, the result]
Kept(out, n) == IF Len(out) < n THEN Len(out) ELSE n - 1
snprintf(n, fmt, args) ==
  LET Sprintputch(out) == [buf |-> SubSeq(out, 1, Kept(out, n)) \o <<"NUL">>, cnt |-> Len(out)]
  IN  Sprintputch(vprintfmt(fmt, args))

-----------------------------------------------------------------------------
VARIABLE fmtCall
fmtVars == <<fmtCall>>

FmtInit == fmtCall = [op |-> "none"]
Flag == {<<>>, <<"0">>, <<"-">>}
WidthOf(w) == IF w = 0 THEN <<>> ELSE <<CDigits[w + 1]>>
FmtNext ==
  /\ fmtCall.op = "none"
  /\ \/ \E flag \in Flag, w \in Widths, l \in {<<>>, <<"l", "l">>}, c \in {"d", "u", "o", "x", "p"}, x \in Ints :
          fmtCall' = [op |-> "number", flag |-> flag, width |-> w, conv |-> c, arg |-> x, ll |-> l # <<>>,
                      fmt |-> <<"%">> \o flag \o WidthOf(w) \o l \o <<c>>, args |-> <<x>>]
     \/ \E flag \in Flag, w, prec \in Widths, alt \in {<<>>, <<"#">>}, p \in Words, n \in 1 .. 6 :
          fmtCall' = [op |-> "string", flag |-> flag, width |-> w, precision |-> prec, arg |-> p, n |-> n,
                      fmt |-> <<"a", "%">> \o flag \o alt \o WidthOf(w) \o <<".", "*", "s", "%", "z">>,
                      args |-> <<prec, p>>]

-----------------------------------------------------------------------------
(***************************************************************************)
(* Properties                                                              *)
(***************************************************************************)

\* A number is printed as its sign or 0x, padding up to the width, and its digits
\* without a leading zero.  The padding stands before the digits and after the
\* sign, which does not count, and is of spaces, of zeros, or, with the flag "-",
\* which is to pad on the right (printfmt.c:116), of minus signs on the left.
Base == [d |-> 10, u |-> 10, o |-> 8, x |-> 16, p |-> 16]
PadOf(flag) == IF flag = <<>> THEN " " ELSE flag[1]
NumberText(c, value, digits) ==
  (IF c.conv = "p" THEN <<"0", "x">> ELSE IF value < 0 THEN <<"-">> ELSE <<>>)
  \o Repeat(PadOf(c.flag), c.width - Len(digits)) \o digits
IsNumber(digits, value, base) ==
  /\ \A i \in DOMAIN digits : IsDigit(digits[i], base)
  /\ Value(digits, base) = value
  /\ digits[1] = "0" => Len(digits) = 1
IsPrinted(c, value, out) ==
  \E n \in 1 .. Len(out) : \E digits \in {SubSeq(out, Len(out) - n + 1, Len(out))} :
    /\ IsNumber(digits, IF value < 0 THEN -value ELSE value, Base[c.conv])
    /\ out = NumberText(c, value, digits)
NumbersArePrinted ==
  fmtCall.op = "number" =>
    LET c == fmtCall
    IN  IsPrinted(c, IF c.conv = "d" THEN c.arg
                     ELSE Unsigned(c.arg, IF c.ll /\ c.conv # "p" THEN 2 ELSE 0),
                  vprintfmt(c.fmt, c.args))

FitsIn(n, r, out) ==
  /\ Len(r.buf) <= n /\ Last(r.buf) = "NUL"
  /\ IsPrefix(SubSeq(r.buf, 1, Len(r.buf) - 1), out)
  /\ Len(r.buf) < n => r.cnt = Len(r.buf) - 1
  /\ r.cnt = Len(out)

\* snprintf stays in its buffer, ends the string, and returns the length that
\* the whole output would have.
SnprintfFits ==
  fmtCall.op = "string" =>
    FitsIn(fmtCall.n, snprintf(fmtCall.n, fmtCall.fmt, fmtCall.args), vprintfmt(fmtCall.fmt, fmtCall.args))

\* A string is cut at its precision and padded up to its width, although
\* printfmt.c:12-13 has padding for numbers only: with spaces on the right if the
\* flag is "-", else with spaces or zeros on the left; a directive that is not
\* known is printed as it is.
StringText(c) ==
  LET n == Min({Len(c.arg), c.precision})
      shown == [i \in 1 .. n |-> Shown([alt |-> <<"#">> = SubSeq(c.fmt, Len(c.flag) + 3, Len(c.flag) + 3)], c.arg[i])]
  IN  IF c.flag = <<"-">>
      THEN shown \o Repeat(" ", c.width - n)
      ELSE Repeat(PadOf(c.flag), c.width - n) \o shown
StringsArePadded ==
  fmtCall.op = "string" =>
    vprintfmt(fmtCall.fmt, fmtCall.args) = <<"a">> \o StringText(fmtCall) \o <<"%", "z">>
=============================================================================
