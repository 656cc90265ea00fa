--------------------------------- MODULE Strings ---------------------------------
(***************************************************************************)
(* lib/string.c: copies and comparisons in memory, and strtol.             *)
(*                                                                         *)
(* Memory is a function from addresses to bytes.  A loop is a recursive    *)
(* function, a string instruction a fold over its units.  A behaviour      *)
(* looks at one call.                                                      *)
(***************************************************************************)
EXTENDS Integers, Sequences

LOCAL INSTANCE SequencesExt
LOCAL INSTANCE FiniteSetsExt

CONSTANTS
  MemSize,     \* bytes of memory
  MaxString,   \* bound: length of a string
  Chars        \* the characters strtol sees

Addresses == 0 .. MemSize - 1

-----------------------------------------------------------------------------
\* memmove and memset: from the end if the destination overlaps the source
\* from above, in words if all is aligned.
Aligned(addr, n) == addr % 4 = 0 /\ n % 4 = 0

Backwards(dst, src, n) == src < dst /\ src + n > dst

memmove(mem, dst, src, n) ==
  LET unit == IF Aligned(src, n) /\ Aligned(dst, n) THEN 4 ELSE 1
      units == n \div unit
      order == [k \in 1 .. units |-> IF Backwards(dst, src, n) THEN units - k ELSE k - 1]
      Move(m, u) == [a \in DOMAIN m |-> IF a - dst \in u * unit .. (u + 1) * unit - 1
                                        THEN m[src + (a - dst)] ELSE m[a]]
  IN  FoldLeft(Move, mem, order)

memset(mem, v, c, n) == [a \in DOMAIN mem |-> IF a \in v .. v + n - 1 THEN c % 256 ELSE mem[a]]

-----------------------------------------------------------------------------
\* Strings are sequences that end at their first 0, or at their end.
At(s, i) == IF i <= Len(s) THEN s[i] ELSE 0

strlen(s) == CHOOSE n \in 0 .. Len(s) : At(s, n + 1) = 0 /\ \A i \in 1 .. n : s[i] # 0
strnlen(s, size) == Min({strlen(s), size})
strchr(s, c) == SelectInSeq(SubSeq(s, 1, strlen(s)), LAMBDA x : x = c)
strfind(s, c) == IF strchr(s, c) = 0 THEN strlen(s) + 1 ELSE strchr(s, c)

\* The characters that strlcpy stores, while --size > 0 holds
Roomy(size) == size - 1 > 0
Copied[s \in Seq(Nat), size \in Nat] ==
  IF Roomy(size) /\ At(s, 1) # 0 THEN <<s[1]>> \o Copied[Tail(s), size - 1] ELSE <<>>
strlcpy(dst, s, size) ==
  LET c == Copied[s, size]
  IN  [i \in DOMAIN dst |-> IF size = 0 THEN dst[i] ELSE IF i <= Len(c) THEN c[i]
                            ELSE IF i = Len(c) + 1 THEN 0 ELSE dst[i]]

Difference_Beyond(p, q, n) == At(p, 1) - At(q, 1)
Difference(p, q, n) == IF n = 0 THEN 0 ELSE At(p, 1) - At(q, 1)
strncmp[p \in Seq(Nat), q \in Seq(Nat), n \in Nat] ==
  IF n > 0 /\ At(p, 1) # 0 /\ At(p, 1) = At(q, 1) THEN strncmp[Tail(p), Tail(q), n - 1]
  ELSE Difference(p, q, n)
strcmp(p, q) == strncmp[p, q, Len(p) + Len(q) + 1]

-----------------------------------------------------------------------------
\* strtol, on characters as strings of length one
CDigits == <<"0", "1", "2", "3", "4", "5", "6", "7", "8", "9", "a", "b", "c", "d", "e", "f">>
DigitOf(c) == SelectInSeq(CDigits, LAMBDA d : d = c) - 1
IsDigit(c, base) == DigitOf(c) \in 0 .. base - 1

DigitLoop[s \in Seq(STRING), base \in Nat, val \in Nat] ==
  IF s # <<>> /\ IsDigit(s[1], base)
  THEN DigitLoop[Tail(s), base, val * base + DigitOf(s[1])]
  ELSE [val |-> val, rest |-> s]

Starts(s, prefix) == IsPrefix(prefix, s)
Blank(c) == c \in {" ", "\t"}
SkipBlanks[s \in Seq(STRING)] == IF s # <<>> /\ Blank(s[1]) THEN SkipBlanks[Tail(s)] ELSE s

\* the base, and how many characters its prefix has
Prefix(s, base) ==
  IF base \in {0, 16} /\ Starts(s, <<"0", "x">>) THEN [base |-> 16, len |-> 2]
  ELSE IF base = 0 /\ Starts(s, <<"0">>) THEN [base |-> 8, len |-> 1]
  ELSE [base |-> IF base = 0 THEN 10 ELSE base, len |-> 0]

strtol(string, base) ==
  LET s == SkipBlanks[string]
      signed == s # <<>> /\ s[1] \in {"+", "-"}
      t == IF signed THEN Tail(s) ELSE s
      prefix == Prefix(t, base)
      loop == DigitLoop[SubSeq(t, prefix.len + 1, Len(t)), prefix.base, 0]
  IN  [val |-> IF signed /\ s[1] = "-" THEN -loop.val ELSE loop.val, end |-> loop.rest]

-----------------------------------------------------------------------------
VARIABLE strCall
strVars == <<strCall>>

SomeStrings == UNION {[1 .. n -> {1, 2}] : n \in 0 .. MaxString}
Texts == UNION {[1 .. n -> Chars] : n \in 0 .. MaxString}

StrInit == strCall = [op |-> "none"]
StrNext ==
  /\ strCall.op = "none"
  /\ \/ \E n \in 0 .. MemSize : \E dst, src \in 0 .. MemSize - n :
          strCall' = [op |-> "memmove", dst |-> dst, src |-> src, n |-> n]
     \/ \E p, q \in SomeStrings, n \in 0 .. MaxString + 1 :
          strCall' = [op |-> "strings", p |-> p, q |-> q, n |-> n]
     \/ \E s \in Texts, base \in {0, 8, 10, 16} :
          strCall' = [op |-> "strtol", s |-> s, base |-> base]

-----------------------------------------------------------------------------
(***************************************************************************)
(* Properties                                                              *)
(***************************************************************************)

\* memmove copies what the source held before, however the ranges overlap and
\* whether it goes by words or bytes, and touches nothing else.
MovesAll ==
  strCall.op = "memmove" =>
    LET mem == [a \in Addresses |-> a]
        c == strCall
    IN  memmove(mem, c.dst, c.src, c.n) =
          [a \in Addresses |-> IF a - c.dst \in 0 .. c.n - 1 THEN c.src + (a - c.dst) ELSE a]

\* strlcpy fits in its buffer, with the terminating 0, and stores the longest
\* beginning of the string that does; strncmp agrees with the order of the
\* strings cut off after n characters.
Cut(s, n) == SubSeq(s, 1, Min({n, Len(s)}))
Less(p, q) ==
  \E k \in 1 .. Len(q) : At(p, k) < q[k] /\ \A i \in 1 .. k - 1 : At(p, i) = q[i]
StringsFit ==
  strCall.op = "strings" =>
    LET c == strCall
        room == [i \in 1 .. MaxString + 2 |-> 9]
        result == strlcpy(room, c.p, c.n)
    IN  /\ c.n > 0 => /\ strlen(result) <= c.n - 1
                      /\ Cut(result, strlen(result)) = Cut(c.p, c.n - 1)
        /\ \A i \in DOMAIN room : i > c.n => result[i] = 9
        /\ (strncmp[c.p, c.q, c.n] < 0) = Less(Cut(c.p, c.n), Cut(c.q, c.n))
        /\ (strncmp[c.p, c.q, c.n] = 0) = (Cut(c.p, c.n) = Cut(c.q, c.n))

\* strtol: what follows the end is no digit of the base, and what it read is a
\* number of this value written in this base.
Value(digits, base) ==
  MapThenSumSet(LAMBDA i : DigitOf(digits[i]) * base ^ (Len(digits) - i), 1 .. Len(digits))
Written(s, val, base) ==
  \E sign, prefix, n \in 0 .. Len(s) :
    LET digits == SubSeq(s, n + prefix + 1, Len(s))
        before == SubSeq(s, n + 1, n + prefix)
        value == Value(digits, base)
    IN  /\ n + prefix <= Len(s)
        /\ sign <= n /\ \A i \in 1 .. n - sign : Blank(s[i])
        /\ sign = 1 => n > 0 /\ s[n] \in {"+", "-"}
        /\ sign \in {0, 1}
        /\ before \in {<<>>} \cup (IF base = 16 THEN {<<"0", "x">>} ELSE {})
        /\ \A i \in DOMAIN digits : IsDigit(digits[i], base)
        /\ val = (IF sign = 1 /\ s[n] = "-" THEN -value ELSE value)
NumbersAreRead ==
  strCall.op = "strtol" =>
    LET c == strCall
        r == strtol(c.s, c.base)
        read == SubSeq(c.s, 1, Len(c.s) - Len(r.end))
    IN  \E base \in (IF c.base = 0 THEN {8, 10, 16} ELSE {c.base}) :
          /\ Written(read, r.val, base)
          /\ r.end = <<>> \/ ~IsDigit(r.end[1], base)
=============================================================================
