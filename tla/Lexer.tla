---------------------------------- MODULE Lexer ----------------------------------
(***************************************************************************)
(* gettoken of the shell (user/sh.c): it cuts a line into tokens in place, *)
(* one token ahead of what it returns, and overwrites with NUL what lies   *)
(* between them.                                                           *)
(*                                                                         *)
(* The line is a sequence of characters, strings of length one, and ends   *)
(* with NUL.  A pointer is a position in it, 0 is the null pointer.        *)
(***************************************************************************)
EXTENDS Integers, Sequences, FiniteSets

LOCAL INSTANCE FiniteSetsExt

CONSTANTS
  LineChars,     \* the characters of a line
  MaxLine        \* bound: length of a line

WHITESPACE == {" ", "\t", "\r", "\n"}
SYMBOLS == {"<", "|", ">", "&", ";", "(", ")"}

VARIABLES
  lexBuf,        \* the line as it is now
  lexAhead,      \* gettoken's nc, np1 and np2
  lexSeen,       \* history: the tokens returned and where they begin
  lexLine        \* history: the line as it was

lexVars == <<lexBuf, lexAhead, lexSeen, lexLine>>

\* _gettoken, from position s on
Skipped(buf, s) == Min({i \in s .. Len(buf) : buf[i] \notin WHITESPACE})
WordEnd(buf, p1) == Min({i \in p1 .. Len(buf) : buf[i] \in WHITESPACE \cup SYMBOLS \cup {"NUL"}})
Clear(buf, from, to) == [i \in DOMAIN buf |-> IF i \in from .. to THEN "NUL" ELSE buf[i]]

Cleared(buf, s, p1) == Clear(buf, s, IF buf[p1] \in SYMBOLS THEN p1 ELSE p1 - 1)
_gettoken(buf, s) ==
  LET p1 == Skipped(buf, s)
  IN  IF s = 0 \/ buf[p1] = "NUL"
      THEN [nc |-> "end", p1 |-> 0, p2 |-> 0]
      ELSE IF buf[p1] \in SYMBOLS
      THEN [nc |-> buf[p1], p1 |-> p1, p2 |-> p1 + 1]
      ELSE [nc |-> "w", p1 |-> p1, p2 |-> WordEnd(buf, p1)]

\* Both calls look for a token from s on, and clear what lies before it.
Ahead(buf, s) ==
  /\ lexAhead' = _gettoken(buf, s)
  /\ lexBuf' = IF s = 0 THEN buf ELSE Cleared(buf, s, Skipped(buf, s))

\* gettoken(s, 0)
StartLine(line) ==
  /\ lexLine = <<>>
  /\ lexLine' = line \o <<"NUL">>
  /\ Ahead(line \o <<"NUL">>, 1)
  /\ lexSeen' = <<>>

\* gettoken(0, &t)
GetToken ==
  /\ lexLine # <<>>
  /\ ~(lexSeen # <<>> /\ lexSeen[Len(lexSeen)].c = "end")
  /\ lexSeen' = Append(lexSeen, [c |-> lexAhead.nc, t |-> lexAhead.p1])
  /\ Ahead(lexBuf, lexAhead.p2)
  /\ UNCHANGED lexLine

LexInit ==
  /\ lexBuf = <<>> /\ lexSeen = <<>> /\ lexLine = <<>>
  /\ lexAhead = [nc |-> "end", p1 |-> 0, p2 |-> 0]
LexNext ==
  \/ \E n \in 0 .. MaxLine : \E line \in [1 .. n -> LineChars] : StartLine(line)
  \/ GetToken

-----------------------------------------------------------------------------
\* Every token returned is the next one of the line, and a word can be read
\* up to its NUL from the moment it is returned: one token ahead is enough,
\* also where a symbol or the end follows a word at once.
TokenStarts ==
  {i \in DOMAIN lexLine :
     \/ lexLine[i] \in SYMBOLS
     \/ /\ lexLine[i] \notin WHITESPACE \cup {"NUL"}
        /\ i = 1 \/ lexLine[i - 1] \in WHITESPACE \cup SYMBOLS}
NulAfter(buf, p) == Min({i \in p .. Len(buf) : buf[i] = "NUL"})
TokensAreWords ==
  \A k \in DOMAIN lexSeen :
    LET seen == lexSeen[k]
    IN  /\ IF k > Cardinality(TokenStarts)
           THEN seen.c = "end"
           ELSE /\ seen.t \in TokenStarts /\ Cardinality({i \in TokenStarts : i < seen.t}) = k - 1
                /\ seen.c = IF lexLine[seen.t] \in SYMBOLS THEN lexLine[seen.t] ELSE "w"
        /\ seen.c = "w" =>
             SubSeq(lexBuf, seen.t, NulAfter(lexBuf, seen.t) - 1)
               = SubSeq(lexLine, seen.t, WordEnd(lexLine, seen.t) - 1)
=============================================================================
