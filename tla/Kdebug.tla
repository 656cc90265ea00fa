--------------------------------- MODULE Kdebug ---------------------------------
(***************************************************************************)
(* kern/kdebug.c: the search in the symbol table that the monitor's        *)
(* backtrace uses.                                                         *)
(*                                                                         *)
(* A stab is a type, a value and a description (the line number of an      *)
(* N_SLINE, whose value counts from its function).  Tables have indices    *)
(* from 0, as in the code.  Names and the string table are left out: the   *)
(* index of a stab stands for its name.  A behaviour looks at one table.   *)
(***************************************************************************)
EXTENDS Integers, Sequences, FiniteSets

LOCAL INSTANCE FiniteSetsExt
LOCAL INSTANCE SequencesExt

CONSTANTS
  MaxStabs,      \* bound: length of a table that is only searched
  MaxAddr,       \* bound: addresses in it
  MaxFunctions,  \* bound: functions of a file, of two files
  Sizes          \* what the code of a function may take

Stab(type, value, desc) == [n_type |-> type, n_value |-> value, n_desc |-> desc]
NoStab == Stab("UNDF", 0, 0)
StabAt(stabs, i) == stabs[i + 1]
Is(stabs, i, type) == StabAt(stabs, i).n_type = type
ValueAt(stabs, i) == StabAt(stabs, i).n_value

-----------------------------------------------------------------------------
\* stab_binsearch: [left, right]
Nearest(stabs, l, m, type) == Max({-1} \cup {i \in l .. m : Is(stabs, i, type)})

RegionRight_Past(m) == m
RegionRight(m) == m - 1
RegionOf(stabs, type, f) ==
  IF ~f.any
  THEN [left |-> f.left, right |-> f.left - 1]
  ELSE [left |-> IF f.right < f.left THEN f.right
                 ELSE Max({f.left} \cup {i \in f.left .. f.right : Is(stabs, i, type)}),
        right |-> f.right]
stab_binsearch(stabs, left, right, type, addr) ==
  LET Search[l \in Int, r \in Int, a \in Nat, found \in [left : Int, right : Int, any : BOOLEAN]] ==
        LET true_m == (l + r) \div 2
            Compare(m, value) ==
              CASE m < l -> Search[true_m + 1, r, a, found]
                [] m >= l /\ value < a -> Search[true_m + 1, r, a, [found EXCEPT !.left = m, !.any = TRUE]]
                [] m >= l /\ value > a -> Search[l, m - 1, a, [found EXCEPT !.right = RegionRight(m), !.any = TRUE]]
                [] OTHER -> Search[m, r, a + 1, [found EXCEPT !.left = m, !.any = TRUE]]
            Look(m) == Compare(m, ValueAt(stabs, m))
        IN  IF l > r THEN found ELSE Look(Nearest(stabs, l, true_m, type))
  IN  RegionOf(stabs, type, Search[left, right, addr, [left |-> left, right |-> right, any |-> FALSE]])

-----------------------------------------------------------------------------
\* debuginfo_eip, or "none" where it returns -1
NamesFile(stabs, i) == Is(stabs, i, "SOL") \/ (Is(stabs, i, "SO") /\ ValueAt(stabs, i) # 0)
Offset(addr, start) == addr - start
Info(stabs, file, fun, start, line) ==
  IF file.left = 0 \/ line.left > line.right
  THEN [none |-> TRUE]
  ELSE [none |-> FALSE,
        fn_addr |-> start,
        line |-> StabAt(stabs, line.left).n_desc,
        file |-> Max({-1} \cup {i \in file.left .. line.left : NamesFile(stabs, i)}),
        narg |-> IF fun.left < fun.right
                 THEN Min({i \in fun.left + 1 .. fun.right :
                             i = fun.right \/ ~Is(stabs, i, "PSYM")}) - fun.left - 1
                 ELSE 0]
InFunction(stabs, addr, file, fun, start) ==
  Info(stabs, file, fun, start, stab_binsearch(stabs, fun.left, fun.right, "SLINE", Offset(addr, start)))
InFile(stabs, addr, file, fun) ==
  IF fun.left <= fun.right
  THEN InFunction(stabs, addr, file, fun, ValueAt(stabs, fun.left))
  ELSE Info(stabs, file, fun, addr, stab_binsearch(stabs, file.left, file.right, "SLINE", addr))
InTable(stabs, addr, file) ==
  InFile(stabs, addr, file, stab_binsearch(stabs, file.left, file.right, "FUN", addr))
debuginfo_eip(stabs, addr) == InTable(stabs, addr, stab_binsearch(stabs, 0, Len(stabs) - 1, "SO", addr))

-----------------------------------------------------------------------------
\* The tables the compiler writes: each file begins with its N_SO, each function
\* with its N_FUN and parameters, and N_SOL tells where another file begins and
\* where it ends.  A last N_SO stands where the last file ends.  (The description
\* of N_SO and N_SOL is here the number of the file, 0 for an included one; a
\* second line of a function begins at offset second, if that is not 0.)
CodeStart == 3
Functions ==
  {f \in [size : Sizes, params : 0 .. 1, second : 0 .. 2, included : BOOLEAN] :
     f.second < f.size /\ (f.included => f.second > 0)}
FunStabs(f, addr, n, file) ==
  <<Stab("FUN", addr, 0)>> \o [i \in 1 .. f.params |-> Stab("PSYM", 0, 0)]
  \o <<Stab("SLINE", 0, 10 * n)>>
  \o (IF f.included THEN <<Stab("SOL", addr + f.second, 0)>> ELSE <<>>)
  \o (IF f.second > 0 THEN <<Stab("SLINE", f.second, 10 * n + 1)>> ELSE <<>>)
  \o (IF f.included THEN <<Stab("SOL", addr + f.size, file)>> ELSE <<>>)
CodeSize(fs) == FoldLeft(LAMBDA n, f : n + f.size, 0, fs)
AddrOf(fs, n) == CodeStart + CodeSize(SubSeq(fs, 1, n - 1))

\* functions fs, of which the first k are in file 1 and the others in file 2
FileOf(n, k) == IF n <= k THEN 1 ELSE 2
TableOf(fs, k) ==
  LET One(n) == (IF n \in {1, k + 1} THEN <<Stab("SO", AddrOf(fs, n), FileOf(n, k))>> ELSE <<>>)
                \o FunStabs(fs[n], AddrOf(fs, n), n, FileOf(n, k))
  IN  <<NoStab>> \o FlattenSeq([n \in DOMAIN fs |-> One(n)])
      \o <<Stab("SO", CodeStart + CodeSize(fs), 0)>>

VARIABLE dbgCall
dbgVars == <<dbgCall>>

DbgInit == dbgCall = [op |-> "none"]
DbgNext ==
  /\ dbgCall.op = "none"
  /\ \/ \E n \in 1 .. MaxStabs :
          \E types \in [1 .. n -> {"SO", "FUN"}], values \in [1 .. n -> 0 .. MaxAddr] :
            /\ \A i, j \in 1 .. n :
                 i < j /\ types[i] = "FUN" /\ types[j] = "FUN" => values[i] <= values[j]
            /\ \A i \in 1 .. n : types[i] = "SO" => values[i] = 0
            /\ dbgCall' = [op |-> "search", stabs |-> [i \in 1 .. n |-> Stab(types[i], values[i], 0)]]
     \/ \E n \in 1 .. MaxFunctions : \E fs \in [1 .. n -> Functions], k \in 1 .. n :
          dbgCall' = [op |-> "info", fs |-> fs, k |-> k]
DbgSpec == DbgInit /\ [][DbgNext]_dbgVars

-----------------------------------------------------------------------------
(***************************************************************************)
(* Properties                                                              *)
(***************************************************************************)

LastStab == Len(dbgCall.stabs) - 1
FunIndices == {i \in 0 .. LastStab : Is(dbgCall.stabs, i, "FUN")}
FunStarts == {ValueAt(dbgCall.stabs, i) : i \in FunIndices}
FunsUpTo(addr) == {i \in FunIndices : ValueAt(dbgCall.stabs, i) <= addr}
FunAt(addr) == stab_binsearch(dbgCall.stabs, 0, LastStab, "FUN", addr)

\* left is the last stab that begins at or before the address, right is just
\* before the next one.
Brackets(r, addr) ==
  /\ r.left = Max(FunsUpTo(addr))
  /\ r.right = Min({i - 1 : i \in FunIndices \ FunsUpTo(addr)} \cup {LastStab})

\* The comment of stab_binsearch (kern/kdebug.c:39-41) for every address that a
\* stab of the type contains: left "points to the matching stab that contains
\* 'addr'", and right "points just before the next stab".  The code does not keep
\* this: after an exact match it goes on for addr + 1.
SearchFinds ==
  dbgCall.op = "search" =>
    \A addr \in 0 .. MaxAddr + 1 : FunsUpTo(addr) # {} => Brackets(FunAt(addr), addr)

\* What holds of the search: it finds the stab that contains an address, unless
\* stabs begin at the address and one byte behind it.  Then it finds one of
\* those, or of more that follow a byte apart each.  If there is no stab of the
\* type, left > right, as the comment says (kern/kdebug.c:41-43); if all begin
\* behind the address, left need not be above right, but is no stab of the type.
AdjacentFuns(addr) == {addr, addr + 1} \subseteq FunStarts
RunFrom(addr) == {a \in addr .. MaxAddr : addr .. a \subseteq FunStarts}
SearchFindsNearby ==
  dbgCall.op = "search" =>
    \A addr \in 0 .. MaxAddr + 1 : \A r \in {FunAt(addr)} :
      /\ FunIndices = {} => r.left > r.right
      /\ FunsUpTo(addr) = {} => r.left \notin FunIndices
      /\ FunsUpTo(addr) # {} /\ ~AdjacentFuns(addr) => Brackets(r, addr)
      /\ AdjacentFuns(addr) => r.left \in FunIndices /\ ValueAt(dbgCall.stabs, r.left) \in RunFrom(addr)

Describes(stabs, f, n, second, start, r) ==
  /\ ~r.none
  /\ r.fn_addr = start
  /\ r.narg = f.params
  /\ r.line = 10 * n + second
  /\ r.file # -1
  /\ StabAt(stabs, r.file).n_desc =
       (IF f.included /\ second = 1 THEN 0 ELSE FileOf(n, dbgCall.k))

\* Files, functions or lines of function n begin at the address and one byte
\* behind it, so that one of the three searches may take the wrong one.
BothBegin(stabs, type, addr) ==
  {addr, addr + 1} \subseteq {ValueAt(stabs, i) : i \in {j \in 0 .. Len(stabs) - 1 : Is(stabs, j, type)}}
OneByteApart(stabs, f, start, offset) ==
  \/ BothBegin(stabs, "SO", start + offset)
  \/ BothBegin(stabs, "FUN", start + offset)
  \/ offset = 0 /\ f.second = 1

\* For every other address in a function the monitor shows the function, its
\* number of parameters, the line, and the file the line comes from.
InfoIsRight ==
  dbgCall.op = "info" =>
    \A stabs \in {TableOf(dbgCall.fs, dbgCall.k)}, n \in DOMAIN dbgCall.fs :
      \A f \in {dbgCall.fs[n]}, start \in {AddrOf(dbgCall.fs, n)} :
        \A offset \in 0 .. f.size - 1 :
          OneByteApart(stabs, f, start, offset)
            \/ Describes(stabs, f, n, IF f.second \in 1 .. offset THEN 1 ELSE 0, start,
                         debuginfo_eip(stabs, start + offset))
=============================================================================
