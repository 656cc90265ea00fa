------------------------------- MODULE FsProofs -------------------------------
(***************************************************************************)
(* The file system server and its clients, proved for every number of      *)
(* clients, descriptors and entries of the table: the server's table, the  *)
(* pages of struct Fd and what the clients map of them agree, and so the   *)
(* clients see what Descriptors promises.                                  *)
(***************************************************************************)
EXTENDS FsServer, FiniteSetTheorems, WellFoundedInduction, TLAPS

-----------------------------------------------------------------------------
(***************************************************************************)
(* The inductive invariant                                                 *)
(***************************************************************************)

Ids == 0 .. IdMod - 1
Modes == {"r", "w", "rw"}
FdPages == [id : Ids, offset : Nat, omode : Modes]

Typed ==
  /\ opentab \in [Entries -> [fileid : Ids, file : Files \cup {NULL}]]
  /\ page \in [Entries -> FdPages \cup {NULL}]
  /\ fdtab \in [Clients -> [FDs -> Entries \cup {NULL}]]
  /\ size \in [Files -> Nat \cup {NULL}]
  /\ client = [e \in Clients |-> client[e]]
  /\ panic \in {"no", "server"}

\* Somebody has a descriptor for an entry.
Refers(i) == \E e \in Clients, fd \in FDs : fdtab[e][fd] = i

\* An entry that somebody refers to has a page with the entry's id, and an
\* open file.
TablesAgree ==
  \A i \in Entries :
    /\ Entry(opentab[i].fileid) = i
    /\ Refers(i) => /\ page[i] # NULL /\ page[i].id = opentab[i].fileid
                    /\ opentab[i].file \in Files /\ size[opentab[i].file] # NULL

\* What a request says, and that it names an entry and may do what it asks.
FileOps == {"read", "write", "set_size", "stat", "flush"}

Asks(q) ==
  /\ q.op \in FileOps /\ q.id \in Ids /\ q.fd \in FDs
  /\ q.op \in {"read", "write"} => q.n \in Sizes
  /\ q.op = "set_size" => q.n \in Places

Names(q) ==
  LET i == Entry(q.id)
  IN  /\ opentab[i].fileid = q.id
      /\ page[i] # NULL /\ page[i].id = q.id
      /\ q.op = "read" => page[i].omode # "w"
      /\ q.op \in {"write", "set_size"} => page[i].omode # "r"

\* A request that a client waits for.
Waits(e) ==
  LET c == client[e]
  IN  \/ /\ c.req.op = "open" /\ c.then = Return
         /\ c.req.file \in Files /\ c.req.fd \in FDs
         /\ fdtab[e][c.req.fd] = NULL
         /\ \A x \in FDs : x < c.req.fd => fdtab[e][x] # NULL
      \/ c.req.op = "sync" /\ c.then = Return
      \/ Asks(c.req) /\ Names(c.req) /\ fdtab[e][c.req.fd] = Entry(c.req.id)

\* What close, dup and exit do after the flush.
Continues(e) ==
  LET c == client[e]
  IN  /\ c.then = Return \/ c.then.do \in {"unmap", "exit", "dup"}
      /\ c.then # Return => c.req.fd \in FDs /\ fdtab[e][c.req.fd] # NULL
      /\ c.then.do = "dup" => /\ c.then.old \in FDs /\ c.then.old # c.req.fd
                              /\ fdtab[e][c.then.old] # NULL

ClientOK(e) ==
  LET c == client[e]
  IN  /\ c = Client(c.pc, c.req, c.then, c.r)
      /\ c.pc \in {"run", "send", "recv", "done", "unmap", "dup", "exit", "dead"}
      /\ c.pc # "done" => c.r = NULL
      /\ c.pc = "dead" => fdtab[e] = Closed
      /\ c.pc \in {"send", "recv"} => Waits(e)
      /\ c.pc \in {"send", "recv", "done", "unmap"} => Continues(e)
      /\ c.pc = "unmap" => c.then # Return
      /\ c.pc = "dup" => /\ c.req.fd \in FDs /\ fdtab[e][c.req.fd] = NULL
                         /\ c.then.old \in FDs /\ fdtab[e][c.then.old] # NULL

\* The request the server works on, and the answer with a page.
Handles(q) ==
  \/ q.op = "open" /\ q.file \in Files
  \/ q.op = "sync"
  \/ Asks(q) /\ Names(q)

Opens(i) ==
  /\ i \in Entries /\ ~Refers(i)
  /\ server.r = Failed("found", opentab[i].file)
  /\ opentab[i].file \in Files /\ size[opentab[i].file] # NULL
  /\ page[i] # NULL /\ page[i].id = opentab[i].fileid /\ page[i].offset = 0

\* A write under way knows its file.
Writes(q) ==
  LET f == opentab[Entry(q.id)].file
  IN  q.op = "write" /\ f \in Files /\ size[f] # NULL

\* The server works on a request whose result is still to come.
Begun == {"serve", "extend", "write"}

ServerOK ==
  /\ server = Server(server.pc, server.whom, server.req, server.r, server.pg)
  /\ server.pc \in Begun \cup {"recv", "advance", "reply"}
  /\ server.whom \in Clients \cup {NULL}
  /\ server.pc = "recv" => server.whom = NULL
  /\ \A e \in Clients : client[e].pc = "recv" <=> server.whom = e
  /\ server.pc \in Begun \cup {"advance"} => server.pg = NULL
  /\ server.pc \in Begun => Handles(server.req)
  /\ server.pc \in Begun /\ server.whom # NULL => server.req = client[server.whom].req
  /\ server.pc \in {"extend", "write"} => Writes(server.req)
  /\ server.pc = "advance" => /\ server.req.id \in Ids /\ page[Entry(server.req.id)] # NULL
                              /\ server.r.n \in Nat
  /\ server.pc = "reply" /\ server.pg # NULL =>
       /\ Opens(server.pg)
       /\ server.whom # NULL => client[server.whom].req.op = "open"

FsInv == Typed /\ TablesAgree /\ (\A e \in Clients : ClientOK(e)) /\ ServerOK

-----------------------------------------------------------------------------
(***************************************************************************)
(* Ids, pages, numbers                                                     *)
(***************************************************************************)

LEMMA Division ==
  ASSUME NEW S \in Nat, S > 0, NEW i \in Nat
  PROVE  i = S * (i \div S) + (i % S) /\ i \div S \in Nat /\ i % S \in 0 .. S - 1
<1>1. i = S * (i \div S) + (i % S)
  BY SMTT(30)
<1>2. i \div S \in Nat
  BY SMTT(30)
<1>3. i % S \in 0 .. S - 1
  OBVIOUS
<1> QED
  BY <1>1, <1>2, <1>3

\* There is one quotient.
LEMMA Remainder ==
  ASSUME NEW S \in Nat, S > 0, NEW q \in Int, NEW r \in 0 .. S - 1, S * q + r \in Nat
  PROVE  (S * q + r) % S = r
<1> DEFINE x == S * q + r
           p == x \div S
           d == q - p
<1>1. x = S * p + (x % S) /\ p \in Nat /\ x % S \in 0 .. S - 1
  BY Division
<1>2. S * q \in Int /\ S * p \in Int
  BY <1>1
<1>3. S * q - S * p = (x % S) - r
  BY <1>1, <1>2
<1>4. d \in Int /\ S * d = S * q - S * p
  BY <1>1
<1>5. -S < S * d /\ S * d < S
  BY <1>1, <1>3, <1>4
<1> HIDE DEF d
<1>6. d = 0
  <2>1. CASE d >= 1
    <3>1. S * d >= S
      BY <1>4, <2>1
    <3> QED
      BY <1>4, <1>5, <3>1
  <2>2. CASE d <= -1
    <3>1. S * (-d) >= S
      BY <1>4, <2>2
    <3>2. S * (-d) = -(S * d)
      BY <1>4
    <3> QED
      BY <1>4, <1>5, <3>1, <3>2
  <2> QED
    BY <1>4, <2>1, <2>2
<1> QED
  BY <1>1, <1>3, <1>4, <1>6

\* There are ids for two uses of every entry at least.
LEMMA IdSpace == \E k \in Nat : IdMod = MAXOPEN * (2 * k) /\ MAXOPEN <= IdMod
<1> DEFINE m == 2 * MAXOPEN
           k == IdMod \div m
<1>1. MAXOPEN \in Nat /\ MAXOPEN > 0 /\ IdMod \in Nat /\ IdMod > 0
  BY IdAssumption
<1>2. k \in Nat /\ IdMod = m * k + (IdMod % m)
  <2>1. m \in Nat /\ m > 0
    BY <1>1
  <2>2. \A S \in Nat : S > 0 => IdMod = S * (IdMod \div S) + (IdMod % S) /\ IdMod \div S \in Nat
    BY <1>1, Division
  <2> HIDE DEF m
  <2> QED
    BY <2>1, <2>2
<1>3. IdMod = MAXOPEN * (2 * k)
  BY <1>1, <1>2, IdAssumption
<1> HIDE DEF k
<1>4. MAXOPEN <= IdMod
  <2>1. k # 0
    BY <1>1, <1>3
  <2>2. 2 * k >= 1 /\ 2 * k \in Nat
    BY <1>2, <2>1
  <2> QED
    BY <1>1, <1>3, <2>2
<1> QED
  BY <1>2, <1>3, <1>4

\* An id belongs to one entry, and the next id of an entry to the same one.
LEMMA IdTypes ==
  ASSUME NEW id \in Ids
  PROVE  /\ Entry(id) \in Entries
         /\ (id + MAXOPEN) % IdMod \in Ids
         /\ Entry((id + MAXOPEN) % IdMod) = Entry(id)
<1> DEFINE q == id \div MAXOPEN
           r == id % MAXOPEN
<1>1. id \in Nat /\ MAXOPEN \in Nat /\ MAXOPEN > 0 /\ IdMod \in Nat /\ IdMod > 0
  BY IdAssumption DEF Ids
<1>2. id = MAXOPEN * q + r /\ q \in Nat /\ r \in 0 .. MAXOPEN - 1
  BY <1>1, Division
<1>3. PICK k \in Nat : IdMod = MAXOPEN * (2 * k) /\ MAXOPEN <= IdMod
  BY IdSpace
<1> HIDE DEF q, r
<1>6. (id + MAXOPEN) % IdMod \in Ids
  BY <1>1 DEF Ids
<1>7. Entry(id) = r
  BY DEF Entry, r
<1>8. (id + MAXOPEN) % IdMod = MAXOPEN * (q + 1) + r
      \/ (id + MAXOPEN) % IdMod = MAXOPEN * (q + 1 - 2 * k) + r
  <2>1. id + MAXOPEN = MAXOPEN * (q + 1) + r
    BY <1>1, <1>2
  <2>2. CASE id + MAXOPEN < IdMod
    <3>1. (id + MAXOPEN) % IdMod = id + MAXOPEN
      BY <1>1, <2>2, Remainder, IdMod * 0 + (id + MAXOPEN) = id + MAXOPEN
    <3> QED
      BY <2>1, <3>1
  <2>3. CASE id + MAXOPEN >= IdMod
    <3> DEFINE s == id + MAXOPEN - IdMod
    <3>1. s \in 0 .. IdMod - 1
      BY <1>1, <1>3, <2>3 DEF Ids
    <3>2. IdMod * 1 + s = id + MAXOPEN
      BY <1>1
    <3>3. (id + MAXOPEN) % IdMod = s
      BY <1>1, <3>1, <3>2, Remainder
    <3>4. s = (MAXOPEN * (q + 1) + r) - (MAXOPEN * (2 * k))
      <4> DEFINE a == MAXOPEN * (q + 1) + r
                 b == MAXOPEN * (2 * k)
      <4>1. id + MAXOPEN = a /\ IdMod = b
        BY <1>3, <2>1
      <4> HIDE DEF a, b
      <4>2. s = a - b
        BY <1>1, <4>1
      <4> QED
        BY <4>2 DEF a, b
    <3>5. MAXOPEN * (q + 1) - MAXOPEN * (2 * k) = MAXOPEN * (q + 1 - 2 * k)
      BY <1>1, <1>2, <1>3
    <3>6. MAXOPEN * (q + 1) \in Int /\ MAXOPEN * (2 * k) \in Int
      BY <1>1, <1>2, <1>3
    <3> QED
      BY <1>2, <3>3, <3>4, <3>5, <3>6
  <2> QED
    BY <1>1, <2>2, <2>3
<1>9. Entry((id + MAXOPEN) % IdMod) = r
  <2>1. (id + MAXOPEN) % IdMod \in Nat
    BY <1>1
  <2>2. q + 1 \in Int /\ q + 1 - 2 * k \in Int
    BY <1>2, <1>3
  <2>3. \A n \in Int : MAXOPEN * n + r \in Nat => (MAXOPEN * n + r) % MAXOPEN = r
    BY <1>1, <1>2, Remainder
  <2> QED
    BY <1>8, <2>1, <2>2, <2>3 DEF Entry
<1> QED
  BY <1>2, <1>6, <1>7, <1>9 DEF Entries

LEMMA PagesAreNotNull == NULL \notin FdPages
<1>1. FdPages \subseteq StructFds
  <2> SUFFICES ASSUME NEW r \in FdPages
               PROVE  r \in StructFds
    OBVIOUS
  <2>1. r = [id |-> r.id, offset |-> r.offset, omode |-> r.omode]
        /\ r.id \in Ids /\ r.offset \in Nat /\ r.omode \in Modes
    BY DEF FdPages
  <2>2. r.id \in Nat
    BY <2>1, IdAssumption DEF Ids
  <2> HIDE DEF Ids
  <2> QED
    BY <2>1, <2>2 DEF StructFds, Modes
<1> QED
  BY <1>1, NULLAssumption

\* A page with more references than the server's is one somebody refers to.
LEMMA References ==
  ASSUME Typed, NEW i \in Entries
  PROVE  /\ Mapping(i) = {} <=> ~Refers(i)
         /\ pageref(i) > 1 <=> page[i] # NULL /\ Refers(i)
         /\ pageref(i) <= 1 <=> ~(page[i] # NULL /\ Refers(i))
<1>1. Mapping(i) = {} <=> ~Refers(i)
  <2>1. ASSUME NEW e \in Clients, NEW fd \in FDs, fdtab[e][fd] = i
        PROVE  <<e, fd>> \in Mapping(i)
    BY <2>1 DEF Mapping
  <2>2. ASSUME NEW x \in Mapping(i)
        PROVE  Refers(i)
    BY DEF Mapping, Refers
  <2> QED
    BY <2>1, <2>2 DEF Refers
<1>2. IsFiniteSet(Mapping(i))
  BY ClientsAssumption, FDsAssumption, FS_Product, FS_Subset DEF Mapping
<1>3. Cardinality(Mapping(i)) \in Nat /\ (Cardinality(Mapping(i)) = 0 <=> Mapping(i) = {})
  BY <1>2, FS_CardinalityType, FS_EmptySet
<1> QED
  BY <1>1, <1>3 DEF pageref

LEMMA LeastType ==
  ASSUME NEW S, S \subseteq Nat, S # {}
  PROVE  Least(S) \in S /\ \A y \in S : Least(S) <= y
<1>1. \E x \in S : \A y \in S : ~ (<<y, x>> \in OpToRel(<, Nat))
  BY NatLessThanWellFounded, WFMin
<1>2. PICK x \in S : \A y \in S : ~ (<<y, x>> \in OpToRel(<, Nat))
  BY <1>1
<1>3. \A y \in S : ~ (y < x)
  BY <1>2 DEF OpToRel
<1>4. \A y \in S : x <= y
  BY <1>3
<1> QED
  BY <1>4 DEF Least

-----------------------------------------------------------------------------
(***************************************************************************)
(* What a step leaves alone                                                *)
(***************************************************************************)

\* Entries that somebody refers to keep their id, their file and their mode.
EntriesKept ==
  \A i \in Entries : Refers(i) =>
    /\ opentab'[i] = opentab[i]
    /\ page'[i] # NULL /\ page'[i].id = page[i].id /\ page'[i].omode = page[i].omode

LEMMA ClientKept ==
  ASSUME FsInv, EntriesKept, NEW x \in Clients, client'[x] = client[x], fdtab'[x] = fdtab[x]
  PROVE  ClientOK(x)'
<1>1. ClientOK(x)
  BY DEF FsInv
<1>2. ASSUME Waits(x)
      PROVE  Waits(x)'
  <2> DEFINE q == client[x].req
  <2>1. CASE Asks(q) /\ Names(q) /\ fdtab[x][q.fd] = Entry(q.id)
    <3>1. Asks(client[x].req)'
      BY <2>1 DEF Asks
    <3>2. q.fd \in FDs /\ Entry(q.id) \in Entries
      BY <2>1, IdTypes DEF Asks
    <3>3. Refers(Entry(q.id))
      BY <2>1, <3>2 DEF Refers
    <3>4. Names(client[x].req)'
      BY <2>1, <3>2, <3>3 DEF Names, EntriesKept, Entry
    <3> QED
      BY <2>1, <3>1, <3>4 DEF Waits, Entry
  <2> QED
    BY <1>2, <2>1 DEF Waits
<1> QED
  BY <1>1, <1>2 DEF ClientOK, Continues

LEMMA TablesKept ==
  ASSUME FsInv, EntriesKept,
         \A i \in Entries : Refers(i)' => Refers(i),
         \A i \in Entries : Entry(opentab'[i].fileid) = i,
         \A f \in Files : size[f] # NULL => size'[f] # NULL
  PROVE  TablesAgree'
  BY DEF FsInv, TablesAgree, EntriesKept, Entry

\* A step of one client that touches its own descriptors, or the offset of an
\* entry that it refers to
LEMMA OwnStep ==
  ASSUME FsInv, NEW e \in Clients,
         client[e].pc # "recv", client'[e].pc # "recv",
         \A x \in Clients \ {e} : client'[x] = client[x] /\ fdtab'[x] = fdtab[x],
         UNCHANGED <<opentab, size, server, panic>>, Typed', EntriesKept,
         \A i \in Entries : ~Refers(i) => page'[i] = page[i],
         \A i \in Entries : Refers(i)' => Refers(i),
         ClientOK(e)'
  PROVE  FsInv'
<1>1. \A x \in Clients : ClientOK(x)'
  BY ClientKept
<1>2. TablesAgree'
  BY TablesKept DEF FsInv, TablesAgree
<1>3. ServerOK'
  <2>1. ServerOK
    BY DEF FsInv
  <2>2. \A x \in Clients : client'[x].pc = "recv" <=> server.whom = x
    BY <2>1 DEF ServerOK
  <2>3. \A x \in Clients : server.whom = x => client'[x] = client[x]
    BY <2>1 DEF ServerOK
  <2>4. ASSUME NEW q, Handles(q)
        PROVE  Handles(q)'
    <3>1. ASSUME Asks(q), Names(q)
          PROVE  Asks(q)' /\ Names(q)'
      <4>1. Entry(q.id) \in Entries
        BY <3>1, IdTypes DEF Asks
      <4> QED
        BY <3>1, <4>1 DEF Asks, Names, EntriesKept, Entry
    <3> QED
      BY <2>4, <3>1 DEF Handles
  <2>5. server.pc = "advance" => page'[Entry(server.req.id)] # NULL
    BY <2>1, IdTypes DEF ServerOK, EntriesKept
  <2>6. ASSUME NEW i, Opens(i)
        PROVE  Opens(i)'
    BY <2>6 DEF Opens
  <2>7. server' = server
    OBVIOUS
  <2>8. server.pc \in Begun => Handles(server.req)'
    BY <2>1, <2>4 DEF ServerOK
  <2>9. server.pc = "reply" /\ server.pg # NULL => Opens(server.pg)'
    BY <2>1, <2>6 DEF ServerOK
  <2>10. server.pc \in Begun /\ server.whom # NULL => server.req = client'[server.whom].req
    BY <2>1, <2>3 DEF ServerOK
  <2>11. /\ server.pc = "reply" /\ server.pg # NULL /\ server.whom # NULL
              => client'[server.whom].req.op = "open"
    BY <2>1, <2>3 DEF ServerOK
  <2>12. (server.pc \in {"extend", "write"} => Writes(server.req))'
    BY <2>1, <2>7 DEF ServerOK, Writes, Entry
  <2>13. (server.pc \in Begun => Handles(server.req))'
    BY <2>7, <2>8 DEF Handles, Asks, Names, Begun
  <2>14. (server.pc = "reply" /\ server.pg # NULL => Opens(server.pg))'
    BY <2>7, <2>9 DEF Opens, Refers
  <2> QED
    BY <2>1, <2>2, <2>5, <2>7, <2>10, <2>11, <2>12, <2>13, <2>14 DEF ServerOK, Entry, Begun
<1> QED
  BY <1>1, <1>2, <1>3 DEF FsInv

-----------------------------------------------------------------------------
(***************************************************************************)
(* The steps of a client                                                   *)
(***************************************************************************)

\* A client goes on, and no page or descriptor changes.
LEMMA Going ==
  ASSUME FsInv, NEW e \in Clients, NEW c, Goto(e, c),
         client[e].pc # "recv", c.pc # "recv",
         UNCHANGED <<opentab, page, fdtab, size, server, panic>>,
         ClientOK(e)'
  PROVE  FsInv'
<1>1. client'[e] = c /\ \A x \in Clients \ {e} : client'[x] = client[x]
  BY DEF FsInv, Typed, Goto
<1>2. Typed'
  BY DEF FsInv, Typed, Goto, Entries
<1>3. \A i : Refers(i)' <=> Refers(i)
  BY DEF Refers
<1>4. EntriesKept
  BY DEF FsInv, TablesAgree, EntriesKept
<1> QED
  BY <1>1, <1>2, <1>3, <1>4, OwnStep

\* A client makes a request.
LEMMA Calling ==
  ASSUME FsInv, NEW e \in Clients, NEW req, NEW then, Call(e, req, then),
         client[e].pc \in {"run", "exit"}, Waits(e)', Continues(e)'
  PROVE  FsInv'
<1> DEFINE c == Client("send", req, then, NULL)
<1>1. client'[e] = c
  BY DEF FsInv, Typed, Call, Goto
<1>2. ClientOK(e)'
  BY <1>1 DEF ClientOK, Client
<1> QED
  BY <1>2, Going DEF Call, Client

\* A client asks for something with a descriptor.
LEMMA Asking ==
  ASSUME FsInv, NEW e \in Clients, NEW op \in FileOps, NEW fd \in FDs, NEW n, NEW then,
         Ask(e, op, fd, n, then),
         client[e].pc \in {"run", "exit"}, fdtab[e][fd] # NULL,
         op \in {"read", "write"} => n \in Sizes,
         op = "set_size" => n \in Places,
         op = "read" => Fd(e, fd).omode # "w",
         op \in {"write", "set_size"} => Fd(e, fd).omode # "r",
         then = Return \/ then.do \in {"unmap", "exit", "dup"},
         then.do = "dup" => then.old \in FDs /\ then.old # fd /\ fdtab[e][then.old] # NULL
  PROVE  FsInv'
<1> DEFINE i == fdtab[e][fd]
           q == Request(op, page[i].id, n, fd)
<1>1. Call(e, q, then)
  BY DEF Ask, Fd
<1>2. UNCHANGED <<opentab, page, fdtab, size>> /\ client'[e] = Client("send", q, then, NULL)
  BY <1>1 DEF FsInv, Typed, Call, Goto
<1>3. i \in Entries /\ Refers(i)
  BY DEF FsInv, Typed, Refers
<1>4. page[i] \in FdPages /\ page[i].id = opentab[i].fileid /\ Entry(page[i].id) = i
  BY <1>3 DEF FsInv, Typed, TablesAgree
<1>5. Asks(q)
  BY <1>4 DEF Asks, Request, FdPages
<1>6. Names(q)
  BY <1>4, <1>3 DEF Names, Request, Fd, FsInv, TablesAgree
<1> HIDE DEF q
<1>7. client'[e].req = q /\ q.fd = fd /\ q.id = page[i].id /\ client'[e].then = then
  BY <1>2 DEF Client, q, Request
<1>8. Asks(client[e].req)' /\ Names(client[e].req)'
  BY <1>2, <1>5, <1>6, <1>7 DEF Asks, Names, Entry
<1>9. Waits(e)'
  <2>1. fdtab'[e][q.fd] = Entry(q.id)
    BY <1>2, <1>4, <1>7
  <2> QED
    BY <1>7, <1>8, <2>1 DEF Waits, Entry
<1>10. Continues(e)'
  BY <1>2, <1>7 DEF Continues
<1> QED
  BY <1>1, <1>9, <1>10, Calling

\* A client changes one of its descriptors, and is then where c says.
LEMMA Rebinding ==
  ASSUME FsInv, NEW e \in Clients, NEW fd \in FDs, NEW i \in Entries \cup {NULL}, NEW c,
         fdtab' = [fdtab EXCEPT ![e][fd] = i], Goto(e, c),
         i # NULL => Refers(i),
         client[e].pc # "recv", c.pc # "recv",
         UNCHANGED <<opentab, page, size, server, panic>>,
         ClientOK(e)'
  PROVE  FsInv'
<1>1. client'[e] = c /\ \A x \in Clients \ {e} : client'[x] = client[x] /\ fdtab'[x] = fdtab[x]
  BY DEF FsInv, Typed, Goto
<1>2. Typed'
  <2>1. fdtab' \in [Clients -> [FDs -> Entries \cup {NULL}]]
    BY DEF FsInv, Typed
  <2> QED
    BY <2>1 DEF FsInv, Typed, Goto, Entries
<1>3. \A k \in Entries : Refers(k)' => Refers(k)
  <2> SUFFICES ASSUME NEW k \in Entries, NEW x \in Clients, NEW y \in FDs, fdtab'[x][y] = k
               PROVE  Refers(k)
    BY DEF Refers
  <2>1. fdtab'[x][y] = fdtab[x][y] \/ (x = e /\ y = fd /\ fdtab'[x][y] = i)
    BY DEF FsInv, Typed
  <2>2. k # NULL
    BY NULLAssumption DEF Entries
  <2> QED
    BY <2>1, <2>2 DEF Refers
<1>4. EntriesKept
  BY DEF FsInv, TablesAgree, EntriesKept
<1> QED
  BY <1>1, <1>2, <1>3, <1>4, OwnStep

LEMMA OpenCall ==
  ASSUME FsInv, NEW e \in Clients, NEW f \in Files, NEW flags, open(e, f, flags)
  PROVE  FsInv'
<1> DEFINE fd == Least(Free(e))
           c == Client("send", Open(f, flags, fd), Return, NULL)
<1>1. fd \in Free(e) /\ \A y \in Free(e) : fd <= y
  <2>1. Free(e) \subseteq Nat /\ Free(e) # {}
    BY FDsAssumption DEF Free, open
  <2> HIDE DEF fd
  <2> QED
    BY <2>1, LeastType DEF fd
<1> HIDE DEF fd
<1>2. fd \in FDs /\ fdtab[e][fd] = NULL
  BY <1>1 DEF Free
<1>3. \A x \in FDs : x < fd => fdtab[e][x] # NULL
  BY <1>1, <1>2, FDsAssumption DEF Free
<1>4. Call(e, Open(f, flags, fd), Return)
  BY DEF open, fd
<1>5. client'[e] = c /\ UNCHANGED fdtab
  BY <1>4 DEF FsInv, Typed, Call, Goto
<1>6. Waits(e)' /\ Continues(e)'
  <2>1. /\ client'[e].req.op = "open" /\ client'[e].then = Return
        /\ client'[e].req.file = f /\ client'[e].req.fd = fd
    BY <1>5 DEF Client, Open
  <2> QED
    BY <1>2, <1>3, <1>5, <2>1 DEF Waits, Continues, Return, After
<1> QED
  BY <1>4, <1>6, Calling DEF open, Running, At

LEMMA SyncCall ==
  ASSUME FsInv, NEW e \in Clients, sync(e)
  PROVE  FsInv'
<1>1. Call(e, Request("sync", 0, 0, 0), Return)
  BY DEF sync
<1>2. client'[e] = Client("send", Request("sync", 0, 0, 0), Return, NULL)
  BY <1>1 DEF FsInv, Typed, Call, Goto
<1>3. Waits(e)' /\ Continues(e)'
  BY <1>2 DEF Waits, Continues, Client, Request, Return, After
<1> QED
  BY <1>1, <1>3, Calling DEF sync, Running, At

LEMMA FdCalls ==
  ASSUME FsInv, NEW e \in Clients, NEW fd \in FDs,
         \/ \E n \in Sizes : read(e, fd, n) \/ write(e, fd, n)
         \/ \E n \in Places : ftruncate(e, fd, n)
         \/ fstat(e, fd) \/ close(e, fd)
  PROVE  FsInv'
<1>1. client[e].pc = "run" /\ fdtab[e][fd] # NULL
  BY DEF read, write, ftruncate, fstat, close, Running, At, fd_lookup
<1>2. Return.do = "return" /\ After("unmap", NULL).do = "unmap"
  BY DEF Return, After
<1>3. ASSUME NEW n \in Sizes, read(e, fd, n)
      PROVE  FsInv'
  BY <1>1, <1>2, <1>3, Asking DEF read, FileOps
<1>4. ASSUME NEW n \in Sizes, write(e, fd, n)
      PROVE  FsInv'
  BY <1>1, <1>2, <1>4, Asking DEF write, FileOps
<1>5. ASSUME NEW n \in Places, ftruncate(e, fd, n)
      PROVE  FsInv'
  BY <1>1, <1>2, <1>5, Asking DEF ftruncate, FileOps
<1>6. ASSUME fstat(e, fd)
      PROVE  FsInv'
  BY <1>1, <1>2, <1>6, Asking DEF fstat, FileOps
<1>7. ASSUME close(e, fd)
      PROVE  FsInv'
  BY <1>1, <1>2, <1>7, Asking DEF close, FileOps
<1> QED
  BY <1>3, <1>4, <1>5, <1>6, <1>7

LEMMA CloseAllStep ==
  ASSUME FsInv, NEW e \in Clients, CloseAll(e)
  PROVE  FsInv'
<1> DEFINE fd == Least(FDs \ Free(e))
<1>1. fd \in FDs \ Free(e)
  <2>1. FDs \ Free(e) \subseteq Nat /\ FDs \ Free(e) # {}
    BY FDsAssumption DEF Free, CloseAll
  <2> QED
    BY <2>1, LeastType
<1>2. Ask(e, "flush", fd, 0, After("exit", NULL)) /\ client[e].pc = "exit"
  BY DEF CloseAll, At
<1> HIDE DEF fd
<1>3. fd \in FDs /\ fdtab[e][fd] # NULL
  BY <1>1 DEF Free
<1> QED
  BY <1>2, <1>3, Asking DEF After, FileOps

\* dup of a free number goes at once; otherwise what it had is closed first.
LEMMA DupCall ==
  ASSUME FsInv, NEW e \in Clients, NEW old \in FDs, NEW new \in FDs, dup(e, old, new)
  PROVE  FsInv'
<1>1. client[e].pc = "run" /\ fdtab[e][old] # NULL /\ old # new
  BY DEF dup, Running, At, fd_lookup
<1>2. CASE fdtab[e][new] # NULL
  <2>1. Ask(e, "flush", new, 0, After("dup", old))
    BY <1>2 DEF dup, fd_lookup
  <2> QED
    BY <1>1, <1>2, <2>1, Asking DEF After, FileOps
<1>3. CASE fdtab[e][new] = NULL
  <2> DEFINE i == fdtab[e][old]
  <2>1. /\ fdtab' = [fdtab EXCEPT ![e][new] = i]
        /\ UNCHANGED <<opentab, page, size, client, server, panic>>
    BY <1>3 DEF dup, fd_lookup
  <2>2. i \in Entries /\ Refers(i)
    BY <1>1 DEF FsInv, Typed, Refers
  <2>3. Goto(e, client[e])
    BY <2>1 DEF Goto, FsInv, Typed
  <2>4. ClientOK(e)'
    BY <1>1, <2>1 DEF FsInv, ClientOK
  <2> QED
    BY <1>1, <2>1, <2>2, <2>3, <2>4, Rebinding
<1> QED
  BY <1>2, <1>3

LEMMA DoneStep ==
  ASSUME FsInv, NEW e \in Clients, Done(e)
  PROVE  FsInv'
<1> DEFINE c == IF client[e].then = Return THEN Idle
                ELSE [client[e] EXCEPT !.pc = "unmap", !.r = NULL]
<1>1. client[e].pc = "done" /\ ClientOK(e) /\ Goto(e, c)
      /\ UNCHANGED <<opentab, page, fdtab, size, server, panic>>
  BY DEF Done, At, FsInv
<1>2. client'[e] = c
  BY <1>1 DEF Goto, FsInv, Typed
<1>3. c = Idle \/ (client[e].then # Return /\ c = Client("unmap", client[e].req, client[e].then, NULL))
  BY <1>1 DEF ClientOK, Client
<1>4. ClientOK(e)' /\ c.pc # "recv"
  <2> HIDE DEF c
  <2>1. CASE c = Idle
    BY <1>2, <2>1 DEF ClientOK, Client, Idle
  <2>2. CASE /\ client[e].then # Return
             /\ c = Client("unmap", client[e].req, client[e].then, NULL)
    BY <1>1, <1>2, <2>2 DEF ClientOK, Client, Continues
  <2> QED
    BY <1>3, <2>1, <2>2
<1> QED
  BY <1>1, <1>4, Going

LEMMA UnmapStep ==
  ASSUME FsInv, NEW e \in Clients, Unmap(e)
  PROVE  FsInv'
<1> DEFINE fd == client[e].req.fd
           then == client[e].then
           c == IF then.do = "unmap" THEN Idle
                ELSE IF then.do = "exit" THEN [client[e] EXCEPT !.pc = "exit"]
                ELSE [client[e] EXCEPT !.pc = "dup"]
<1>1. client[e].pc = "unmap" /\ ClientOK(e) /\ Continues(e) /\ then # Return
  BY DEF Unmap, At, FsInv, ClientOK
<1>2. fdtab' = [fdtab EXCEPT ![e][fd] = NULL] /\ Goto(e, c)
      /\ UNCHANGED <<opentab, page, size, server, panic>>
  BY DEF Unmap
<1>3. fd \in FDs /\ then.do \in {"unmap", "exit", "dup"}
  BY <1>1 DEF Continues
<1>4. client'[e] = c /\ fdtab'[e][fd] = NULL /\ \A x \in FDs \ {fd} : fdtab'[e][x] = fdtab[e][x]
  BY <1>2, <1>3 DEF Goto, FsInv, Typed
<1>5. \/ c = Idle
      \/ c = Client("exit", client[e].req, then, NULL)
      \/ c = Client("dup", client[e].req, then, NULL) /\ then.do = "dup"
  BY <1>1, <1>3 DEF ClientOK, Client
<1>6. ClientOK(e)'
  <2>1. then.do = "dup" => then.old \in FDs /\ fdtab'[e][then.old] # NULL
    BY <1>1, <1>4 DEF Continues
  <2> HIDE DEF c
  <2>2. CASE c = Client("dup", client[e].req, then, NULL) /\ then.do = "dup"
    BY <1>3, <1>4, <2>1, <2>2 DEF ClientOK, Client
  <2>3. CASE c = Idle \/ c = Client("exit", client[e].req, then, NULL)
    BY <1>4, <2>3 DEF ClientOK, Client, Idle
  <2> QED
    BY <1>5, <2>2, <2>3
<1>7. c.pc # "recv"
  <2> HIDE DEF c
  <2> QED
    BY <1>5 DEF Client, Idle
<1> QED
  BY <1>1, <1>2, <1>3, <1>6, <1>7, Rebinding

LEMMA DupMapStep ==
  ASSUME FsInv, NEW e \in Clients, DupMap(e)
  PROVE  FsInv'
<1> DEFINE fd == client[e].req.fd
           i == fdtab[e][client[e].then.old]
<1>1. /\ client[e].pc = "dup" /\ fd \in FDs
      /\ client[e].then.old \in FDs /\ i # NULL
  BY DEF DupMap, At, FsInv, ClientOK
<1>2. fdtab' = [fdtab EXCEPT ![e][fd] = i] /\ Goto(e, Idle)
      /\ UNCHANGED <<opentab, page, size, server, panic>>
  BY DEF DupMap
<1>3. i \in Entries /\ Refers(i)
  BY <1>1 DEF FsInv, Typed, Refers
<1>4. client'[e] = Idle
  BY <1>2 DEF Goto, FsInv, Typed
<1>5. ClientOK(e)'
  BY <1>4 DEF ClientOK, Client, Idle
<1> QED
  BY <1>1, <1>2, <1>3, <1>5, Rebinding DEF Idle, Client

LEMMA ExitStep ==
  ASSUME FsInv, NEW e \in Clients, Exit(e)
  PROVE  FsInv'
<1>1. client[e].pc = "run" /\ ClientOK(e) /\ Goto(e, [client[e] EXCEPT !.pc = "exit"])
      /\ UNCHANGED <<opentab, page, fdtab, size, server, panic>>
  BY DEF Exit, Running, At, FsInv
<1>2. [client[e] EXCEPT !.pc = "exit"] = Client("exit", client[e].req, client[e].then, NULL)
  BY <1>1 DEF ClientOK, Client
<1>3. client'[e] = Client("exit", client[e].req, client[e].then, NULL)
  BY <1>1, <1>2 DEF Goto, FsInv, Typed
<1>4. ClientOK(e)'
  BY <1>3 DEF ClientOK, Client
<1> QED
  BY <1>1, <1>2, <1>4, Going DEF Client

\* A child begins with the descriptors of its parent.
LEMMA ChildStep ==
  ASSUME FsInv, NEW e \in Clients, NEW c \in Clients, Child(e, c)
  PROVE  FsInv'
<1>1. /\ client[c].pc = "dead" /\ Goto(c, Idle)
      /\ fdtab' = [fdtab EXCEPT ![c] = fdtab[e]]
      /\ UNCHANGED <<opentab, page, size, server, panic>>
  BY DEF Child
<1>2. client'[c] = Idle
      /\ \A x \in Clients \ {c} : client'[x] = client[x] /\ fdtab'[x] = fdtab[x]
  BY <1>1 DEF FsInv, Typed, Goto
<1>3. Typed'
  BY <1>1 DEF FsInv, Typed, Goto, Entries
<1>4. \A i \in Entries : Refers(i)' => Refers(i)
  BY <1>1 DEF FsInv, Typed, Refers
<1>5. EntriesKept
  BY <1>1 DEF FsInv, TablesAgree, EntriesKept
<1>6. ClientOK(c)'
  BY <1>2 DEF ClientOK, Client, Idle
<1> QED
  BY <1>1, <1>2, <1>3, <1>4, <1>5, <1>6, OwnStep DEF Idle, Client

LEMMA SeekStep ==
  ASSUME FsInv, NEW e \in Clients, NEW fd \in FDs, NEW offset \in Places, seek(e, fd, offset)
  PROVE  FsInv'
<1> DEFINE i == fdtab[e][fd]
<1>1. /\ client[e].pc = "run" /\ i # NULL
      /\ page' = [page EXCEPT ![i].offset = offset]
      /\ UNCHANGED <<opentab, fdtab, size, client, server, panic>>
  BY DEF seek, Running, At, fd_lookup
<1>2. i \in Entries /\ Refers(i)
  BY <1>1 DEF FsInv, Typed, Refers
<1>3. page[i] \in FdPages
  BY <1>2 DEF FsInv, Typed, TablesAgree
<1>4. page'[i] \in FdPages /\ page'[i].id = page[i].id /\ page'[i].omode = page[i].omode
  BY <1>1, <1>2, <1>3, RequestsAssumption DEF FsInv, Typed, FdPages
<1>5. \A k \in Entries : k # i => page'[k] = page[k]
  BY <1>1 DEF FsInv, Typed
<1>6. Typed'
  <2>1. page' \in [Entries -> FdPages \cup {NULL}]
    BY <1>1, <1>4, <1>5 DEF FsInv, Typed
  <2> QED
    BY <1>1, <2>1 DEF FsInv, Typed, Entries, Ids
<1>7. EntriesKept /\ \A k \in Entries : ~Refers(k) => page'[k] = page[k]
  <2>1. page'[i] # NULL
    BY <1>4, PagesAreNotNull
  <2> QED
    BY <1>1, <1>2, <1>4, <1>5, <2>1 DEF EntriesKept, FsInv, TablesAgree
<1>8. client' = client /\ \A k : Refers(k)' <=> Refers(k)
  BY <1>1 DEF Refers
<1>9. ClientOK(e)'
  BY <1>1, <1>7, ClientKept
<1> QED
  BY <1>1, <1>6, <1>7, <1>8, <1>9, OwnStep

LEMMA SendRequestStep ==
  ASSUME FsInv, NEW e \in Clients, SendRequest(e)
  PROVE  FsInv'
<1> DEFINE c == Client("recv", client[e].req, client[e].then, NULL)
<1>1. /\ client[e].pc = "send" /\ server.pc = "recv" /\ ClientOK(e) /\ ServerOK
      /\ server' = Server("serve", e, client[e].req, NULL, NULL)
      /\ UNCHANGED <<opentab, page, fdtab, size, panic>>
  BY DEF SendRequest, At, FsInv
<1>2. [client[e] EXCEPT !.pc = "recv"] = c
  BY <1>1 DEF ClientOK, Client
<1>3. client'[e] = c /\ \A x \in Clients \ {e} : client'[x] = client[x]
  BY <1>2 DEF SendRequest, Goto, FsInv, Typed
<1>4. Typed'
  BY <1>1 DEF FsInv, Typed, Entries, Ids, SendRequest, Goto
<1>5. EntriesKept /\ \A i : Refers(i)' <=> Refers(i)
  BY <1>1 DEF FsInv, TablesAgree, EntriesKept, Refers
<1>6. TablesAgree'
  BY <1>1, <1>5, TablesKept DEF FsInv, TablesAgree
<1>7. Waits(e) /\ Continues(e)
  BY <1>1 DEF ClientOK
<1>8. ClientOK(e)'
  <2>1. client'[e].req = client[e].req /\ client'[e].then = client[e].then
    BY <1>3 DEF Client
  <2>2. Waits(e)' /\ Continues(e)'
    BY <1>1, <1>7, <2>1 DEF Waits, Continues, Asks, Names, Entry
  <2> QED
    BY <1>3, <2>2 DEF ClientOK, Client
<1>9. \A x \in Clients : ClientOK(x)'
  BY <1>1, <1>3, <1>5, <1>8, ClientKept
<1>10. ServerOK'
  <2>1. Handles(server.req)'
    <3>1. server'.req = client[e].req
      BY <1>1 DEF Server
    <3>2. Handles(client[e].req)
      BY <1>7 DEF Waits, Handles
    <3> QED
      BY <1>1, <3>1, <3>2 DEF Handles, Asks, Names, Entry
  <2>2. \A x \in Clients : client[x].pc # "recv"
    BY <1>1, NULLAssumption DEF ServerOK
  <2>3. /\ server'.pc = "serve" /\ server'.whom = e /\ server'.pg = NULL
        /\ server'.req = client'[e].req
        /\ server' = Server(server'.pc, server'.whom, server'.req, server'.r, server'.pg)
    BY <1>1, <1>3 DEF Server, Client
  <2>4. \A x \in Clients : client'[x].pc = "recv" <=> server'.whom = x
    BY <1>3, <2>2, <2>3 DEF Client
  <2> QED
    BY <2>1, <2>3, <2>4 DEF ServerOK, Begun
<1> QED
  BY <1>4, <1>6, <1>9, <1>10 DEF FsInv

LEMMA GoneStep ==
  ASSUME FsInv, NEW e \in Clients, Gone(e)
  PROVE  FsInv'
<1>1. /\ fdtab' = [fdtab EXCEPT ![e] = Closed] /\ client' = [client EXCEPT ![e] = Dead]
      /\ UNCHANGED <<opentab, page, size, panic>> /\ ServerOK
  BY DEF Gone, Goto, FsInv
<1>2. /\ client'[e] = Dead /\ fdtab'[e] = Closed
      /\ \A x \in Clients \ {e} : client'[x] = client[x] /\ fdtab'[x] = fdtab[x]
  BY <1>1 DEF FsInv, Typed
<1>3. Closed \in [FDs -> Entries \cup {NULL}]
  BY DEF Closed
<1>4. Typed'
  BY <1>1, <1>3 DEF FsInv, Typed, Entries, Ids
<1>5. \A i \in Entries : Refers(i)' => Refers(i)
  <2>1. \A i \in Entries : i # NULL
    BY NULLAssumption DEF Entries
  <2>2. \A fd \in FDs : fdtab'[e][fd] = NULL
    BY <1>2 DEF Closed
  <2> QED
    BY <1>2, <2>1, <2>2 DEF Refers
<1>6. EntriesKept
  BY <1>1 DEF FsInv, TablesAgree, EntriesKept
<1>7. TablesAgree'
  BY <1>1, <1>5, <1>6, TablesKept DEF FsInv, TablesAgree
<1>8. ClientOK(e)'
  BY <1>2 DEF ClientOK, Client, Dead
<1>9. \A x \in Clients : ClientOK(x)'
  BY <1>2, <1>6, <1>8, ClientKept
<1>10. ServerOK'
  <2> DEFINE w == IF server.whom = e THEN NULL ELSE server.whom
  <2>1. server' = [server EXCEPT !.whom = w]
    BY DEF Gone
  <2>2. server = Server(server.pc, server.whom, server.req, server.r, server.pg)
    BY <1>1 DEF ServerOK
  <2>3. server' = Server(server.pc, w, server.req, server.r, server.pg)
    BY <2>1, <2>2 DEF Server
  <2> HIDE DEF w
  <2>4. /\ server'.pc = server.pc /\ server'.whom = w /\ server'.req = server.req
        /\ server'.r = server.r /\ server'.pg = server.pg
    BY <2>3 DEF Server
  <2>5. w \in Clients \cup {NULL} /\ (w # NULL => w = server.whom /\ w # e)
        /\ (server.whom = NULL => w = NULL)
    BY <1>1 DEF ServerOK, w
  <2>6. \A x \in Clients : client'[x].pc = "recv" <=> w = x
    <3>1. client'[e].pc # "recv"
      BY <1>2 DEF Dead, Client
    <3> QED
      BY <1>1, <1>2, <2>5, <3>1, NULLAssumption DEF ServerOK, w
  <2>7. /\ server.pc \in Begun => Handles(server.req)'
        /\ server.pc \in {"extend", "write"} => Writes(server.req)'
    BY <1>1, <2>4 DEF ServerOK, Handles, Asks, Names, Writes, Entry
  <2>8. server.pc = "reply" /\ server.pg # NULL => Opens(server.pg)'
    BY <1>1, <1>5, <2>4 DEF ServerOK, Opens
  <2>9. w # NULL => client'[w] = client[w]
    BY <1>2, <2>5
  <2> QED
    BY <1>1, <2>3, <2>4, <2>5, <2>6, <2>7, <2>8, <2>9 DEF ServerOK, Entry, Begun
<1> QED
  BY <1>4, <1>7, <1>9, <1>10 DEF FsInv

-----------------------------------------------------------------------------
(***************************************************************************)
(* The steps of the server                                                 *)
(***************************************************************************)

\* The clients stay where they are, and what they refer to stays as it is.
LEMMA ServerStep ==
  ASSUME FsInv, UNCHANGED <<fdtab, client, panic>>, Typed', EntriesKept,
         \A i \in Entries : Entry(opentab'[i].fileid) = i,
         \A f \in Files : size[f] # NULL => size'[f] # NULL,
         ServerOK'
  PROVE  FsInv'
<1>1. \A i : Refers(i)' <=> Refers(i)
  BY DEF Refers
<1>2. TablesAgree'
  BY <1>1, TablesKept
<1>3. \A x \in Clients : ClientOK(x)'
  BY ClientKept
<1> QED
  BY <1>2, <1>3 DEF FsInv

\* The server has its answer, without a page.
LEMMA Replying ==
  ASSUME FsInv, NEW r, Reply(r, NULL),
         UNCHANGED <<fdtab, client, panic>>, Typed', EntriesKept, server.pc # "recv",
         \A i \in Entries : Entry(opentab'[i].fileid) = i,
         \A f \in Files : size[f] # NULL => size'[f] # NULL
  PROVE  FsInv'
<1>1. ServerOK /\ server = Server(server.pc, server.whom, server.req, server.r, server.pg)
  BY DEF FsInv, ServerOK
<1>2. server' = Server("reply", server.whom, NULL, r, NULL)
  BY <1>1 DEF Reply, Server
<1>3. /\ server'.pc = "reply" /\ server'.whom = server.whom /\ server'.pg = NULL
      /\ server' = Server(server'.pc, server'.whom, server'.req, server'.r, server'.pg)
  BY <1>2 DEF Server
<1>4. ServerOK'
  BY <1>1, <1>3 DEF ServerOK, Begun
<1> QED
  BY <1>4, ServerStep

\* The entries there are to give away
LEMMA AvailableType ==
  ASSUME FsInv, Available # {}
  PROVE  /\ Least(Available) \in Entries /\ ~Refers(Least(Available))
         /\ NextId(Least(Available)) \in Ids
         /\ Entry(NextId(Least(Available))) = Least(Available)
<1> DEFINE i == Least(Available)
<1>1. i \in Available
  <2>1. Available \subseteq Nat
    BY DEF Available, Entries
  <2> QED
    BY <2>1, LeastType
<1> HIDE DEF i
<1>2. i \in Entries /\ pageref(i) <= 1
  BY <1>1 DEF Available
<1>3. ~Refers(i)
  BY <1>2, References DEF FsInv, TablesAgree
<1>4. opentab[i].fileid \in Ids /\ Entry(opentab[i].fileid) = i
  BY <1>2 DEF FsInv, Typed, TablesAgree
<1>5. NextId(i) \in Ids /\ Entry(NextId(i)) = i
  BY <1>4, IdTypes DEF NextId
<1> QED
  BY <1>2, <1>3, <1>5 DEF i

LEMMA BlankType == Blank \in FdPages
<1>1. 0 \in Ids
  BY IdAssumption DEF Ids
<1> HIDE DEF Ids
<1> QED
  BY <1>1 DEF Blank, FdPages, Modes

LEMMA OpenFailsStep ==
  ASSUME FsInv, serve_open_fails
  PROVE  FsInv'
<1> DEFINE i == Least(Available)
<1>1. /\ server.pc = "serve" /\ Reply(Failed("refused", server.req.file), NULL)
      /\ UNCHANGED <<fdtab, size, client, panic>>
  BY DEF serve_open_fails, Serving
<1>2. CASE UNCHANGED <<opentab, page>>
  <2>1. Typed'
    BY <1>1, <1>2 DEF FsInv, Typed, Entries, Ids
  <2>2. EntriesKept
    BY <1>2 DEF EntriesKept, FsInv, TablesAgree
  <2>3. \A k \in Entries : Entry(opentab'[k].fileid) = k
    BY <1>2 DEF FsInv, TablesAgree
  <2> QED
    BY <1>1, <2>1, <2>2, <2>3, Replying
<1>3. CASE Available # {} /\ openfile_alloc(i, opentab[i].file)
  <2>1. i \in Entries /\ ~Refers(i) /\ NextId(i) \in Ids /\ Entry(NextId(i)) = i
    BY <1>3, AvailableType
  <2> HIDE DEF i
  <2>2. /\ opentab' = [opentab EXCEPT ![i] = [fileid |-> NextId(i), file |-> opentab[i].file]]
        /\ page' = [page EXCEPT ![i] = Blank]
    BY <1>3 DEF openfile_alloc, Cleared
  <2>3. /\ opentab'[i].fileid = NextId(i)
        /\ \A k \in Entries : k # i => opentab'[k] = opentab[k] /\ page'[k] = page[k]
    BY <2>1, <2>2 DEF FsInv, Typed
  <2>4. Typed'
    <3>1. opentab' \in [Entries -> [fileid : Ids, file : Files \cup {NULL}]]
      BY <2>1, <2>2 DEF FsInv, Typed
    <3>2. page' \in [Entries -> FdPages \cup {NULL}]
      BY <2>2, BlankType DEF FsInv, Typed
    <3> QED
      BY <1>1, <3>1, <3>2 DEF FsInv, Typed
  <2>5. EntriesKept
    BY <2>1, <2>3 DEF EntriesKept, FsInv, TablesAgree
  <2>6. \A k \in Entries : Entry(opentab'[k].fileid) = k
    BY <2>1, <2>3 DEF FsInv, TablesAgree, Entry
  <2> QED
    BY <1>1, <2>4, <2>5, <2>6, Replying
<1> QED
  BY <1>2, <1>3 DEF serve_open_fails

LEMMA OpenStep ==
  ASSUME FsInv, serve_open
  PROVE  FsInv'
<1> DEFINE i == Least(Available)
           f == server.req.file
           m == omode(server.req.flags)
           pg == [Blank EXCEPT !.id = NextId(i), !.omode = m]
<1>1. /\ server.pc = "serve" /\ server.req.op = "open" /\ ServerOK
      /\ Reply(Failed("found", f), i) /\ UNCHANGED <<fdtab, client, panic>>
  BY DEF serve_open, Serving, FsInv
<1>2. i \in Entries /\ ~Refers(i) /\ NextId(i) \in Ids /\ Entry(NextId(i)) = i
  BY AvailableType DEF serve_open
<1>3. f \in Files
  BY <1>1 DEF ServerOK, Handles, Asks, FileOps, Begun
<1>5. /\ opentab' = [opentab EXCEPT ![i] = [fileid |-> NextId(i), file |-> f]]
      /\ page' = [page EXCEPT ![i] = pg]
      /\ size' = [size EXCEPT ![f] = IF ~Exists(f) \/ "trunc" \in server.req.flags THEN 0 ELSE @]
  BY DEF serve_open, Cleared
<1>6. pg \in FdPages /\ pg.id = NextId(i) /\ pg.offset = 0
  <2>1. m \in Modes
    BY DEF omode, Modes
  <2>2. \A a \in Ids, b \in Modes, r \in FdPages : [r EXCEPT !.id = a, !.omode = b] \in FdPages
    <3> HIDE DEF Ids
    <3> QED
      BY DEF FdPages
  <2>3. \A a, b : LET r == [Blank EXCEPT !.id = a, !.omode = b] IN r.id = a /\ r.offset = 0
    BY DEF Blank
  <2> HIDE DEF i, m
  <2> QED
    BY <1>2, <2>1, <2>2, <2>3, BlankType
<1> HIDE DEF i, m, pg
<1>8. /\ opentab'[i] = [fileid |-> NextId(i), file |-> f] /\ page'[i] = pg
      /\ \A k \in Entries : k # i => opentab'[k] = opentab[k] /\ page'[k] = page[k]
  BY <1>2, <1>5 DEF FsInv, Typed
<1>9. /\ size' \in [Files -> Nat \cup {NULL}] /\ size'[f] # NULL
      /\ \A x \in Files : size[x] # NULL => size'[x] # NULL
  BY <1>3, <1>5, NULLAssumption DEF FsInv, Typed, Exists
<1>10. Typed'
  <2>1. opentab' \in [Entries -> [fileid : Ids, file : Files \cup {NULL}]]
    BY <1>2, <1>3, <1>5 DEF FsInv, Typed
  <2>2. page' \in [Entries -> FdPages \cup {NULL}]
    BY <1>5, <1>6 DEF FsInv, Typed
  <2> QED
    BY <1>1, <1>9, <2>1, <2>2 DEF FsInv, Typed
<1>11. EntriesKept
  BY <1>2, <1>8 DEF EntriesKept, FsInv, TablesAgree
<1>12. \A k \in Entries : Entry(opentab'[k].fileid) = k
  BY <1>2, <1>8 DEF FsInv, TablesAgree, Entry
<1>13. ServerOK'
  <2>1. server = Server(server.pc, server.whom, server.req, server.r, server.pg)
    BY <1>1 DEF ServerOK
  <2>2. server' = Server("reply", server.whom, NULL, Failed("found", f), i)
    BY <1>1, <2>1 DEF Reply, Server
  <2>3. /\ server'.pc = "reply" /\ server'.whom = server.whom /\ server'.pg = i
        /\ server'.r = Failed("found", f)
        /\ server' = Server(server'.pc, server'.whom, server'.req, server'.r, server'.pg)
    BY <2>2 DEF Server
  <2>4. page'[i] # NULL
    BY <1>6, <1>8, PagesAreNotNull
  <2>5. ~Refers(server.pg)'
    BY <1>1, <1>2, <2>3 DEF Refers
  <2>6. Opens(server.pg)'
    BY <1>2, <1>3, <1>6, <1>8, <1>9, <2>3, <2>4, <2>5 DEF Opens
  <2>7. server.whom # NULL => client'[server.whom].req.op = "open"
    BY <1>1 DEF ServerOK, Begun
  <2> QED
    BY <1>1, <2>3, <2>6, <2>7 DEF ServerOK, Begun
<1> QED
  BY <1>1, <1>9, <1>10, <1>11, <1>12, <1>13, ServerStep

\* A request that is carried out is about an open file that somebody has a
\* descriptor for.
LEMMA LookupType ==
  ASSUME FsInv, NEW op \in FileOps, Lookup(op)
  PROVE  /\ server.pc = "serve" /\ server.req.op = op /\ Asks(server.req) /\ Names(server.req)
         /\ Entry(server.req.id) \in Entries /\ Refers(Entry(server.req.id))
         /\ page[Entry(server.req.id)] \in FdPages /\ Offset \in Nat
         /\ Opened \in Files /\ size[Opened] \in Nat
<1> DEFINE i == Entry(server.req.id)
<1>1. server.pc = "serve" /\ server.req.op = op /\ Valid(server.req.id) /\ Handles(server.req)
  BY DEF Lookup, Serving, FsInv, ServerOK, Begun
<1>2. Asks(server.req) /\ Names(server.req)
  BY <1>1 DEF Handles, FileOps
<1>3. i \in Entries
  BY <1>2, IdTypes DEF Asks
<1> HIDE DEF i
<1>4. Refers(i) /\ page[i] # NULL
  BY <1>1, <1>3, References DEF Valid, FsInv, i
<1>5. page[i] \in FdPages /\ page[i].offset \in Nat
  BY <1>3, <1>4 DEF FsInv, Typed, FdPages
<1>6. opentab[i].file \in Files /\ size[opentab[i].file] \in Nat
  BY <1>3, <1>4 DEF FsInv, TablesAgree, Typed
<1> QED
  BY <1>1, <1>2, <1>3, <1>4, <1>5, <1>6 DEF Offset, Opened, i

LEMMA ReplySteps ==
  ASSUME FsInv, Invalid \/ serve_stat \/ serve_flush \/ serve_sync
  PROVE  FsInv'
<1>1. /\ \E r : Reply(r, NULL)
      /\ server.pc # "recv" /\ UNCHANGED <<opentab, page, fdtab, size, client, panic>>
  BY DEF Invalid, serve_stat, serve_flush, serve_sync, Lookup, Serving
<1>2. Typed'
  BY <1>1 DEF FsInv, Typed, Entries, Ids
<1>3. EntriesKept
  BY <1>1 DEF EntriesKept, FsInv, TablesAgree
<1>4. \A k \in Entries : Entry(opentab'[k].fileid) = k
  BY <1>1 DEF FsInv, TablesAgree
<1> QED
  BY <1>1, <1>2, <1>3, <1>4, Replying

LEMMA SetSizeStep ==
  ASSUME FsInv, serve_set_size
  PROVE  FsInv'
<1>1. /\ Reply(Failed("set_size", Opened), NULL) /\ size' = [size EXCEPT ![Opened] = server.req.n]
      /\ UNCHANGED <<opentab, page, fdtab, client, panic>> /\ Lookup("set_size")
  BY DEF serve_set_size
<1>2. server.pc = "serve" /\ server.req.n \in Nat
  BY <1>1, LookupType, RequestsAssumption DEF FileOps, Asks
<1>3. size' \in [Files -> Nat \cup {NULL}] /\ \A f \in Files : size[f] # NULL => size'[f] # NULL
  BY <1>1, <1>2, NULLAssumption DEF FsInv, Typed
<1>4. Typed'
  BY <1>1, <1>3 DEF FsInv, Typed, Entries, Ids
<1>5. EntriesKept
  BY <1>1 DEF EntriesKept, FsInv, TablesAgree
<1>6. \A k \in Entries : Entry(opentab'[k].fileid) = k
  BY <1>1 DEF FsInv, TablesAgree
<1> QED
  BY <1>1, <1>2, <1>3, <1>4, <1>5, <1>6, Replying

\* A write under way is on a file there is.
LEMMA WritingType ==
  ASSUME FsInv, server.pc \in {"extend", "write"}
  PROVE  /\ Asks(server.req) /\ Names(server.req) /\ server.req.op = "write"
         /\ Entry(server.req.id) \in Entries /\ page[Entry(server.req.id)] \in FdPages
         /\ Offset \in Nat /\ server.req.n \in Sizes /\ server.req.n \in Nat /\ End \in Nat
         /\ Opened \in Files /\ size[Opened] \in Nat
<1> DEFINE i == Entry(server.req.id)
<1>1. Handles(server.req) /\ Writes(server.req)
  BY DEF FsInv, ServerOK, Begun
<1>2. server.req.op = "write" /\ Asks(server.req) /\ Names(server.req)
  BY <1>1 DEF Handles, Writes
<1>3. server.req.n \in Sizes /\ server.req.n \in Nat /\ i \in Entries
  BY <1>2, IdTypes, RequestsAssumption DEF Asks
<1> HIDE DEF i
<1>4. page[i] \in FdPages /\ page[i].offset \in Nat
  BY <1>2, <1>3 DEF Names, FsInv, Typed, FdPages, i
<1>5. Opened \in Files /\ size[Opened] \in Nat
  BY <1>1 DEF Writes, Opened, FsInv, Typed
<1>6. Offset \in Nat
  BY <1>4 DEF Offset, i
<1> QED
  BY <1>2, <1>3, <1>4, <1>5, <1>6 DEF End, i

\* The server goes on with a write.
LEMMA Writing_On ==
  ASSUME FsInv, NEW pc \in {"extend", "write"}, Then(pc),
         server.pc \in Begun, server.req.op = "write",
         Opened \in Files, size[Opened] # NULL,
         UNCHANGED <<opentab, page, fdtab, client, panic>>,
         size' \in [Files -> Nat \cup {NULL}],
         \A f \in Files : size[f] # NULL => size'[f] # NULL
  PROVE  FsInv'
<1>1. Typed'
  BY DEF FsInv, Typed, Entries, Ids
<1>2. EntriesKept
  BY DEF EntriesKept, FsInv, TablesAgree
<1>3. \A k \in Entries : Entry(opentab'[k].fileid) = k
  BY DEF FsInv, TablesAgree
<1>4. ServerOK'
  <2>1. ServerOK /\ server = Server(server.pc, server.whom, server.req, server.r, server.pg)
    BY DEF FsInv, ServerOK
  <2>2. server' = Server(pc, server.whom, server.req, server.r, server.pg)
    BY <2>1 DEF Then, Server
  <2>3. /\ server'.pc = pc /\ server'.whom = server.whom /\ server'.pg = server.pg
        /\ server'.req = server.req
        /\ server' = Server(server'.pc, server'.whom, server'.req, server'.r, server'.pg)
    BY <2>2 DEF Server
  <2>4. Handles(server.req)' /\ Writes(server.req)'
    BY <2>1, <2>3 DEF ServerOK, Handles, Asks, Names, Writes, Opened, Entry
  <2> QED
    BY <2>1, <2>3, <2>4 DEF ServerOK, Begun
<1> QED
  BY <1>1, <1>2, <1>3, <1>4, ServerStep

LEMMA WriteSteps ==
  ASSUME FsInv, serve_write \/ Extend
  PROVE  FsInv'
<1>1. CASE serve_write
  <2>1. /\ Lookup("write") /\ UNCHANGED <<opentab, page, fdtab, size, client, panic>>
        /\ \E pc \in {"extend", "write"} : Then(pc)
    BY <1>1 DEF serve_write
  <2>2. server.pc = "serve" /\ server.req.op = "write" /\ Opened \in Files /\ size[Opened] \in Nat
    BY <2>1, LookupType DEF FileOps
  <2> QED
    BY <2>1, <2>2, Writing_On, NULLAssumption DEF Begun, FsInv, Typed
<1>2. CASE Extend
  <2>1. /\ server.pc = "extend" /\ size' = [size EXCEPT ![Opened] = End] /\ Then("write")
        /\ UNCHANGED <<opentab, page, fdtab, client, panic>>
    BY <1>2 DEF Extend, Writing
  <2>2. server.req.op = "write" /\ Opened \in Files /\ size[Opened] \in Nat /\ End \in Nat
    BY <2>1, WritingType
  <2>3. size' \in [Files -> Nat \cup {NULL}] /\ \A f \in Files : size[f] # NULL => size'[f] # NULL
    BY <2>1, <2>2, NULLAssumption DEF FsInv, Typed
  <2> QED
    BY <2>1, <2>2, <2>3, Writing_On, NULLAssumption DEF Begun
<1> QED
  BY <1>1, <1>2

\* A transfer; the offset follows in a step of its own.
LEMMA TransferSteps ==
  ASSUME FsInv, serve_read \/ file_write
  PROVE  FsInv'
<1>1. /\ server.pc \in Begun /\ server.req.n \in Nat /\ Offset \in Nat /\ Opened \in Files
      /\ size[Opened] \in Nat /\ Asks(server.req) /\ Names(server.req)
      /\ server.req.id \in Ids
  <2>1. CASE serve_read
    BY <2>1, LookupType, RequestsAssumption DEF Asks, FileOps, serve_read, Begun
  <2>2. CASE file_write
    BY <2>2, WritingType DEF Asks, file_write, Writing, Begun
  <2> QED
    BY <2>1, <2>2
<1>2. UNCHANGED <<opentab, page, fdtab, client, panic>>
  BY DEF serve_read, file_write
<1>3. PICK r : MoveLater(r) /\ r.n \in Nat
  <2>1. CASE serve_read
    <3> DEFINE left == IF Offset >= size[Opened] THEN 0 ELSE size[Opened] - Offset
               n == IF server.req.n < left THEN server.req.n ELSE left
    <3>1. n \in Nat
      BY <1>1
    <3> HIDE DEF n
    <3>2. Result("read", Opened, Offset, n).n \in Nat
      BY <3>1 DEF Result
    <3> QED
      BY <2>1, <3>2 DEF serve_read, n
  <2>2. CASE file_write
    <3>1. Result("write", Opened, Offset, server.req.n).n \in Nat
      BY <1>1 DEF Result
    <3> QED
      BY <2>2, <3>1 DEF file_write
  <2> QED
    BY <2>1, <2>2
<1>4. size' \in [Files -> Nat \cup {NULL}] /\ \A f \in Files : size[f] # NULL => size'[f] # NULL
  <2>1. CASE serve_read
    BY <2>1 DEF serve_read, FsInv, Typed
  <2>2. CASE file_write
    <3>1. End \in Nat
      BY <1>1 DEF End
    <3> QED
      BY <1>1, <2>2, <3>1, NULLAssumption DEF file_write, FsInv, Typed
  <2> QED
    BY <2>1, <2>2
<1>5. Typed'
  BY <1>2, <1>4 DEF FsInv, Typed, Entries, Ids
<1>6. EntriesKept
  BY <1>2 DEF EntriesKept, FsInv, TablesAgree
<1>7. \A k \in Entries : Entry(opentab'[k].fileid) = k
  BY <1>2 DEF FsInv, TablesAgree
<1>8. ServerOK'
  <2>1. ServerOK /\ server = Server(server.pc, server.whom, server.req, server.r, server.pg)
    BY DEF FsInv, ServerOK
  <2>2. server' = Server("advance", server.whom, server.req, r, NULL)
    BY <1>1, <1>3, <2>1 DEF MoveLater, Server, ServerOK, Begun
  <2>3. /\ server'.pc = "advance" /\ server'.whom = server.whom /\ server'.pg = NULL
        /\ server'.req = server.req /\ server'.r.n \in Nat
        /\ server' = Server(server'.pc, server'.whom, server'.req, server'.r, server'.pg)
    BY <1>3, <2>2 DEF Server
  <2>4. page'[Entry(server.req.id)] # NULL
    BY <1>1, <1>2 DEF Names
  <2> QED
    BY <1>1, <1>2, <2>1, <2>3, <2>4 DEF ServerOK, Entry, Begun
<1> QED
  BY <1>2, <1>4, <1>5, <1>6, <1>7, <1>8, ServerStep

LEMMA AdvanceStep ==
  ASSUME FsInv, Advance
  PROVE  FsInv'
<1> DEFINE i == Entry(server.req.id)
<1>1. /\ server.pc = "advance" /\ ServerOK
      /\ page' = [page EXCEPT ![i].offset = @ + server.r.n]
      /\ server' = [server EXCEPT !.pc = "reply", !.req = NULL]
      /\ UNCHANGED <<opentab, fdtab, size, client, panic>>
  BY DEF Advance, FsInv
<1>2. i \in Entries /\ page[i] # NULL /\ server.r.n \in Nat
  BY <1>1, IdTypes DEF ServerOK
<1> HIDE DEF i
<1>3. page[i] \in FdPages
  BY <1>2 DEF FsInv, Typed
<1>4. page'[i] \in FdPages /\ page'[i].id = page[i].id /\ page'[i].omode = page[i].omode
  BY <1>1, <1>2, <1>3 DEF FsInv, Typed, FdPages
<1>5. \A k \in Entries : k # i => page'[k] = page[k]
  BY <1>1 DEF FsInv, Typed
<1>6. Typed'
  <2>1. page' \in [Entries -> FdPages \cup {NULL}]
    BY <1>1, <1>4, <1>5 DEF FsInv, Typed
  <2> QED
    BY <1>1, <2>1 DEF FsInv, Typed, Entries, Ids
<1>7. EntriesKept
  <2>1. page'[i] # NULL
    BY <1>4, PagesAreNotNull
  <2> QED
    BY <1>1, <1>2, <1>4, <1>5, <2>1 DEF EntriesKept, FsInv, TablesAgree
<1>8. \A k \in Entries : Entry(opentab'[k].fileid) = k
  BY <1>1 DEF FsInv, TablesAgree
<1>9. ServerOK'
  <2>1. server = Server(server.pc, server.whom, server.req, server.r, server.pg) /\ server.pg = NULL
    BY <1>1 DEF ServerOK, Begun
  <2>2. server' = Server("reply", server.whom, NULL, server.r, NULL)
    BY <1>1, <2>1 DEF Server
  <2>3. /\ server'.pc = "reply" /\ server'.whom = server.whom /\ server'.pg = NULL
        /\ server' = Server(server'.pc, server'.whom, server'.req, server'.r, server'.pg)
    BY <2>2 DEF Server
  <2> QED
    BY <1>1, <2>3 DEF ServerOK, Begun
<1> QED
  BY <1>1, <1>6, <1>7, <1>8, <1>9, ServerStep

\* The answer, with which the client gets the page of a file it opened.
LEMMA AnswerStep ==
  ASSUME FsInv, NEW e \in Clients, server.whom = e, Answer
  PROVE  FsInv'
<1> DEFINE c == client[e]
<1>1. /\ server.pc = "reply" /\ c.pc = "recv" /\ ServerOK /\ ClientOK(e)
      /\ server' = Receiving /\ UNCHANGED <<opentab, page, size, panic>>
  BY DEF Answer, FsInv, ServerOK
<1>2. Waits(e) /\ Continues(e)
  BY <1>1 DEF ClientOK
<1>3. \E r : /\ Goto(e, [c EXCEPT !.pc = "done", !.r = r])
  BY DEF Answer
<1>4. PICK r : Goto(e, [c EXCEPT !.pc = "done", !.r = r])
  BY <1>3
<1>5. [c EXCEPT !.pc = "done", !.r = r] = Client("done", c.req, c.then, r)
  <2>1. c = Client(c.pc, c.req, c.then, c.r)
    BY <1>1 DEF ClientOK
  <2> HIDE DEF c
  <2>2. DOMAIN c = {"pc", "req", "then", "r"}
    BY <2>1 DEF Client
  <2>3. [c EXCEPT !.pc = "done", !.r = r] =
          [x \in DOMAIN c |-> IF x = "r" THEN r ELSE IF x = "pc" THEN "done" ELSE c[x]]
    OBVIOUS
  <2> QED
    BY <2>2, <2>3 DEF Client
<1>6. client'[e] = Client("done", c.req, c.then, r)
      /\ client' = [x \in Clients |-> client'[x]]
      /\ \A x \in Clients \ {e} : client'[x] = client[x]
  BY <1>1, <1>4, <1>5 DEF Goto, FsInv, Typed
<1>7. /\ client'[e].pc = "done" /\ client'[e].req = c.req /\ client'[e].then = c.then
      /\ client'[e] = Client(client'[e].pc, client'[e].req, client'[e].then, client'[e].r)
  BY <1>6 DEF Client
<1>8. EntriesKept
  BY <1>1 DEF EntriesKept, FsInv, TablesAgree
<1>9. ServerOK'
  <2>1. \A x \in Clients : client'[x].pc # "recv"
    BY <1>1, <1>6, <1>7 DEF ServerOK
  <2>2. server'.pc = "recv" /\ server'.whom = NULL
        /\ server' = Server(server'.pc, server'.whom, server'.req, server'.r, server'.pg)
    BY <1>1 DEF Receiving, Server
  <2> QED
    BY <2>1, <2>2, NULLAssumption DEF ServerOK, Begun
<1>10. CASE server.pg = NULL
  <2>1. UNCHANGED fdtab
    BY <1>10 DEF Answer
  <2>2. Typed'
    BY <1>1, <1>6, <2>1 DEF FsInv, Typed, Entries, Ids
  <2>3. TablesAgree'
    BY <1>1, <2>1 DEF FsInv, TablesAgree, Refers, Entry
  <2>4. ClientOK(e)'
    BY <1>1, <1>2, <1>7, <2>1 DEF ClientOK, Continues
  <2>5. \A x \in Clients : ClientOK(x)'
    BY <1>6, <1>8, <2>1, <2>4, ClientKept
  <2> QED
    BY <1>9, <2>2, <2>3, <2>5 DEF FsInv
<1>11. CASE server.pg # NULL
  <2> DEFINE fd == c.req.fd
             i == server.pg
  <2>1. fdtab' = [fdtab EXCEPT ![e][fd] = i]
    BY <1>11 DEF Answer
  <2>2. Opens(i) /\ c.req.op = "open"
    BY <1>1, <1>11, NULLAssumption DEF ServerOK
  <2>3. fd \in FDs /\ c.then = Return
    BY <1>2, <2>2 DEF Waits, Asks, FileOps
  <2>4. i \in Entries
    BY <2>2 DEF Opens
  <2>5. Typed'
    <3>1. fdtab' \in [Clients -> [FDs -> Entries \cup {NULL}]]
      BY <1>1, <2>1, <2>3, <2>4 DEF FsInv, Typed
    <3> QED
      BY <1>1, <1>6, <3>1 DEF FsInv, Typed, Entries, Ids
  <2>6. \A x \in Clients, y \in FDs : fdtab'[x][y] = fdtab[x][y] \/ fdtab'[x][y] = i
    BY <1>1, <2>1, <2>3 DEF FsInv, Typed
  <2>7. TablesAgree'
    <3>1. \A k \in Entries : Refers(k)' => Refers(k) \/ k = i
      BY <2>6 DEF Refers
    <3> QED
      BY <1>1, <2>2, <3>1 DEF FsInv, TablesAgree, Opens, Entry
  <2>8. ClientOK(e)'
    BY <1>7, <2>3 DEF ClientOK, Continues, Return, After
  <2>9. \A x \in Clients \ {e} : fdtab'[x] = fdtab[x]
    BY <2>1 DEF FsInv, Typed
  <2>10. \A x \in Clients : ClientOK(x)'
    BY <1>6, <1>8, <2>8, <2>9, ClientKept
  <2> QED
    BY <1>9, <2>5, <2>7, <2>10 DEF FsInv
<1> QED
  BY <1>10, <1>11

LEMMA PanicStep ==
  ASSUME FsInv, NobodyToAnswer
  PROVE  FsInv'
<1>1. UNCHANGED <<opentab, page, fdtab, size, client, server>> /\ panic' = "server"
  BY DEF NobodyToAnswer
<1>2. Typed' /\ EntriesKept
  BY <1>1 DEF FsInv, Typed, Entries, Ids, TablesAgree, EntriesKept
<1>3. TablesAgree'
  BY <1>1 DEF FsInv, TablesAgree, Refers, Entry
<1>4. \A x \in Clients : ClientOK(x)'
  BY <1>1, <1>2, ClientKept
<1>5. ServerOK'
  BY <1>1 DEF FsInv, ServerOK, Handles, Asks, Names, Writes, Opens, Refers, Entry
<1> QED
  BY <1>2, <1>3, <1>4, <1>5 DEF FsInv

LEMMA FsInit ==
  ASSUME Init
  PROVE  FsInv
<1>1. /\ opentab = [i \in Entries |-> [fileid |-> i, file |-> NULL]]
      /\ page = [i \in Entries |-> NULL] /\ fdtab = [e \in Clients |-> Closed]
      /\ size = [f \in Files |-> IF f \in Boot THEN 0 ELSE NULL]
      /\ client = [e \in Clients |-> IF e = 0 THEN Idle ELSE Dead]
      /\ server = Receiving /\ panic = "no"
  BY DEF Init
<1>2. \A i \in Entries : i \in Ids /\ Entry(i) = i
  <2>1. MAXOPEN \in Nat /\ MAXOPEN > 0 /\ IdMod \in Nat /\ MAXOPEN <= IdMod
    BY IdAssumption, IdSpace
  <2> QED
    BY <2>1 DEF Entries, Entry, Ids
<1>3. Closed \in [FDs -> Entries \cup {NULL}]
  BY DEF Closed
<1>4. Typed
  BY <1>1, <1>2, <1>3 DEF Typed
<1>5. \A i \in Entries : ~Refers(i)
  BY <1>1, NULLAssumption DEF Refers, Closed, Entries
<1>6. TablesAgree
  BY <1>1, <1>2, <1>5 DEF TablesAgree
<1>7. \A e \in Clients : ClientOK(e) /\ client[e].pc # "recv"
  BY <1>1 DEF ClientOK, Client, Idle, Dead
<1>8. ServerOK
  BY <1>1, <1>7, NULLAssumption DEF ServerOK, Receiving, Server, Begun
<1> QED
  BY <1>4, <1>6, <1>7, <1>8 DEF FsInv

LEMMA ClientStep ==
  ASSUME FsInv, NEW e \in Clients, Continue(e) \/ ClientCall(e)
  PROVE  FsInv'
<1>1. ASSUME Continue(e)
      PROVE  FsInv'
  BY <1>1, SendRequestStep, DoneStep, UnmapStep, DupMapStep, CloseAllStep, GoneStep
     DEF Continue, Exited
<1>2. ASSUME NEW fd \in FDs, FdCall(e, fd)
      PROVE  FsInv'
  BY <1>2, FdCalls, SeekStep, DupCall DEF FdCall
<1>3. ASSUME NEW c \in Clients, Kill(e, c) \/ Child(e, c)
      PROVE  FsInv'
  BY <1>3, GoneStep, ChildStep DEF Kill
<1> QED
  BY <1>1, <1>2, <1>3, OpenCall, SyncCall, ExitStep DEF ClientCall

LEMMA FsStep ==
  ASSUME FsInv, [Next]_vars
  PROVE  FsInv'
<1>1. CASE UNCHANGED vars
  <2>1. Typed' /\ EntriesKept
    BY <1>1 DEF vars, FsInv, Typed, Entries, Ids, TablesAgree, EntriesKept
  <2>2. TablesAgree'
    BY <1>1 DEF vars, FsInv, TablesAgree, Refers, Entry
  <2>3. \A x \in Clients : ClientOK(x)'
    BY <1>1, <2>1, ClientKept DEF vars
  <2>4. ServerOK'
    BY <1>1 DEF vars, FsInv, ServerOK, Handles, Asks, Names, Writes, Opens, Refers, Entry
  <2> QED
    BY <2>1, <2>2, <2>3, <2>4 DEF FsInv
<1>2. ASSUME Answer
      PROVE  FsInv'
  <2>1. server.whom \in Clients
    BY <1>2 DEF Answer, FsInv, ServerOK
  <2> QED
    BY <1>2, <2>1, AnswerStep
<1>3. ASSUME serve
      PROVE  FsInv'
  BY <1>2, <1>3, OpenStep, OpenFailsStep, ReplySteps, WriteSteps, TransferSteps, AdvanceStep,
     SetSizeStep, PanicStep DEF serve
<1> QED
  BY <1>1, <1>3, ClientStep DEF Next

\* The inductive invariant of the server and its clients: ids, pages and
\* mappings agree, whatever request each of them is in (serv.c, file.c, fd.c).
THEOREM FsInvariant == Spec => []FsInv
BY FsInit, FsStep, PTL DEF Spec

\* Its entries, pages, descriptors and sizes have their types.
THEOREM FsTypeCorrect == Spec => []TypeOK
<1>1. FsInv => TypeOK
  <2> SUFFICES ASSUME FsInv
               PROVE  TypeOK
    OBVIOUS
  <2>1. \A i \in Entries : page[i] # NULL =>
          page[i].id \in 0 .. IdMod - 1 /\ page[i].offset \in Nat /\ page[i].omode \in {"r", "w", "rw"}
    BY DEF FsInv, Typed, FdPages, Ids, Modes
  <2>2. \A e \in Clients :
          client[e].pc \in {"run", "send", "recv", "done", "unmap", "dup", "exit", "dead"}
    BY DEF FsInv, ClientOK
  <2> QED
    BY <2>1, <2>2 DEF FsInv, Typed, Ids, ServerOK, Begun, TypeOK
<1> QED
  BY <1>1, FsInvariant, PTL

-----------------------------------------------------------------------------
(***************************************************************************)
(* The refinement: what the server and its clients do is what Descriptors  *)
(* promises, step by step                                                  *)
(***************************************************************************)

SameDescriptions == \A i \in Entries : Description(i)' = Description(i)
SameAnswers == \A e \in Clients : Answered(e)' = Answered(e)

\* Entries that count: somebody refers to them, or a write there is under way.
Used(i) == Refers(i) \/ Busy(i)
Quiet == \A i \in Entries : Refers(i) \/ (Busy(i)' <=> Busy(i))

Unseen ==
  /\ Live' = Live /\ fdtab' = fdtab /\ SameDescriptions /\ size' = size
  /\ Written' = Written /\ Moving' = Moving /\ SameAnswers /\ Orphaned' = Orphaned

Promised == Descs!Step(Sizes, Places, {"r", "w", "rw"}) \/ Unseen

LEMMA DescriptionType ==
  ASSUME FsInv, NEW i \in Entries
  PROVE  /\ Description(i) =
              IF Used(i)
              THEN [file |-> opentab[i].file, offset |-> page[i].offset, mode |-> page[i].omode]
              ELSE NULL
         /\ Used(i) => Description(i) # NULL
<1>1. Mapping(i) = {} <=> ~Refers(i)
  BY References DEF FsInv
<1>2. ASSUME Used(i)
      PROVE  [file |-> opentab[i].file, offset |-> page[i].offset, mode |-> page[i].omode] # NULL
  <2>1. page[i] \in FdPages /\ opentab[i].file \in Files
    <3>1. CASE Refers(i)
      BY <3>1 DEF FsInv, TablesAgree, Typed
    <3>2. CASE Busy(i)
      BY <3>2, WritingType DEF Busy, Opened
    <3> QED
      BY <1>2, <3>1, <3>2 DEF Used
  <2>2. page[i].offset \in Nat /\ page[i].omode \in Modes
    BY <2>1 DEF FdPages
  <2>3. [file |-> opentab[i].file, offset |-> page[i].offset, mode |-> page[i].omode] \in Descriptions
    BY <2>1, <2>2 DEF Descriptions, Modes
  <2> QED
    BY <2>3, NULLAssumption
<1> QED
  BY <1>1, <1>2 DEF Description, Used

LEMMA NextDescription ==
  ASSUME NEW i \in Entries
  PROVE  Description(i)' =
           IF Used(i)'
           THEN [file |-> opentab'[i].file, offset |-> page'[i].offset, mode |-> page'[i].omode]
           ELSE NULL
<1>1. Mapping(i)' = {} <=> ~Refers(i)'
  <2>1. ASSUME NEW e \in Clients, NEW fd \in FDs, fdtab'[e][fd] = i
        PROVE  <<e, fd>> \in Mapping(i)'
    BY <2>1 DEF Mapping
  <2>2. ASSUME NEW x \in Mapping(i)'
        PROVE  Refers(i)'
    BY DEF Mapping, Refers
  <2> QED
    BY <2>1, <2>2 DEF Refers
<1> QED
  BY <1>1 DEF Description, Used

\* The write under way, and its description
LEMMA WrittenType ==
  ASSUME FsInv
  PROVE  /\ server.pc \notin {"extend", "write"} => Written = NULL /\ \A i \in Entries : ~Busy(i)
         /\ server.pc \in {"extend", "write"} =>
              /\ Written # NULL
              /\ Written.p = server.whom /\ Written.d = Entry(server.req.id)
              /\ Written.n = server.req.n /\ Written.next = server.pc
         /\ \A i \in Entries : Busy(i) <=> Written # NULL /\ Written.d = i
<1>1. CASE server.pc \in {"extend", "write"}
  <2> DEFINE w == [p |-> server.whom, d |-> Entry(server.req.id), n |-> server.req.n,
                   next |-> server.pc]
  <2>1. Written = w
    BY <1>1 DEF Written
  <2>2. /\ server.whom \in Clients \cup {NULL} /\ Entry(server.req.id) \in Nat
        /\ server.req.n \in Nat
    BY <1>1, WritingType DEF FsInv, ServerOK, Entries
  <2>3. \A p \in Clients \cup {NULL}, d \in Nat, n \in Nat, g \in {"extend", "write"} :
          [p |-> p, d |-> d, n |-> n, next |-> g] # NULL
    BY NULLAssumption
  <2>4. w # NULL
    BY <1>1, <2>2, <2>3
  <2> QED
    BY <1>1, <2>1, <2>4 DEF Busy
<1>2. CASE server.pc \notin {"extend", "write"}
  BY <1>2 DEF Written, Busy
<1> QED
  BY <1>1, <1>2

\* Descriptors come and go, and the descriptions stay that somebody still has.
LEMMA Rebinds ==
  ASSUME FsInv, UNCHANGED <<opentab, page>>, \A i \in Entries : Refers(i)' => Refers(i),
         \A i \in Entries : Busy(i)' <=> Busy(i)
  PROVE  Descs!Rebind(fdtab')
<1>1. \A i \in Entries : Used(i)' <=> Descs!InUse(fdtab', Written, i)
  BY WrittenType DEF Used, Refers, Descs!InUse
<1>2. \A i \in Entries : Used(i)' => Used(i)
  BY DEF Used
<1>3. \A i \in Entries :
        Description(i)' = IF Descs!InUse(fdtab', Written, i) THEN Description(i) ELSE NULL
  BY <1>1, <1>2, DescriptionType, NextDescription
<1> QED
  BY <1>3 DEF Descs!Rebind, Descs!Kept

LEMMA DescriptionsKept ==
  ASSUME FsInv, fdtab' = fdtab, Quiet,
         \A i \in Entries : Used(i) =>
           /\ opentab'[i].file = opentab[i].file
           /\ page'[i].offset = page[i].offset /\ page'[i].omode = page[i].omode
  PROVE  SameDescriptions
<1>1. \A i \in Entries : Used(i)' <=> Used(i)
  BY DEF Used, Quiet, Refers
<1> QED
  BY <1>1, DescriptionType, NextDescription DEF SameDescriptions

\* The server stays where it is, or somebody else goes.
LEMMA ServerStays ==
  ASSUME FsInv, server'.pc = server.pc, server'.req = server.req
  PROVE  Quiet /\ \A i \in Entries : Busy(i)' <=> Busy(i)
BY DEF Quiet, Busy, Entry

\* Before and after a step of the server, no write is under way.
LEMMA NoWrite ==
  ASSUME FsInv, server.pc \notin {"extend", "write"}, server'.pc \notin {"extend", "write"}
  PROVE  Quiet /\ Written = NULL /\ Written' = NULL /\ \A i \in Entries : ~Busy(i) /\ ~Busy(i)'
BY DEF Quiet, Busy, Written

LEMMA ReplyIsQuiet ==
  ASSUME FsInv, NEW r, NEW pg, Reply(r, pg), server.pc = "serve"
  PROVE  Quiet /\ Written = NULL /\ Written' = NULL /\ \A i \in Entries : ~Busy(i) /\ ~Busy(i)'
<1>1. server = Server(server.pc, server.whom, server.req, server.r, server.pg)
  BY DEF FsInv, ServerOK
<1>2. server' = Server("reply", server.whom, NULL, r, pg)
  BY <1>1 DEF Reply, Server
<1>3. server'.pc = "reply"
  BY <1>2 DEF Server
<1> QED
  BY <1>3, NoWrite

\* A client that is not waiting and gets on forgets the result of its last call.
LEMMA GoingIsCall ==
  ASSUME FsInv, NEW e \in Clients, NEW c, Goto(e, c),
         client[e].pc \notin {"recv", "dead"}, c.pc # "dead", c.r = NULL,
         UNCHANGED <<opentab, page, fdtab, size, server>>
  PROVE  Promised
<1>1. client'[e] = c /\ \A x \in Clients \ {e} : client'[x] = client[x]
  BY DEF Goto, FsInv, Typed
<1>2. Live' = Live /\ e \in Live
  BY <1>1 DEF Live
<1>3. SameDescriptions
  BY ServerStays, DescriptionsKept
<1>4. Written' = Written /\ Moving' = Moving /\ Orphaned' = Orphaned
  BY DEF Written, Moving, Orphaned, Entry
<1>5. server.whom # e
  BY DEF FsInv, ServerOK
<1>6. Answered(e)' = NULL /\ \A x \in Clients \ {e} : Answered(x)' = Answered(x)
  BY <1>1, <1>5 DEF Answered
<1>7. [x \in Clients |-> Answered(x)'] = [[x \in Clients |-> Answered(x)] EXCEPT ![e] = NULL]
  BY <1>6
<1>8. Descs!Call(e)
  BY <1>2, <1>3, <1>4, <1>7, NULLAssumption DEF Descs!Call, Descs!Returned, SameDescriptions
<1> QED
  BY <1>2, <1>8 DEF Promised, Descs!Step

LEMMA CallsAreCalls ==
  ASSUME FsInv, NEW e \in Clients, client[e].pc \in {"run", "exit"},
         \E req, then : Call(e, req, then)
  PROVE  Promised
<1>1. PICK req, then : Call(e, req, then)
  OBVIOUS
<1> DEFINE c == Client("send", req, then, NULL)
<1>2. Goto(e, c) /\ UNCHANGED <<opentab, page, fdtab, size, server>>
  BY <1>1 DEF Call
<1>3. c.pc # "dead" /\ c.r = NULL
  BY DEF Client
<1> HIDE DEF c
<1> QED
  BY <1>2, <1>3, GoingIsCall

LEMMA DoneIsCall ==
  ASSUME FsInv, NEW e \in Clients, Done(e)
  PROVE  Promised
<1> DEFINE c == IF client[e].then = Return THEN Idle
                ELSE [client[e] EXCEPT !.pc = "unmap", !.r = NULL]
<1>1. client[e].pc = "done" /\ ClientOK(e) /\ Goto(e, c)
      /\ UNCHANGED <<opentab, page, fdtab, size, server>>
  BY DEF Done, At, FsInv
<1>2. c = Idle \/ c = Client("unmap", client[e].req, client[e].then, NULL)
  BY <1>1 DEF ClientOK, Client
<1> HIDE DEF c
<1>3. c.pc # "dead" /\ c.r = NULL
  BY <1>2 DEF Client, Idle
<1> QED
  BY <1>1, <1>3, GoingIsCall

LEMMA ExitIsCall ==
  ASSUME FsInv, NEW e \in Clients, Exit(e)
  PROVE  Promised
<1> DEFINE c == [client[e] EXCEPT !.pc = "exit"]
<1>1. client[e].pc = "run" /\ ClientOK(e) /\ Goto(e, c)
      /\ UNCHANGED <<opentab, page, fdtab, size, server>>
  BY DEF Exit, Running, At, FsInv
<1>2. c = Client("exit", client[e].req, client[e].then, NULL)
  BY <1>1 DEF ClientOK, Client
<1> HIDE DEF c
<1>3. c.pc # "dead" /\ c.r = NULL
  BY <1>2 DEF Client
<1> QED
  BY <1>1, <1>3, GoingIsCall

LEMMA SendIsUnseen ==
  ASSUME FsInv, NEW e \in Clients, SendRequest(e)
  PROVE  Promised
<1>1. /\ client[e].pc = "send" /\ server.pc = "recv" /\ ClientOK(e) /\ ServerOK
      /\ server' = Server("serve", e, client[e].req, NULL, NULL)
      /\ UNCHANGED <<opentab, page, fdtab, size>>
  BY DEF SendRequest, At, FsInv
<1>2. [client[e] EXCEPT !.pc = "recv"] = Client("recv", client[e].req, client[e].then, client[e].r)
  BY <1>1 DEF ClientOK, Client
<1>3. /\ client'[e] = Client("recv", client[e].req, client[e].then, client[e].r)
      /\ \A x \in Clients \ {e} : client'[x] = client[x]
  BY <1>2 DEF SendRequest, Goto, FsInv, Typed
<1>4. client'[e].pc = "recv" /\ client'[e].r = client[e].r
  BY <1>3 DEF Client
<1>5. server'.pc = "serve" /\ server'.whom = e
  BY <1>1 DEF Server
<1>6. Live' = Live
  BY <1>1, <1>3, <1>4 DEF Live
<1>7. SameDescriptions
  BY <1>1, <1>5, NoWrite, DescriptionsKept
<1>8. Written' = Written /\ Moving' = Moving /\ Orphaned' = Orphaned
  BY <1>1, <1>5, NULLAssumption, NoWrite DEF Moving, Orphaned
<1>9. SameAnswers
  BY <1>1, <1>3, <1>4, <1>5 DEF SameAnswers, Answered
<1> QED
  BY <1>1, <1>6, <1>7, <1>8, <1>9 DEF Promised, Unseen

\* A client changes its own descriptors: nobody's answer changes.
LEMMA BindingUnseen ==
  ASSUME FsInv, NEW e \in Clients, NEW c, Goto(e, c),
         client[e].pc \notin {"recv", "done", "dead"}, c.pc # "dead", c.r = NULL,
         UNCHANGED <<opentab, page, size, server>>
  PROVE  /\ e \in Live /\ Live' = Live /\ size' = size /\ Written' = Written
         /\ Moving' = Moving /\ SameAnswers /\ Orphaned' = Orphaned
<1>1. client'[e] = c /\ \A x \in Clients \ {e} : client'[x] = client[x]
  BY DEF Goto, FsInv, Typed
<1>2. Live' = Live /\ e \in Live
  BY <1>1 DEF Live
<1>3. Written' = Written /\ Moving' = Moving /\ Orphaned' = Orphaned
  BY DEF Written, Moving, Orphaned, Entry
<1>4. server.whom # e /\ client[e].r = NULL
  BY DEF FsInv, ServerOK, ClientOK
<1>5. SameAnswers
  BY <1>1, <1>4 DEF SameAnswers, Answered
<1> QED
  BY <1>2, <1>3, <1>5

LEMMA UnmapIsClose ==
  ASSUME FsInv, NEW e \in Clients, Unmap(e)
  PROVE  Promised
<1> DEFINE fd == client[e].req.fd
           then == client[e].then
           c == IF then.do = "unmap" THEN Idle
                ELSE IF then.do = "exit" THEN [client[e] EXCEPT !.pc = "exit"]
                ELSE [client[e] EXCEPT !.pc = "dup"]
<1>1. client[e].pc = "unmap" /\ ClientOK(e) /\ Continues(e) /\ then # Return
  BY DEF Unmap, At, FsInv, ClientOK
<1>2. fdtab' = [fdtab EXCEPT ![e][fd] = NULL] /\ Goto(e, c)
      /\ UNCHANGED <<opentab, page, size, server>>
  BY DEF Unmap
<1>3. fd \in FDs
  BY <1>1 DEF Continues
<1>4. \/ c = Idle
      \/ c = Client("exit", client[e].req, then, NULL)
      \/ c = Client("dup", client[e].req, then, NULL)
  BY <1>1 DEF ClientOK, Client
<1> HIDE DEF c
<1>5. c.pc # "dead" /\ c.r = NULL
  BY <1>4 DEF Client, Idle
<1>6. /\ e \in Live /\ Live' = Live /\ Written' = Written
      /\ Moving' = Moving /\ SameAnswers /\ Orphaned' = Orphaned
  BY <1>1, <1>2, <1>5, BindingUnseen
<1>7. Descs!Rebind(fdtab')
  <2>1. \A i \in Entries : Refers(i)' => Refers(i)
    <3>1. \A x \in Clients, y \in FDs : fdtab'[x][y] = fdtab[x][y] \/ fdtab'[x][y] = NULL
      BY <1>2, <1>3 DEF FsInv, Typed
    <3>2. \A i \in Entries : i # NULL
      BY NULLAssumption DEF Entries
    <3> QED
      BY <3>1, <3>2 DEF Refers
  <2> QED
    BY <1>2, <2>1, ServerStays, Rebinds
<1>8. Descs!Close(e, fd)
  BY <1>2, <1>6, <1>7 DEF Descs!Close, SameAnswers
<1> QED
  BY <1>3, <1>6, <1>8 DEF Promised, Descs!Step

\* The pages of two of a client's numbers are one.
LEMMA MapIsDup ==
  ASSUME FsInv, NEW e \in Clients, NEW old \in FDs, NEW new \in FDs, NEW c, Goto(e, c),
         client[e].pc \notin {"recv", "done", "dead"}, c.pc # "dead", c.r = NULL,
         fdtab[e][old] # NULL, fdtab[e][new] = NULL,
         fdtab' = [fdtab EXCEPT ![e][new] = fdtab[e][old]],
         UNCHANGED <<opentab, page, size, server>>
  PROVE  Promised
<1>1. /\ e \in Live /\ Live' = Live /\ Written' = Written
      /\ Moving' = Moving /\ SameAnswers /\ Orphaned' = Orphaned
  BY BindingUnseen
<1>2. Descs!Rebind(fdtab')
  <2>1. \A x \in Clients, y \in FDs : fdtab'[x][y] = fdtab[x][y] \/ fdtab'[x][y] = fdtab[e][old]
    BY DEF FsInv, Typed
  <2>2. \A i \in Entries : Refers(i)' => Refers(i)
    BY <2>1 DEF Refers
  <2> QED
    BY <2>2, ServerStays, Rebinds
<1>3. Descs!Dup(e, old, new)
  BY <1>1, <1>2 DEF Descs!Dup, SameAnswers
<1> QED
  BY <1>1, <1>3 DEF Promised, Descs!Step

LEMMA DupMapIsDup ==
  ASSUME FsInv, NEW e \in Clients, DupMap(e)
  PROVE  Promised
<1>1. /\ client[e].pc = "dup" /\ client[e].req.fd \in FDs /\ fdtab[e][client[e].req.fd] = NULL
      /\ client[e].then.old \in FDs /\ fdtab[e][client[e].then.old] # NULL
  BY DEF DupMap, At, FsInv, ClientOK
<1>2. Idle.pc # "dead" /\ Idle.r = NULL
  BY DEF Idle, Client
<1> QED
  BY <1>1, <1>2, MapIsDup DEF DupMap

LEMMA DupCallIsDup ==
  ASSUME FsInv, NEW e \in Clients, NEW old \in FDs, NEW new \in FDs, dup(e, old, new)
  PROVE  Promised
<1>1. client[e].pc = "run" /\ fdtab[e][old] # NULL
  BY DEF dup, Running, At, fd_lookup
<1>2. CASE fdtab[e][new] # NULL
  <2>1. \E req, then : Call(e, req, then)
    BY <1>2 DEF dup, fd_lookup, Ask
  <2> QED
    BY <1>1, <2>1, CallsAreCalls
<1>3. CASE fdtab[e][new] = NULL
  <2>1. /\ fdtab' = [fdtab EXCEPT ![e][new] = fdtab[e][old]]
        /\ UNCHANGED <<opentab, page, size, client, server>>
    BY <1>3 DEF dup, fd_lookup
  <2>2. Goto(e, client[e])
    BY <2>1 DEF Goto, FsInv, Typed
  <2>3. client[e].r = NULL
    BY <1>1 DEF FsInv, ClientOK
  <2> QED
    BY <1>1, <1>3, <2>1, <2>2, <2>3, MapIsDup
<1> QED
  BY <1>2, <1>3

LEMMA ChildIsInherit ==
  ASSUME FsInv, NEW e \in Clients, NEW c \in Clients, Child(e, c)
  PROVE  Promised
<1>1. /\ client[e].pc = "run" /\ client[c].pc = "dead" /\ client' = [client EXCEPT ![c] = Idle]
      /\ fdtab' = [fdtab EXCEPT ![c] = fdtab[e]] /\ UNCHANGED <<opentab, page, size, server>>
  BY DEF Child, Goto, Running, At
<1>2. client'[c] = Idle /\ \A x \in Clients \ {c} : client'[x] = client[x]
  BY <1>1 DEF FsInv, Typed
<1>3. Idle.pc = "run" /\ Idle.r = NULL
  BY DEF Idle, Client
<1>4. Live' = Live \cup {c} /\ c \notin Live /\ e \in Live
  BY <1>1, <1>2, <1>3 DEF Live
<1>5. SameDescriptions
  <2>1. \A i \in Entries : Refers(i)' <=> Refers(i)
    <3>1. fdtab[c] = Closed
      BY <1>1 DEF FsInv, ClientOK
    <3>2. \A i \in Entries, y \in FDs : fdtab[c][y] # i
      BY <3>1, NULLAssumption DEF Closed, Entries
    <3>3. e # c /\ fdtab'[c] = fdtab[e] /\ \A x \in Clients \ {c} : fdtab'[x] = fdtab[x]
      BY <1>1 DEF FsInv, Typed
    <3> QED
      BY <3>2, <3>3 DEF Refers
  <2>2. \A i \in Entries : Used(i)' <=> Used(i)
    BY <1>1, <2>1, ServerStays DEF Used
  <2> QED
    BY <1>1, <2>2, DescriptionType, NextDescription DEF SameDescriptions
<1>6. Written' = Written /\ Moving' = Moving /\ Orphaned' = Orphaned
  BY <1>1 DEF Written, Moving, Orphaned, Entry
<1>7. SameAnswers
  <2>1. client[c].r = NULL /\ server.whom # c
    BY <1>1 DEF FsInv, ClientOK, ServerOK
  <2> QED
    BY <1>1, <1>2, <1>3, <2>1 DEF SameAnswers, Answered
<1>8. Descs!Inherit(e, c)
  BY <1>1, <1>4, <1>5, <1>6, <1>7 DEF Descs!Inherit, SameDescriptions, SameAnswers
<1> QED
  BY <1>4, <1>8 DEF Promised, Descs!Step

LEMMA GoneIsDie ==
  ASSUME FsInv, NEW e \in Clients, Gone(e), client[e].pc # "dead"
  PROVE  Promised
<1>1. /\ fdtab' = [fdtab EXCEPT ![e] = Closed] /\ client' = [client EXCEPT ![e] = Dead]
      /\ server' = [server EXCEPT !.whom = IF @ = e THEN NULL ELSE @]
      /\ UNCHANGED <<opentab, page, size>>
  BY DEF Gone, Goto
<1>2. client'[e] = Dead /\ \A x \in Clients \ {e} : client'[x] = client[x]
  BY <1>1 DEF FsInv, Typed
<1>3. Dead.pc = "dead" /\ Dead.r = NULL
  BY DEF Dead, Client
<1>4. Live' = Live \ {e} /\ e \in Live
  BY <1>2, <1>3 DEF Live
<1>5. Closed = Descs!Closed
  BY DEF Closed, Descs!Closed
<1> DEFINE w == IF server.whom = e THEN NULL ELSE server.whom
<1>7. /\ server'.pc = server.pc /\ server'.req = server.req /\ server'.r = server.r
      /\ server'.whom = w
  <2>1. server = Server(server.pc, server.whom, server.req, server.r, server.pg)
    BY DEF FsInv, ServerOK
  <2>2. server' = [server EXCEPT !.whom = w]
    BY <1>1
  <2> HIDE DEF w
  <2> QED
    BY <2>1, <2>2 DEF Server
<1>6. Descs!Rebind(fdtab')
  <2>1. \A i \in Entries : Refers(i)' => Refers(i)
    <3>1. \A i \in Entries : i # NULL
      BY NULLAssumption DEF Entries
    <3>2. \A x \in Clients, y \in FDs : fdtab'[x][y] = fdtab[x][y] \/ fdtab'[x][y] = NULL
      BY <1>1 DEF FsInv, Typed, Closed
    <3> QED
      BY <3>1, <3>2 DEF Refers
  <2> QED
    BY <1>1, <1>7, <2>1, ServerStays, Rebinds
<1>8. /\ Moving' = Moving
      /\ Written' = IF Written = NULL THEN NULL
                    ELSE [Written EXCEPT !.p = IF @ = e THEN NULL ELSE @]
  <2>1. CASE server.pc \in {"extend", "write"}
    <3>1. Written # NULL
      BY <2>1, WrittenType
    <3>2. Written = [p |-> server.whom, d |-> Entry(server.req.id), n |-> server.req.n,
                     next |-> server.pc]
      BY <2>1 DEF Written
    <3>3. Written' = [p |-> w, d |-> Entry(server.req.id), n |-> server.req.n,
                      next |-> server.pc]
      BY <1>7, <2>1 DEF Written, Entry
    <3>4. [Written EXCEPT !.p = IF @ = e THEN NULL ELSE @]
            = [p |-> w, d |-> Entry(server.req.id), n |-> server.req.n, next |-> server.pc]
      BY <3>2
    <3>5. Moving' = Moving
      BY <1>7, <2>1 DEF Moving
    <3> QED
      BY <3>1, <3>3, <3>4, <3>5
  <2>2. CASE server.pc \notin {"extend", "write"}
    BY <1>7, <2>2, NoWrite DEF Moving, Entry
  <2> QED
    BY <2>1, <2>2
<1>9. Answered(e)' = NULL /\ \A x \in Clients \ {e} : Answered(x)' = Answered(x)
  BY <1>2, <1>3, <1>7, NULLAssumption DEF Answered
<1>10. Orphaned' \in BOOLEAN
  BY DEF Orphaned
<1>11. Descs!Die(e)
  BY <1>1, <1>4, <1>5, <1>6, <1>8, <1>9, <1>10 DEF Descs!Die
<1> QED
  BY <1>4, <1>11 DEF Promised, Descs!Step

LEMMA SeekIsSeek ==
  ASSUME FsInv, NEW e \in Clients, NEW fd \in FDs, NEW offset \in Places, seek(e, fd, offset),
         NEW i, i = fdtab[e][fd]
  PROVE  Promised
<1>1. /\ client[e].pc = "run" /\ i # NULL
      /\ page' = [page EXCEPT ![i].offset = offset]
      /\ UNCHANGED <<opentab, fdtab, size, client, server>>
  BY DEF seek, Running, At, fd_lookup
<1>2. i \in Entries /\ Refers(i)
  BY <1>1 DEF FsInv, Typed, Refers
<1>3. page[i] \in FdPages
  BY <1>2 DEF FsInv, Typed, TablesAgree
<1>4. page'[i].offset = offset /\ page'[i].omode = page[i].omode
      /\ \A k \in Entries : k # i => page'[k] = page[k]
  BY <1>1, <1>2, <1>3 DEF FsInv, Typed, FdPages
<1>5. Used(i) /\ \A k \in Entries : Used(k)' <=> Used(k)
  BY <1>1, <1>2, ServerStays DEF Used, Refers
<1>6. Description(i)' = [Description(i) EXCEPT !.offset = offset] /\ Description(i) # NULL
      /\ \A k \in Entries : k # i => Description(k)' = Description(k)
  <2>1. Description(i) = [file |-> opentab[i].file, offset |-> page[i].offset, mode |-> page[i].omode]
        /\ Description(i) # NULL
    BY <1>2, <1>5, DescriptionType
  <2>2. Description(i)' = [file |-> opentab[i].file, offset |-> offset, mode |-> page[i].omode]
    BY <1>1, <1>2, <1>4, <1>5, NextDescription
  <2>3. \A k \in Entries : k # i => Description(k)' = Description(k)
    BY <1>1, <1>4, <1>5, DescriptionType, NextDescription
  <2> QED
    BY <2>1, <2>2, <2>3
<1>7. /\ Live' = Live /\ e \in Live /\ Written' = Written
      /\ Moving' = Moving /\ Orphaned' = Orphaned
  BY <1>1 DEF Live, Written, Moving, Orphaned, Entry
<1>8. SameAnswers
  BY <1>1 DEF SameAnswers, Answered
<1>9. [k \in Entries |-> Description(k)'] = [[k \in Entries |-> Description(k)] EXCEPT ![i].offset = offset]
  BY <1>2, <1>6
<1>10. Descs!Seek(e, i, offset)
  <2>1. Descs!Has(e, i)
    BY <1>2, <1>6 DEF Descs!Has
  <2> QED
    BY <1>1, <1>7, <1>8, <1>9, <2>1 DEF Descs!Seek, SameAnswers
<1> QED
  BY <1>2, <1>7, <1>10 DEF Promised, Descs!Step

\* The request that the server carries out has its result, also when its client
\* is gone.
LEMMA Returns ==
  ASSUME FsInv, NEW p, p = server.whom, NEW r,
         server.pc \in Begun, server'.pc \in {"advance", "reply"},
         server'.whom = p, server'.r = r, client' = client
  PROVE  Descs!Returned(p, r) /\ p \in Live \cup {NULL} /\ Live' = Live
<1>1. ServerOK
  BY DEF FsInv
<1>2. Live' = Live
  BY DEF Live
<1>3. CASE p = NULL
  <2>1. Orphaned = TRUE /\ Orphaned' = FALSE
    BY <1>3 DEF Orphaned, Begun
  <2>2. \A x \in Clients : Answered(x)' = Answered(x)
    BY <1>3, NULLAssumption DEF Answered
  <2> QED
    BY <1>2, <1>3, <2>1, <2>2 DEF Descs!Returned
<1>4. CASE p # NULL
  <2>1. p \in Clients /\ client[p].pc = "recv"
    BY <1>1, <1>4 DEF ServerOK
  <2>2. Orphaned' = Orphaned
    BY <1>4 DEF Orphaned
  <2>3. Answered(p)' = r /\ \A x \in Clients \ {p} : Answered(x)' = Answered(x)
    BY <2>1 DEF Answered
  <2>4. [x \in Clients |-> Answered(x)'] = [[x \in Clients |-> Answered(x)] EXCEPT ![p] = r]
    BY <2>1, <2>3
  <2> QED
    BY <1>2, <1>4, <2>1, <2>2, <2>4 DEF Descs!Returned, Live
<1> QED
  BY <1>3, <1>4

\* The same of an answer
LEMMA RepliesReturn ==
  ASSUME FsInv, NEW p, p = server.whom, NEW r, NEW pg, Reply(r, pg),
         server.pc = "serve", client' = client
  PROVE  /\ Descs!Returned(p, r) /\ p \in Live \cup {NULL} /\ Live' = Live
         /\ Written' = Written /\ Moving' = Moving
<1>1. server = Server(server.pc, server.whom, server.req, server.r, server.pg)
  BY DEF FsInv, ServerOK
<1>2. server' = Server("reply", server.whom, NULL, r, pg)
  BY <1>1 DEF Reply, Server
<1>3. server'.pc = "reply" /\ server'.whom = p /\ server'.r = r
  BY <1>2 DEF Server
<1>4. Written' = Written /\ Moving' = Moving
  BY <1>3, NoWrite DEF Moving
<1> QED
  BY <1>3, <1>4, Returns DEF Begun

LEMMA TransfersStart ==
  ASSUME FsInv, NEW p, p = server.whom, NEW r, MoveLater(r),
         server.pc \in {"serve", "write"}, client' = client
  PROVE  /\ Descs!Returned(p, r) /\ p \in Live \cup {NULL} /\ Live' = Live
         /\ Written' = NULL /\ \A i \in Entries : ~Busy(i)'
         /\ Moving = NULL /\ Moving' = [d |-> Entry(server.req.id), n |-> r.n]
<1>1. server = Server(server.pc, server.whom, server.req, server.r, server.pg)
  BY DEF FsInv, ServerOK
<1>2. server' = Server("advance", server.whom, server.req, r, server.pg)
  BY <1>1 DEF MoveLater, Server
<1>3. server'.pc = "advance" /\ server'.whom = p /\ server'.r = r /\ server'.req = server.req
  BY <1>2 DEF Server
<1>4. Moving = NULL /\ Moving' = [d |-> Entry(server.req.id), n |-> r.n]
  BY <1>3 DEF Moving, Entry
<1>5. Written' = NULL /\ \A i \in Entries : ~Busy(i)'
  BY <1>3 DEF Written, Busy
<1> QED
  BY <1>3, <1>4, <1>5, Returns DEF Begun

\* Who asks has the description the request is carried out on.
LEMMA AskersHave ==
  ASSUME FsInv, NEW p, p = server.whom, NEW op \in FileOps, Lookup(op),
         NEW i, i = Entry(server.req.id)
  PROVE  /\ Descs!Has(p, i) /\ i \in Entries
         /\ Description(i) = [file |-> Opened, offset |-> Offset, mode |-> page[i].omode]
<1>1. /\ server.pc = "serve" /\ server.req.op = op
      /\ i \in Entries /\ Refers(i)
  BY LookupType
<1>2. Description(i) = [file |-> Opened, offset |-> Offset, mode |-> page[i].omode]
      /\ Description(i) # NULL
  BY <1>1, DescriptionType DEF Opened, Offset, Used
<1>3. ASSUME p # NULL
      PROVE  \E fd \in FDs : fdtab[p][fd] = i
  <2>1. p \in Clients /\ client[p].pc = "recv" /\ server.req = client[p].req
    BY <1>1, <1>3 DEF FsInv, ServerOK, Begun
  <2>2. Waits(p)
    BY <2>1 DEF FsInv, ClientOK
  <2>3. server.req.fd \in FDs /\ fdtab[p][server.req.fd] = i
    BY <1>1, <2>1, <2>2 DEF Waits, FileOps, Asks
  <2> QED
    BY <2>3
<1>4. Descs!Has(p, i)
  BY <1>1, <1>2, <1>3 DEF Descs!Has
<1> QED
  BY <1>1, <1>2, <1>4

LEMMA OpenIsPrepare ==
  ASSUME FsInv, serve_open
  PROVE  Promised
<1> DEFINE i == Least(Available)
<1>1. PICK p, f : p = server.whom /\ f = server.req.file
  OBVIOUS
<1>2. /\ server.pc = "serve" /\ server.req.op = "open" /\ ServerOK
      /\ Reply(Failed("found", f), i) /\ UNCHANGED <<fdtab, client>>
  BY <1>1 DEF serve_open, Serving, FsInv
<1>3. i \in Entries /\ ~Refers(i)
  BY AvailableType DEF serve_open
<1>4. f \in Files
  BY <1>1, <1>2 DEF ServerOK, Handles, Asks, FileOps, Begun
<1> HIDE DEF i
<1>5. \A k \in Entries : k # i => opentab'[k] = opentab[k] /\ page'[k] = page[k]
  BY DEF serve_open, FsInv, Typed, i
<1>6. SameDescriptions
  BY <1>2, <1>3, <1>5, ReplyIsQuiet, DescriptionsKept DEF Used
<1>7. (UNCHANGED size /\ size[f] # NULL) \/ size' = [size EXCEPT ![f] = 0]
  <2>1. size' = [size EXCEPT ![f] = IF ~Exists(f) \/ "trunc" \in server.req.flags THEN 0 ELSE @]
    BY <1>1 DEF serve_open
  <2>2. CASE ~Exists(f) \/ "trunc" \in server.req.flags
    BY <2>1, <2>2
  <2>3. CASE Exists(f) /\ "trunc" \notin server.req.flags
    BY <1>4, <2>1, <2>3 DEF Exists, FsInv, Typed
  <2> QED
    BY <2>2, <2>3
<1>8. /\ Descs!Returned(p, Failed("found", f)) /\ p \in Live \cup {NULL} /\ Live' = Live
      /\ Written' = Written /\ Moving' = Moving
  BY <1>1, <1>2, RepliesReturn
<1>9. Failed("found", f) = Descs!NoBytes("found", f)
  BY DEF Failed, Result, Descs!NoBytes, Descs!Bytes
<1>10. Descs!Prepare(p, f)
  BY <1>2, <1>6, <1>7, <1>8, <1>9 DEF Descs!Prepare, SameDescriptions
<1> QED
  BY <1>4, <1>8, <1>10 DEF Promised, Descs!Step, FsInv, Typed

LEMMA OpenFailsIsRefuse ==
  ASSUME FsInv, serve_open_fails
  PROVE  Promised
<1> DEFINE i == Least(Available)
<1>1. PICK p, f : p = server.whom /\ f = server.req.file
  OBVIOUS
<1>2. /\ server.pc = "serve" /\ server.req.op = "open" /\ ServerOK
      /\ Reply(Failed("refused", f), NULL) /\ UNCHANGED <<fdtab, size, client>>
  BY <1>1 DEF serve_open_fails, Serving, FsInv
<1>3. f \in Files
  BY <1>1, <1>2 DEF ServerOK, Handles, Asks, FileOps, Begun
<1>4. SameDescriptions
  <2>1. CASE UNCHANGED <<opentab, page>>
    BY <1>2, <2>1, ReplyIsQuiet, DescriptionsKept
  <2>2. CASE Available # {} /\ openfile_alloc(i, opentab[i].file)
    <3>1. i \in Entries /\ ~Refers(i)
      BY <2>2, AvailableType
    <3> HIDE DEF i
    <3>2. \A k \in Entries : k # i => opentab'[k] = opentab[k] /\ page'[k] = page[k]
      BY <2>2 DEF openfile_alloc, FsInv, Typed
    <3> QED
      BY <1>2, <3>1, <3>2, ReplyIsQuiet, DescriptionsKept DEF Used
  <2> QED
    BY <2>1, <2>2 DEF serve_open_fails
<1>5. /\ Descs!Returned(p, Failed("refused", f)) /\ p \in Live \cup {NULL} /\ Live' = Live
      /\ Written' = Written /\ Moving' = Moving
  BY <1>1, <1>2, RepliesReturn
<1>6. Failed("refused", f) = Descs!NoBytes("refused", f)
  BY DEF Failed, Result, Descs!NoBytes, Descs!Bytes
<1>7. Descs!Refuse(p, f)
  BY <1>2, <1>4, <1>5, <1>6 DEF Descs!Refuse, SameDescriptions
<1> QED
  BY <1>3, <1>5, <1>7 DEF Promised, Descs!Step, FsInv, Typed

\* Only the request of a client that is gone can name no open file.
LEMMA InvalidIsOfTheDead ==
  ASSUME FsInv, Invalid
  PROVE  Promised
<1>1. /\ server.pc = "serve" /\ server.req.op \notin {"open", "sync"} /\ ~Valid(server.req.id)
      /\ Reply(Failed("invalid", NULL), NULL)
      /\ UNCHANGED <<opentab, page, fdtab, size, client>>
  BY DEF Invalid
<1>2. server.whom = NULL
  <2> SUFFICES ASSUME server.whom # NULL
               PROVE  FALSE
    OBVIOUS
  <2>1. PICK p \in Clients : p = server.whom
    BY DEF FsInv, ServerOK
  <2>2. client[p].pc = "recv" /\ server.req = client[p].req
    BY <1>1, <2>1 DEF FsInv, ServerOK, Begun
  <2>3. Waits(p)
    BY <2>1, <2>2 DEF FsInv, ClientOK
  <2>4. Asks(server.req) /\ Names(server.req) /\ fdtab[p][server.req.fd] = Entry(server.req.id)
    BY <1>1, <2>2, <2>3 DEF Waits
  <2>5. Entry(server.req.id) \in Entries
    BY <2>4, IdTypes DEF Asks
  <2>6. Refers(Entry(server.req.id))
    BY <2>4 DEF Refers, Asks
  <2>7. Valid(server.req.id)
    BY <2>4, <2>5, <2>6, References DEF Valid, Names, FsInv
  <2> QED
    BY <1>1, <2>7
<1>3. /\ Descs!Returned(NULL, Failed("invalid", NULL)) /\ Live' = Live
      /\ Written' = Written /\ Moving' = Moving
  BY <1>1, <1>2, RepliesReturn
<1>4. SameDescriptions
  BY <1>1, ReplyIsQuiet, DescriptionsKept
<1>5. Descs!Returned(NULL, Descs!NoBytes("sync", NULL))
  BY <1>3 DEF Descs!Returned
<1>6. Descs!Sync(NULL)
  BY <1>1, <1>3, <1>4, <1>5 DEF Descs!Sync, SameDescriptions
<1> QED
  BY <1>6 DEF Promised, Descs!Step

LEMMA SyncIsSync ==
  ASSUME FsInv, serve_sync
  PROVE  Promised
<1>1. PICK p : p = server.whom
  OBVIOUS
<1>2. /\ server.pc = "serve" /\ Reply(Failed("sync", NULL), NULL)
      /\ UNCHANGED <<opentab, page, fdtab, size, client>>
  BY DEF serve_sync, Serving
<1>3. /\ Descs!Returned(p, Failed("sync", NULL)) /\ p \in Live \cup {NULL} /\ Live' = Live
      /\ Written' = Written /\ Moving' = Moving
  BY <1>1, <1>2, RepliesReturn
<1>4. SameDescriptions
  BY <1>2, ReplyIsQuiet, DescriptionsKept
<1>5. Failed("sync", NULL) = Descs!NoBytes("sync", NULL)
  BY DEF Failed, Result, Descs!NoBytes, Descs!Bytes
<1>6. Descs!Sync(p)
  BY <1>2, <1>3, <1>4, <1>5 DEF Descs!Sync, SameDescriptions
<1> QED
  BY <1>3, <1>6 DEF Promised, Descs!Step

LEMMA StatIsStat ==
  ASSUME FsInv, serve_stat
  PROVE  Promised
<1>1. PICK p, i : p = server.whom /\ i = Entry(server.req.id)
  OBVIOUS
<1>2. /\ Lookup("stat") /\ Reply(Result("stat", Opened, 0, size[Opened]), NULL)
      /\ UNCHANGED <<opentab, page, fdtab, size, client>>
  BY DEF serve_stat
<1>3. server.pc = "serve" /\ "stat" \in FileOps
  BY <1>2 DEF Lookup, Serving, FileOps
<1>4. /\ Descs!Has(p, i) /\ i \in Entries
      /\ Description(i) = [file |-> Opened, offset |-> Offset, mode |-> page[i].omode]
  BY <1>1, <1>2, <1>3, AskersHave
<1>5. /\ Descs!Returned(p, Result("stat", Opened, 0, size[Opened]))
      /\ p \in Live \cup {NULL} /\ Live' = Live /\ Written' = Written /\ Moving' = Moving
  BY <1>1, <1>2, <1>3, RepliesReturn
<1>6. SameDescriptions
  BY <1>2, <1>3, ReplyIsQuiet, DescriptionsKept
<1>7. Description(i).file = Opened
  BY <1>4
<1>8. Result("stat", Opened, 0, size[Opened]) = Descs!Bytes("stat", Opened, 0, size[Opened])
  BY DEF Result, Descs!Bytes
<1>9. Descs!Stat(p, i)
  BY <1>2, <1>4, <1>5, <1>6, <1>7, <1>8 DEF Descs!Stat, SameDescriptions
<1> QED
  BY <1>4, <1>5, <1>9 DEF Promised, Descs!Step

LEMMA FlushIsFlush ==
  ASSUME FsInv, serve_flush
  PROVE  Promised
<1>1. PICK p, i : p = server.whom /\ i = Entry(server.req.id)
  OBVIOUS
<1>2. /\ Lookup("flush") /\ Reply(Failed("flush", Opened), NULL)
      /\ UNCHANGED <<opentab, page, fdtab, size, client>>
  BY DEF serve_flush
<1>3. server.pc = "serve" /\ "flush" \in FileOps
  BY <1>2 DEF Lookup, Serving, FileOps
<1>4. /\ Descs!Has(p, i) /\ i \in Entries
      /\ Description(i) = [file |-> Opened, offset |-> Offset, mode |-> page[i].omode]
  BY <1>1, <1>2, <1>3, AskersHave
<1>5. /\ Descs!Returned(p, Failed("flush", Opened))
      /\ p \in Live \cup {NULL} /\ Live' = Live /\ Written' = Written /\ Moving' = Moving
  BY <1>1, <1>2, <1>3, RepliesReturn
<1>6. SameDescriptions
  BY <1>2, <1>3, ReplyIsQuiet, DescriptionsKept
<1>7. Description(i).file = Opened
  BY <1>4
<1>8. Failed("flush", Opened) = Descs!NoBytes("flush", Opened)
  BY DEF Failed, Result, Descs!NoBytes, Descs!Bytes
<1>9. Descs!Flush(p, i)
  BY <1>2, <1>4, <1>5, <1>6, <1>7, <1>8 DEF Descs!Flush, SameDescriptions
<1> QED
  BY <1>4, <1>5, <1>9 DEF Promised, Descs!Step

LEMMA SetSizeIsSetSize ==
  ASSUME FsInv, serve_set_size
  PROVE  Promised
<1>1. PICK p, i, n : p = server.whom /\ i = Entry(server.req.id) /\ n = server.req.n
  OBVIOUS
<1>2. /\ Lookup("set_size") /\ Reply(Failed("set_size", Opened), NULL)
      /\ size' = [size EXCEPT ![Opened] = n]
      /\ UNCHANGED <<opentab, page, fdtab, client>>
  BY <1>1 DEF serve_set_size
<1>3. "set_size" \in FileOps
  BY DEF FileOps
<1>4. /\ Descs!Has(p, i) /\ i \in Entries
      /\ Description(i) = [file |-> Opened, offset |-> Offset, mode |-> page[i].omode]
  BY <1>1, <1>2, <1>3, AskersHave
<1>5. server.pc = "serve" /\ n \in Places /\ page[i].omode # "r"
  BY <1>1, <1>2, <1>3, LookupType DEF Asks, Names
<1>6. /\ Descs!Returned(p, Failed("set_size", Opened))
      /\ p \in Live \cup {NULL} /\ Live' = Live /\ Written' = Written /\ Moving' = Moving
  BY <1>1, <1>2, <1>5, RepliesReturn
<1>7. SameDescriptions
  BY <1>2, <1>5, ReplyIsQuiet, DescriptionsKept
<1>8. Description(i).file = Opened /\ Description(i).mode # "r"
  BY <1>4, <1>5
<1>9. Failed("set_size", Opened) = Descs!NoBytes("set_size", Opened)
  BY DEF Failed, Result, Descs!NoBytes, Descs!Bytes
<1>10. Descs!SetSize(p, i, n)
  BY <1>2, <1>4, <1>6, <1>7, <1>8, <1>9 DEF Descs!SetSize, SameDescriptions
<1> QED
  BY <1>4, <1>5, <1>6, <1>10 DEF Promised, Descs!Step

LEMMA ReadIsRead ==
  ASSUME FsInv, serve_read
  PROVE  Promised
<1>1. PICK p, i, asked : p = server.whom /\ i = Entry(server.req.id) /\ asked = server.req.n
  OBVIOUS
<1> DEFINE f == Opened
           at == Offset
           left == IF at >= size[f] THEN 0 ELSE size[f] - at
           n == IF asked < left THEN asked ELSE left
           m == IF left < asked THEN left ELSE asked
<1>2. /\ Lookup("read") /\ MoveLater(Result("read", f, at, n))
      /\ UNCHANGED <<opentab, page, fdtab, size, client>>
  BY <1>1 DEF serve_read
<1>3. "read" \in FileOps
  BY DEF FileOps
<1>4. /\ Descs!Has(p, i) /\ i \in Entries
      /\ Description(i) = [file |-> f, offset |-> at, mode |-> page[i].omode]
  BY <1>1, <1>2, <1>3, AskersHave
<1>5. /\ server.pc = "serve" /\ asked \in Sizes /\ page[i].omode # "w"
      /\ at \in Nat /\ size[f] \in Nat
  BY <1>1, <1>2, <1>3, LookupType DEF Asks, Names
<1>6. n = m
  BY <1>5, RequestsAssumption
<1> HIDE DEF n
<1>7. /\ Descs!Returned(p, Result("read", f, at, n))
      /\ p \in Live \cup {NULL} /\ Live' = Live
      /\ Written = NULL /\ Written' = NULL /\ Quiet
      /\ Moving = NULL /\ Moving' = [d |-> i, n |-> Result("read", f, at, n).n]
  BY <1>1, <1>2, <1>5, WrittenType, TransfersStart DEF Quiet
<1>8. SameDescriptions
  BY <1>2, <1>7, DescriptionsKept
<1>9. Description(i).file = f /\ Description(i).offset = at /\ Description(i).mode # "w"
  BY <1>4, <1>5
<1>10. Result("read", f, at, n) = Descs!Bytes("read", f, at, n) /\ Result("read", f, at, n).n = n
  BY DEF Result, Descs!Bytes
<1> HIDE DEF f, at, left, m
<1>11. m = IF left < asked THEN left ELSE asked
  BY DEF m
<1>12. left = IF at >= size[f] THEN 0 ELSE size[f] - at
  BY DEF left
<1>13. Descs!Read(p, i, asked)
  BY <1>2, <1>4, <1>6, <1>7, <1>8, <1>9, <1>10, <1>11, <1>12 DEF Descs!Read, SameDescriptions
<1> QED
  BY <1>4, <1>5, <1>7, <1>13 DEF Promised, Descs!Step

\* A write begins: the server finds whether it must make the file longer.
LEMMA WriteIsWrite ==
  ASSUME FsInv, serve_write
  PROVE  Promised
<1>1. PICK p, i, n, pc :
        /\ p = server.whom /\ i = Entry(server.req.id) /\ n = server.req.n
        /\ pc = IF End > size[Opened] THEN "extend" ELSE "write"
  OBVIOUS
<1>2. /\ Lookup("write") /\ Then(pc) /\ UNCHANGED <<opentab, page, fdtab, size, client>>
  BY <1>1 DEF serve_write
<1>3. "write" \in FileOps
  BY DEF FileOps
<1>4. /\ Descs!Has(p, i) /\ i \in Entries
      /\ Description(i) = [file |-> Opened, offset |-> Offset, mode |-> page[i].omode]
  BY <1>1, <1>2, <1>3, AskersHave
<1>5. server.pc = "serve" /\ n \in Sizes /\ page[i].omode # "r" /\ Refers(i)
  BY <1>1, <1>2, <1>3, LookupType DEF Asks, Names
<1>6. server'.pc = pc /\ server'.whom = p /\ server'.req = server.req
  <2>1. server = Server(server.pc, server.whom, server.req, server.r, server.pg)
    BY DEF FsInv, ServerOK
  <2>2. server' = Server(pc, server.whom, server.req, server.r, server.pg)
    BY <1>2, <2>1 DEF Then, Server
  <2> QED
    BY <1>1, <2>2 DEF Server
<1>7. /\ pc \in {"extend", "write"}
      /\ pc = IF Offset + n > size[Opened] THEN "extend" ELSE "write"
  BY <1>1 DEF End
<1>8. /\ Written = NULL
      /\ Written' = [p |-> p, d |-> i, n |-> n, next |-> pc]
  BY <1>1, <1>5, <1>6, <1>7, WrittenType DEF Written, Entry
<1>9. SameDescriptions
  <2>1. \A k \in Entries : k # i => ~Busy(k) /\ ~Busy(k)'
    BY <1>1, <1>5, <1>6 DEF Busy, Entry
  <2>2. Quiet
    BY <1>5, <2>1 DEF Quiet
  <2> QED
    BY <1>2, <2>2, DescriptionsKept
<1>10. Moving = NULL /\ Moving' = NULL /\ Orphaned' = Orphaned /\ SameAnswers /\ Live' = Live
  BY <1>1, <1>2, <1>5, <1>6, <1>7 DEF Moving, Orphaned, SameAnswers, Answered, Live
<1>11. p \in Live \cup {NULL} /\ (p = NULL => Orphaned)
  BY <1>1, <1>5 DEF FsInv, ServerOK, Live, Orphaned
<1>12. /\ Description(i).file = Opened /\ Description(i).offset = Offset
       /\ Description(i).mode # "r"
  BY <1>4, <1>5
<1>13. Descs!Write(p, i, n)
  BY <1>2, <1>4, <1>7, <1>8, <1>9, <1>10, <1>11, <1>12 DEF Descs!Write, SameDescriptions, SameAnswers
<1> QED
  BY <1>4, <1>5, <1>11, <1>13 DEF Promised, Descs!Step

\* The description that is written
LEMMA WrittenDescription ==
  ASSUME FsInv, server.pc \in {"extend", "write"}, NEW i, i = Entry(server.req.id)
  PROVE  /\ i \in Entries /\ Busy(i) /\ \A k \in Entries : k # i => ~Busy(k)
         /\ Description(i) = [file |-> Opened, offset |-> Offset, mode |-> page[i].omode]
         /\ Written # NULL /\ Written.d = i /\ Written.p = server.whom /\ Written.n = server.req.n
         /\ Descs!WriteEnd = End
<1>1. i \in Entries /\ Busy(i) /\ \A k \in Entries : k # i => ~Busy(k)
  BY WritingType DEF Busy
<1>2. Description(i) = [file |-> Opened, offset |-> Offset, mode |-> page[i].omode]
  BY <1>1, DescriptionType DEF Opened, Offset, Used
<1>3. /\ Written # NULL /\ Written.d = i /\ Written.p = server.whom
      /\ Written.n = server.req.n
  BY WrittenType
<1>4. Descs!WriteEnd = End
  BY <1>1, <1>2, <1>3 DEF Descs!WriteEnd, End
<1> QED
  BY <1>1, <1>2, <1>3, <1>4

LEMMA ExtendIsGrow ==
  ASSUME FsInv, Extend
  PROVE  Promised
<1>1. PICK i, f : i = Entry(server.req.id) /\ f = Opened
  OBVIOUS
<1>2. /\ server.pc = "extend" /\ size' = [size EXCEPT ![f] = End] /\ Then("write")
      /\ UNCHANGED <<opentab, page, fdtab, client>>
  BY <1>1 DEF Extend, Writing
<1>3. /\ i \in Entries /\ Written # NULL /\ Written.d = i /\ Descs!WriteEnd = End
      /\ Description(i).file = f
  BY <1>1, <1>2, WrittenDescription
<1>4. server'.pc = "write" /\ server'.whom = server.whom /\ server'.req = server.req
  <2>1. server = Server(server.pc, server.whom, server.req, server.r, server.pg)
    BY DEF FsInv, ServerOK
  <2>2. server' = Server("write", server.whom, server.req, server.r, server.pg)
    BY <1>2, <2>1 DEF Then, Server
  <2> QED
    BY <2>2 DEF Server
<1>5. Written.next = "extend" /\ Written' = [Written EXCEPT !.next = "write"]
  <2>1. Written = [p |-> server.whom, d |-> i, n |-> server.req.n, next |-> "extend"]
    BY <1>1, <1>2 DEF Written
  <2>2. Written' = [p |-> server.whom, d |-> i, n |-> server.req.n, next |-> "write"]
    BY <1>1, <1>4 DEF Written, Entry
  <2> QED
    BY <2>1, <2>2
<1>6. SameDescriptions
  <2>1. Quiet
    BY <1>2, <1>4 DEF Quiet, Busy, Entry
  <2> QED
    BY <1>2, <2>1, DescriptionsKept
<1>7. Moving' = Moving /\ Orphaned' = Orphaned /\ SameAnswers /\ Live' = Live
  BY <1>2, <1>4 DEF Moving, Orphaned, SameAnswers, Answered, Live
<1>8. Descs!Grow
  BY <1>2, <1>3, <1>5, <1>6, <1>7 DEF Descs!Grow, SameDescriptions, SameAnswers
<1> QED
  BY <1>8 DEF Promised, Descs!Step

LEMMA PutIsPut ==
  ASSUME FsInv, file_write
  PROVE  Promised
<1>1. PICK p, i, f, at, n :
        /\ p = server.whom /\ i = Entry(server.req.id) /\ f = Opened
        /\ at = Offset /\ n = server.req.n
  OBVIOUS
<1>2. /\ server.pc = "write" /\ size' = [size EXCEPT ![f] = IF End > @ THEN End ELSE @]
      /\ MoveLater(Result("write", f, at, n))
      /\ UNCHANGED <<opentab, page, fdtab, client>>
  BY <1>1 DEF file_write, Writing
<1>3. /\ i \in Entries /\ Written # NULL /\ Written.d = i /\ Written.p = p /\ Written.n = n
      /\ Descs!WriteEnd = End
      /\ Description(i).file = f /\ Description(i).offset = at
  BY <1>1, <1>2, WrittenDescription
<1>4. Written.next = "write"
  BY <1>2, WrittenType
<1>5. /\ Descs!Returned(p, Result("write", f, at, n)) /\ Live' = Live
      /\ Written' = NULL /\ \A k \in Entries : ~Busy(k)'
      /\ Moving' = [d |-> i, n |-> Result("write", f, at, n).n]
  BY <1>1, <1>2, TransfersStart
<1>6. Result("write", f, at, n) = Descs!Bytes("write", f, at, n) /\ Result("write", f, at, n).n = n
  BY DEF Result, Descs!Bytes
<1>7. [k \in Entries |-> Description(k)'] = Descs!Kept(fdtab, NULL)
  <2>1. \A k \in Entries : Used(k)' <=> Descs!InUse(fdtab, NULL, k)
    BY <1>2, <1>5 DEF Used, Refers, Descs!InUse
  <2>2. \A k \in Entries : Used(k)' => Used(k)
    BY <1>2, <1>5 DEF Used, Refers
  <2>3. \A k \in Entries :
          Description(k)' = IF Descs!InUse(fdtab, NULL, k) THEN Description(k) ELSE NULL
    BY <1>2, <2>1, <2>2, DescriptionType, NextDescription
  <2> QED
    BY <2>3 DEF Descs!Kept
<1>8. Descs!Put
  BY <1>2, <1>3, <1>4, <1>5, <1>6, <1>7 DEF Descs!Put
<1> QED
  BY <1>8 DEF Promised, Descs!Step

LEMMA AdvanceIsMove ==
  ASSUME FsInv, Advance
  PROVE  Promised
<1>1. PICK i, n : i = Entry(server.req.id) /\ n = server.r.n
  OBVIOUS
<1>2. /\ server.pc = "advance" /\ ServerOK
      /\ page' = [page EXCEPT ![i].offset = @ + n]
      /\ server' = [server EXCEPT !.pc = "reply", !.req = NULL]
      /\ UNCHANGED <<opentab, fdtab, size, client>>
  BY <1>1 DEF Advance, FsInv
<1>3. i \in Entries /\ page[i] # NULL /\ n \in Nat
  BY <1>1, <1>2, IdTypes DEF ServerOK
<1>4. page[i] \in FdPages
  BY <1>3 DEF FsInv, Typed
<1>5. page'[i].offset = page[i].offset + n /\ page'[i].omode = page[i].omode
      /\ \A k \in Entries : k # i => page'[k] = page[k]
  BY <1>2, <1>3, <1>4 DEF FsInv, Typed, FdPages
<1>9. server'.pc = "reply" /\ server'.whom = server.whom /\ server'.r = server.r
  <2>1. server = Server(server.pc, server.whom, server.req, server.r, server.pg)
    BY <1>2 DEF ServerOK
  <2>2. server' = Server("reply", server.whom, NULL, server.r, server.pg)
    BY <1>2, <2>1 DEF Server
  <2> QED
    BY <2>2 DEF Server
<1>6. Written' = Written /\ \A k \in Entries : Used(k)' <=> Used(k)
  BY <1>2, <1>9, NoWrite DEF Used, Refers
<1>7. Description(i)' = (IF Description(i) = NULL THEN NULL ELSE [Description(i) EXCEPT !.offset = @ + n])
      /\ \A k \in Entries : k # i => Description(k)' = Description(k)
  <2>1. CASE Used(i)
    <3>1. Description(i) = [file |-> opentab[i].file, offset |-> page[i].offset, mode |-> page[i].omode]
          /\ Description(i) # NULL
      BY <1>3, <2>1, DescriptionType
    <3>2. Description(i)' = [file |-> opentab[i].file, offset |-> page[i].offset + n, mode |-> page[i].omode]
      BY <1>2, <1>3, <1>5, <1>6, <2>1, NextDescription
    <3>3. [Description(i) EXCEPT !.offset = @ + n]
            = [file |-> opentab[i].file, offset |-> page[i].offset + n, mode |-> page[i].omode]
      BY <3>1
    <3>4. \A k \in Entries : k # i => Description(k)' = Description(k)
      BY <1>2, <1>5, <1>6, DescriptionType, NextDescription
    <3> QED
      BY <3>1, <3>2, <3>3, <3>4
  <2>2. CASE ~Used(i)
    BY <1>2, <1>3, <1>5, <1>6, <2>2, DescriptionType, NextDescription
  <2> QED
    BY <2>1, <2>2
<1>8. [k \in Entries |-> Description(k)'] =
        IF Description(i) = NULL THEN [k \in Entries |-> Description(k)]
        ELSE [[k \in Entries |-> Description(k)] EXCEPT ![i].offset = @ + n]
  BY <1>3, <1>7
<1>10. Moving = [d |-> i, n |-> n] /\ Moving # NULL /\ Moving' = NULL
  <2>1. Moving = [d |-> i, n |-> n]
    BY <1>1, <1>2 DEF Moving
  <2>2. [d |-> i, n |-> n] \in [d : Nat, n : Nat]
    BY <1>3 DEF Entries
  <2> QED
    BY <1>9, <2>1, <2>2, NULLAssumption DEF Moving
<1>11. Live' = Live /\ Orphaned' = Orphaned /\ SameAnswers
  BY <1>2, <1>9 DEF Live, Orphaned, SameAnswers, Answered
<1>12. Moving.d = i /\ Moving.n = n
  BY <1>10
<1>13. Descs!Move
  BY <1>2, <1>3, <1>6, <1>8, <1>10, <1>11, <1>12 DEF Descs!Move, SameAnswers
<1> QED
  BY <1>13 DEF Promised, Descs!Step

\* The client has its answer; when it asked for a file, it has its descriptor
\* from now on.
LEMMA AnswerIsOpen ==
  ASSUME FsInv, Answer, NEW e \in Clients, e = server.whom
  PROVE  Promised
<1> DEFINE c == client[e]
<1>1. /\ server.pc = "reply" /\ c.pc = "recv" /\ ServerOK /\ ClientOK(e)
      /\ server' = Receiving /\ UNCHANGED <<opentab, page, size>>
  BY DEF Answer, FsInv
<1>2. PICK r : /\ Goto(e, [c EXCEPT !.pc = "done", !.r = r])
               /\ server.pg = NULL => r = server.r
               /\ server.pg # NULL => r = [server.r EXCEPT !.op = "open"]
  BY DEF Answer
<1>3. client'[e] = [c EXCEPT !.pc = "done", !.r = r] /\ \A x \in Clients \ {e} : client'[x] = client[x]
  BY <1>2 DEF Goto, FsInv, Typed
<1>4. client'[e].pc = "done" /\ client'[e].r = r
  <2>1. c = Client(c.pc, c.req, c.then, c.r)
    BY <1>1 DEF ClientOK
  <2> HIDE DEF c
  <2> QED
    BY <1>3, <2>1 DEF Client
<1>5. server'.pc = "recv" /\ server'.whom = NULL
  BY <1>1 DEF Receiving, Server
<1>6. Live' = Live /\ e \in Live
  <2>1. \A x \in Clients \ {e} : client'[x] = client[x]
    BY <1>3
  <2>2. client'[e].pc # "dead" /\ client[e].pc # "dead"
    BY <1>1, <1>4
  <2>3. \A x \in Clients : client'[x].pc # "dead" <=> client[x].pc # "dead"
    BY <2>1, <2>2
  <2> QED
    BY <2>2, <2>3 DEF Live
<1>7. /\ Written' = Written /\ Moving' = Moving /\ Orphaned' = Orphaned
      /\ Quiet /\ \A k \in Entries : ~Busy(k) /\ ~Busy(k)'
  BY <1>1, <1>5, NoWrite DEF Moving, Orphaned
<1>8. Answered(e) = server.r /\ Answered(e)' = r
      /\ \A x \in Clients \ {e} : Answered(x)' = Answered(x)
  BY <1>1, <1>3, <1>4, <1>5 DEF Answered
<1>9. CASE server.pg = NULL
  <2>1. UNCHANGED fdtab
    BY <1>9 DEF Answer
  <2>2. SameDescriptions
    BY <1>1, <1>7, <2>1, DescriptionsKept
  <2>3. SameAnswers
    BY <1>2, <1>8, <1>9 DEF SameAnswers
  <2> QED
    BY <1>1, <1>6, <1>7, <2>1, <2>2, <2>3 DEF Promised, Unseen
<1>10. CASE server.pg # NULL
  <2>1. PICK i, fd, f : i = server.pg /\ fd = c.req.fd /\ f = opentab[i].file
    OBVIOUS
  <2>2. fdtab' = [fdtab EXCEPT ![e][fd] = i]
    BY <1>10, <2>1 DEF Answer
  <2>3. Opens(i) /\ c.req.op = "open"
    BY <1>1, <1>10, <2>1, NULLAssumption DEF ServerOK
  <2>4. Waits(e)
    BY <1>1 DEF ClientOK
  <2>5. /\ fd \in FDs /\ fdtab[e][fd] = NULL
        /\ \A x \in FDs : x < fd => fdtab[e][x] # NULL
    BY <2>1, <2>3, <2>4 DEF Waits, Asks, FileOps
  <2>6. /\ i \in Entries /\ ~Refers(i) /\ server.r = Failed("found", f) /\ f \in Files
        /\ page[i] # NULL /\ page[i].offset = 0
    BY <2>1, <2>3 DEF Opens
  <2>7. Answered(e) # NULL /\ Answered(e).op = "found" /\ Answered(e).file = f
    <3>1. Failed("found", f) = [op |-> "found", file |-> f, at |-> 0, n |-> 0]
      BY DEF Failed, Result
    <3>2. [op |-> "found", file |-> f, at |-> 0, n |-> 0] \in Results
      BY <2>6 DEF Results, Ops
    <3> QED
      BY <1>8, <2>6, <3>1, <3>2, NULLAssumption
  <2>8. r = Descs!NoBytes("open", f)
    BY <1>2, <1>10, <2>6 DEF Failed, Result, Descs!NoBytes, Descs!Bytes
  <2>9. page[i].omode \in Modes
    BY <2>6 DEF FsInv, Typed, FdPages
  <2>10. \A x \in Clients, y \in FDs : fdtab'[x][y] = IF x = e /\ y = fd THEN i ELSE fdtab[x][y]
    BY <2>2, <2>5 DEF FsInv, Typed
  <2>11. Refers(i)' /\ \A k \in Entries : k # i => (Refers(k)' <=> Refers(k))
    <3>1. \A k \in Entries : k # NULL
      BY NULLAssumption DEF Entries
    <3>2. ASSUME NEW k \in Entries, k # i, Refers(k)
          PROVE  Refers(k)'
      <4>1. PICK x \in Clients, y \in FDs : fdtab[x][y] = k
        BY <3>2 DEF Refers
      <4>2. fdtab'[x][y] = k
        BY <2>5, <2>10, <3>1, <4>1
      <4> QED
        BY <4>2 DEF Refers
    <3> QED
      BY <2>5, <2>10, <3>2 DEF Refers
  <2>12. /\ Description(i) = NULL
         /\ Description(i)' = [file |-> f, offset |-> 0, mode |-> page[i].omode]
         /\ \A k \in Entries : k # i => Description(k)' = Description(k)
    <3>1. Used(i)' /\ ~Used(i) /\ \A k \in Entries : k # i => (Used(k)' <=> Used(k))
      BY <1>7, <2>6, <2>11 DEF Used
    <3> QED
      BY <1>1, <2>1, <2>6, <3>1, DescriptionType, NextDescription
  <2>13. [k \in Entries |-> Description(k)'] =
           [[k \in Entries |-> Description(k)] EXCEPT ![i] = [file |-> f, offset |-> 0, mode |-> page[i].omode]]
    BY <2>6, <2>12
  <2>14. [x \in Clients |-> Answered(x)'] = [[x \in Clients |-> Answered(x)] EXCEPT ![e] = r]
    BY <1>8
  <2>15. Descs!Returned(e, Descs!NoBytes("open", f))
    BY <1>7, <2>8, <2>14, NULLAssumption DEF Descs!Returned
  <2>16. Descs!Open(e, fd, i, page[i].omode)
    BY <1>1, <1>6, <1>7, <2>2, <2>5, <2>6, <2>7, <2>12, <2>13, <2>15, NULLAssumption DEF Descs!Open
  <2> QED
    BY <1>6, <2>5, <2>6, <2>9, <2>16 DEF Promised, Descs!Step, Modes
<1> QED
  BY <1>9, <1>10

LEMMA NothingIsUnseen ==
  ASSUME FsInv, UNCHANGED <<opentab, page, fdtab, size, client, server>>
  PROVE  Promised
<1>1. SameDescriptions
  BY ServerStays, DescriptionsKept
<1>2. /\ Live' = Live /\ Written' = Written /\ Moving' = Moving
      /\ Orphaned' = Orphaned /\ SameAnswers
  BY DEF Live, Written, Moving, Orphaned, SameAnswers, Answered, Entry
<1> QED
  BY <1>1, <1>2 DEF Promised, Unseen

LEMMA ServerIsPromised ==
  ASSUME FsInv, serve
  PROVE  Promised
<1>1. ASSUME Answer
      PROVE  Promised
  <2>1. server.whom \in Clients
    BY <1>1 DEF Answer, FsInv, ServerOK
  <2> QED
    BY <1>1, <2>1, AnswerIsOpen
<1>2. ASSUME NobodyToAnswer
      PROVE  Promised
  BY <1>2, NothingIsUnseen DEF NobodyToAnswer
<1> QED
  BY <1>1, <1>2, OpenIsPrepare, OpenFailsIsRefuse, InvalidIsOfTheDead, ReadIsRead, WriteIsWrite,
     ExtendIsGrow, PutIsPut, AdvanceIsMove, SetSizeIsSetSize, StatIsStat, FlushIsFlush, SyncIsSync DEF serve

LEMMA ClientIsPromised ==
  ASSUME FsInv, NEW e \in Clients, Continue(e) \/ ClientCall(e)
  PROVE  Promised
<1>1. ASSUME Continue(e)
      PROVE  Promised
  <2>1. CASE CloseAll(e)
    BY <2>1, CallsAreCalls DEF CloseAll, Ask, At
  <2>2. CASE Exited(e)
    BY <2>2, GoneIsDie DEF Exited, At
  <2> QED
    BY <1>1, <2>1, <2>2, SendIsUnseen, DoneIsCall, UnmapIsClose, DupMapIsDup DEF Continue
<1>2. ASSUME NEW fd \in FDs, FdCall(e, fd)
      PROVE  Promised
  <2>1. CASE \/ \E n \in Sizes : read(e, fd, n) \/ write(e, fd, n)
             \/ \E n \in Places : ftruncate(e, fd, n)
             \/ fstat(e, fd) \/ close(e, fd)
    BY <2>1, CallsAreCalls DEF read, write, ftruncate, fstat, close, Ask, Running, At
  <2> QED
    BY <1>2, <2>1, SeekIsSeek, DupCallIsDup DEF FdCall
<1>3. ASSUME NEW c \in Clients, Kill(e, c) \/ Child(e, c)
      PROVE  Promised
  BY <1>3, GoneIsDie, ChildIsInherit DEF Kill
<1>4. ASSUME sync(e) \/ \E f \in Files, flags \in Flags : open(e, f, flags)
      PROVE  Promised
  BY <1>4, CallsAreCalls DEF sync, open, Running, At
<1> QED
  BY <1>1, <1>2, <1>3, <1>4, ExitIsCall DEF ClientCall

\* Refinement: a descriptor works on the file it was opened for, with the
\* offset where its users left it, as long as somebody has it: however the
\* clients open, share, use and lose descriptors, the server never gives an
\* entry away that somebody refers to, never carries a request out on another
\* one, starts every use of an entry afresh and answers whoever asked
\* (fs/serv.c, lib/file.c, lib/fd.c).  A write takes the offset three times, and
\* who seeks in between changes the size for one and puts the bytes at another.
THEOREM DescriptorsAreServed == Spec => ServesDescriptors
<1>1. Init => Descs!Start(0, [f \in Files |-> IF f \in Boot THEN 0 ELSE NULL])
  <2> SUFFICES ASSUME Init
               PROVE  Descs!Start(0, [f \in Files |-> IF f \in Boot THEN 0 ELSE NULL])
    OBVIOUS
  <2>1. FsInv /\ \A i \in Entries : ~Refers(i)
    BY FsInit, NULLAssumption DEF Init, Refers, Closed, Entries
  <2>2. Written = NULL /\ \A i \in Entries : Description(i) = NULL
    BY <2>1, WrittenType, DescriptionType DEF Init, Receiving, Server, Used
  <2>3. Live = {0}
    BY ClientsAssumption DEF Init, Live, Idle, Dead, Client
  <2>4. Moving = NULL /\ Orphaned = FALSE /\ \A e \in Clients : Answered(e) = NULL
    BY DEF Init, Moving, Orphaned, Answered, Receiving, Server, Idle, Dead, Client
  <2>5. fdtab = [q \in Clients |-> Descs!Closed]
        /\ size = [f \in Files |-> IF f \in Boot THEN 0 ELSE NULL]
    BY DEF Init, Closed, Descs!Closed
  <2> QED
    BY <2>2, <2>3, <2>4, <2>5 DEF Descs!Start
<1>2. FsInv /\ [Next]_vars
        => [UNCHANGED Descs!state \/ Descs!Step(Sizes, Places, {"r", "w", "rw"})]_(Descs!state)
  <2> SUFFICES ASSUME FsInv, [Next]_vars
               PROVE  UNCHANGED Descs!state \/ Descs!Step(Sizes, Places, {"r", "w", "rw"})
    OBVIOUS
  <2>1. Promised
    BY ServerIsPromised, ClientIsPromised, NothingIsUnseen DEF Next, vars
  <2>2. Unseen => UNCHANGED Descs!state
    BY DEF Unseen, SameDescriptions, SameAnswers, Descs!state
  <2> QED
    BY <2>1, <2>2 DEF Promised
<1> QED
  BY <1>1, <1>2, FsInvariant, FsTypeCorrect, PTL DEF Spec, ServesDescriptors, DescriptorsHold
=============================================================================
