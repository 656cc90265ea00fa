-------------------------------- MODULE FsServer --------------------------------
(***************************************************************************)
(* The file system server and its clients: the table of open files         *)
(* (fs/serv.c), the requests (lib/file.c) and file descriptors (lib/fd.c). *)
(*                                                                         *)
(* The struct Fd of an open file is a page that the server and everybody   *)
(* with a descriptor for the file map; the server takes an entry of its    *)
(* table to be free when it alone maps the page.  A page is named after    *)
(* its entry.  Of files only the sizes are kept, FileSystem has the rest,  *)
(* and Ipc has the messages: here a request waits until the server         *)
(* receives, an answer until the client does.                              *)
(***************************************************************************)
EXTENDS Integers, FiniteSets

CONSTANTS
  Clients,      \* environments; 0 is the first
  FDs,          \* file descriptor numbers, 0 .. MAXFD-1
  MAXOPEN,      \* entries in the table of open files
  IdMod,        \* 2^32: file ids are ints; the upper half is negative
  Files, Boot,  \* names, and those that exist at first
  Flags,        \* ways to open a file
  MaxOffset,    \* bound: transfers start below it
  Sizes,        \* how much clients ask to read or write
  Places,       \* the sizes they set and the offsets they seek
  NULL

ASSUME IdAssumption == /\ MAXOPEN \in Nat \ {0}
                       /\ IdMod \in Nat \ {0} /\ IdMod % (2 * MAXOPEN) = 0
ASSUME ClientsAssumption == IsFiniteSet(Clients) /\ 0 \in Clients
ASSUME FDsAssumption == IsFiniteSet(FDs) /\ FDs \subseteq Nat
ASSUME RequestsAssumption == Boot \subseteq Files /\ Sizes \subseteq Nat /\ Places \subseteq Nat

\* NULL is none of the values it stands for the lack of: struct Fd pages,
\* what calls return, and descriptions, offsets that move, writes under way.
Ops == {"found", "open", "refused", "invalid", "read", "write", "set_size", "stat", "flush", "sync"}
Results == [op : Ops, file : Files \cup {NULL}, at : Nat, n : Nat]
Descriptions == [file : Files, offset : Nat, mode : {"r", "w", "rw"}]
StructFds == [id : Nat, offset : Nat, omode : {"r", "w", "rw"}]
ASSUME NULLAssumption ==
  NULL \notin Nat \cup Clients \cup Files \cup Results \cup Descriptions \cup StructFds
             \cup [d : Nat, n : Nat]
             \cup [p : Clients \cup {NULL}, d : Nat, n : Nat, next : {"extend", "write"}]

VARIABLES
  opentab,      \* file id and file of each entry
  page,         \* the struct Fd pages; NULL before the first use
  fdtab,        \* the page each client maps for a descriptor
  size,         \* the sizes of files; NULL when there is no such file
  client,       \* where a client is in a call
  server,       \* where the server is in its loop
  panic         \* who ran into a panic

vars == <<opentab, page, fdtab, size, client, server, panic>>

Entries == 0 .. MAXOPEN - 1
Closed == [fd \in FDs |-> NULL]

Request(op, id, n, fd) == [op |-> op, id |-> id, n |-> n, fd |-> fd]
Open(f, flags, fd) == [op |-> "open", file |-> f, flags |-> flags, fd |-> fd]

\* A client: the request it makes and what it does after it.
After(do, old) == [do |-> do, old |-> old]
Return == After("return", NULL)
Client(pc, req, then, r) == [pc |-> pc, req |-> req, then |-> then, r |-> r]
Idle == Client("run", NULL, Return, NULL)
Dead == Client("dead", NULL, Return, NULL)
Server(pc, whom, req, r, pg) == [pc |-> pc, whom |-> whom, req |-> req, r |-> r, pg |-> pg]
Receiving == Server("recv", NULL, NULL, NULL, NULL)

Result(op, f, at, n) == [op |-> op, file |-> f, at |-> at, n |-> n]
Failed(op, f) == Result(op, f, 0, 0)

Mapping(i) == {x \in Clients \X FDs : fdtab[x[1]][x[2]] = i}
pageref(i) == IF page[i] = NULL THEN 0 ELSE 1 + Cardinality(Mapping(i))

\* serve_init
Init ==
  /\ opentab = [i \in Entries |-> [fileid |-> i, file |-> NULL]]
  /\ page = [i \in Entries |-> NULL]
  /\ fdtab = [e \in Clients |-> Closed]
  /\ size = [f \in Files |-> IF f \in Boot THEN 0 ELSE NULL]
  /\ client = [e \in Clients |-> IF e = 0 THEN Idle ELSE Dead]
  /\ server = Receiving
  /\ panic = "no"

-----------------------------------------------------------------------------
\* Clients

At(e, pc) == panic = "no" /\ client[e].pc = pc
Running(e) == At(e, "run")
Goto(e, c) == client' = [client EXCEPT ![e] = c]

Call(e, req, then) ==
  /\ Goto(e, Client("send", req, then, NULL))
  /\ UNCHANGED <<opentab, page, fdtab, size, server, panic>>

fd_lookup(e, fd) == fdtab[e][fd] # NULL
Fd(e, fd) == page[fdtab[e][fd]]
Ask(e, op, fd, n, then) == Call(e, Request(op, Fd(e, fd).id, n, fd), then)

Free(e) == {fd \in FDs : fdtab[e][fd] = NULL}
Least(S) == CHOOSE x \in S : \A y \in S : x <= y

open(e, f, flags) ==
  /\ Running(e)
  /\ Free(e) # {}
  /\ Call(e, Open(f, flags, Least(Free(e))), Return)

read(e, fd, n) ==
  /\ Running(e) /\ fd_lookup(e, fd)
  /\ Fd(e, fd).omode # "w"
  /\ Fd(e, fd).offset < MaxOffset
  /\ Ask(e, "read", fd, n, Return)

write(e, fd, n) ==
  /\ Running(e) /\ fd_lookup(e, fd)
  /\ Fd(e, fd).omode # "r"
  /\ Fd(e, fd).offset < MaxOffset
  /\ Ask(e, "write", fd, n, Return)

ftruncate(e, fd, n) ==
  /\ Running(e) /\ fd_lookup(e, fd)
  /\ Fd(e, fd).omode # "r"
  /\ Ask(e, "set_size", fd, n, Return)

fstat(e, fd) ==
  /\ Running(e) /\ fd_lookup(e, fd)
  /\ Ask(e, "stat", fd, 0, Return)

sync(e) ==
  /\ Running(e)
  /\ Call(e, Request("sync", 0, 0, 0), Return)

\* The offset is in the page all descriptors for the file share.
seek(e, fd, offset) ==
  /\ Running(e) /\ fd_lookup(e, fd)
  /\ page' = [page EXCEPT ![fdtab[e][fd]].offset = offset]
  /\ UNCHANGED <<opentab, fdtab, size, client, server, panic>>

\* close flushes the file and then unmaps the page.
close(e, fd) ==
  /\ Running(e) /\ fd_lookup(e, fd)
  /\ Ask(e, "flush", fd, 0, After("unmap", NULL))

\* dup closes the new number, if it is in use, and maps the old page there.
dup(e, old, new) ==
  /\ Running(e) /\ fd_lookup(e, old) /\ old # new
  /\ IF fd_lookup(e, new)
     THEN Ask(e, "flush", new, 0, After("dup", old))
     ELSE /\ fdtab' = [fdtab EXCEPT ![e][new] = fdtab[e][old]]
          /\ UNCHANGED <<opentab, page, size, client, server, panic>>

\* ipc_send to the server, and ipc_recv
SendRequest(e) ==
  /\ At(e, "send")
  /\ server.pc = "recv"
  /\ server' = Server("serve", e, client[e].req, NULL, NULL)
  /\ Goto(e, [client[e] EXCEPT !.pc = "recv"])
  /\ UNCHANGED <<opentab, page, fdtab, size, panic>>

Done(e) ==
  /\ At(e, "done")
  /\ Goto(e, IF client[e].then = Return THEN Idle
             ELSE [client[e] EXCEPT !.pc = "unmap", !.r = NULL])
  /\ UNCHANGED <<opentab, page, fdtab, size, server, panic>>

\* fd_close and dup go on after the flush; the page may be unmapped in exit.
Unmap(e) ==
  /\ At(e, "unmap")
  /\ LET fd == client[e].req.fd
         then == client[e].then.do
     IN  fdtab' = [fdtab EXCEPT ![e][fd] = NULL]
         /\ Goto(e, IF then = "unmap" THEN Idle
                    ELSE IF then = "exit" THEN [client[e] EXCEPT !.pc = "exit"]
                    ELSE [client[e] EXCEPT !.pc = "dup"])
  /\ UNCHANGED <<opentab, page, size, server, panic>>

DupMap(e) ==
  /\ At(e, "dup")
  /\ fdtab' = [fdtab EXCEPT ![e][client[e].req.fd] = fdtab[e][client[e].then.old]]
  /\ Goto(e, Idle)
  /\ UNCHANGED <<opentab, page, size, server, panic>>

\* exit closes all descriptors, the lowest first.
Exit(e) ==
  /\ Running(e)
  /\ Goto(e, [client[e] EXCEPT !.pc = "exit"])
  /\ UNCHANGED <<opentab, page, fdtab, size, server, panic>>

CloseAll(e) ==
  /\ At(e, "exit")
  /\ FDs # Free(e)
  /\ Ask(e, "flush", Least(FDs \ Free(e)), 0, After("exit", NULL))

\* The environment goes, with all it maps; the server knows it by an id that
\* nobody gets again.
Gone(e) ==
  /\ fdtab' = [fdtab EXCEPT ![e] = Closed]
  /\ Goto(e, Dead)
  /\ server' = [server EXCEPT !.whom = IF @ = e THEN NULL ELSE @]
  /\ UNCHANGED <<opentab, page, size, panic>>

Exited(e) == At(e, "exit") /\ FDs = Free(e) /\ Gone(e)

Kill(p, e) == Running(p) /\ p # e /\ e # 0 /\ client[e].pc # "dead" /\ Gone(e)

\* fork and spawn hand the descriptors on, whose pages are marked PTE_SHARE.
\* fork leaves both with copy-on-write pages among them.
Child(e, c) ==
  /\ Running(e) /\ client[c].pc = "dead"
  /\ fdtab' = [fdtab EXCEPT ![c] = fdtab[e]]
  /\ Goto(c, Idle)
  /\ UNCHANGED <<opentab, page, size, server, panic>>

-----------------------------------------------------------------------------
\* The server

Serving(op) == panic = "no" /\ server.pc = "serve" /\ server.req.op = op
Reply(r, pg) == server' = [server EXCEPT !.pc = "reply", !.req = NULL, !.r = r, !.pg = pg]

\* openfile_alloc: the first entry nobody else maps.  The id of the entry
\* changes with every use.
Available == {i \in Entries : pageref(i) <= 1}
NextId(i) == (opentab[i].fileid + MAXOPEN) % IdMod
Negative(id) == id >= IdMod \div 2
Blank == [id |-> 0, offset |-> 0, omode |-> "r"]
Cleared_Once(i) == IF page[i] = NULL THEN Blank ELSE page[i]
Cleared(i) == Blank

openfile_alloc(i, f) ==
  /\ opentab' = [opentab EXCEPT ![i] = [fileid |-> NextId(i), file |-> f]]
  /\ page' = [page EXCEPT ![i] = Cleared(i)]

Exists(f) == size[f] # NULL
Found(f, flags) ==
  IF Exists(f) THEN ~({"creat", "excl"} \subseteq flags) ELSE "creat" \in flags
omode(flags) == IF "rdwr" \in flags THEN "rw" ELSE IF "wronly" \in flags THEN "w" ELSE "r"

\* serve_open, when an entry, its page and its id can be had and the file is
\* found or made
serve_open ==
  LET q == server.req
      i == Least(Available)
  IN  /\ Serving("open")
      /\ Available # {} /\ ~Negative(NextId(i)) /\ Found(q.file, q.flags)
      /\ opentab' = [opentab EXCEPT ![i] = [fileid |-> NextId(i), file |-> q.file]]
      /\ page' = [page EXCEPT ![i] = [Cleared(i) EXCEPT !.id = NextId(i), !.omode = omode(q.flags)]]
      /\ size' = [size EXCEPT ![q.file] = IF ~Exists(q.file) \/ "trunc" \in q.flags THEN 0 ELSE @]
      /\ Reply(Failed("found", q.file), i)
      /\ UNCHANGED <<fdtab, client, panic>>

\* It is refused: no entry is available, there is no page for it, its id is
\* taken for an error, or the file is not there, or there already.
serve_open_fails ==
  LET q == server.req
      i == Least(Available)
  IN  /\ Serving("open")
      /\ \/ Available = {} /\ UNCHANGED <<opentab, page>>
         \/ Available # {} /\ page[i] = NULL /\ UNCHANGED <<opentab, page>>
         \/ /\ Available # {} /\ (Negative(NextId(i)) \/ ~Found(q.file, q.flags))
            /\ openfile_alloc(i, opentab[i].file)
      /\ Reply(Failed("refused", q.file), NULL)
      /\ UNCHANGED <<fdtab, size, client, panic>>

\* openfile_lookup
Entry(id) == id % MAXOPEN
Valid(id) == pageref(Entry(id)) > 1 /\ opentab[Entry(id)].fileid = id
Lookup(op) == Serving(op) /\ Valid(server.req.id)
Opened == opentab[Entry(server.req.id)].file
Offset == page[Entry(server.req.id)].offset

Invalid ==
  /\ panic = "no" /\ server.pc = "serve" /\ server.req.op \notin {"open", "sync"}
  /\ ~Valid(server.req.id)
  /\ Reply(Failed("invalid", NULL), NULL)
  /\ UNCHANGED <<opentab, page, fdtab, size, client, panic>>

\* The transfer, and then the offset of the page, which others write too
MoveLater(r) == server' = [server EXCEPT !.pc = "advance", !.r = r]

serve_read ==
  LET left == IF Offset >= size[Opened] THEN 0 ELSE size[Opened] - Offset
      n == IF server.req.n < left THEN server.req.n ELSE left
  IN  /\ Lookup("read")
      /\ MoveLater(Result("read", Opened, Offset, n))
      /\ UNCHANGED <<opentab, page, fdtab, size, client, panic>>

\* serve_write reads the offset, which others write too, for its test, for the
\* new size of the file and for the transfer, once each.
End == Offset + server.req.n
Then(pc) == server' = [server EXCEPT !.pc = pc]
Writing(pc) == panic = "no" /\ server.pc = pc

serve_write ==
  /\ Lookup("write")
  /\ Then(IF End > size[Opened] THEN "extend" ELSE "write")
  /\ UNCHANGED <<opentab, page, fdtab, size, client, panic>>

Extend ==
  /\ Writing("extend")
  /\ size' = [size EXCEPT ![Opened] = End]
  /\ Then("write")
  /\ UNCHANGED <<opentab, page, fdtab, client, panic>>

\* file_write, which extends the file itself if it must
file_write ==
  /\ Writing("write")
  /\ size' = [size EXCEPT ![Opened] = IF End > @ THEN End ELSE @]
  /\ MoveLater(Result("write", Opened, Offset, server.req.n))
  /\ UNCHANGED <<opentab, page, fdtab, client, panic>>

Advance ==
  /\ panic = "no" /\ server.pc = "advance"
  /\ page' = [page EXCEPT ![Entry(server.req.id)].offset = @ + server.r.n]
  /\ server' = [server EXCEPT !.pc = "reply", !.req = NULL]
  /\ UNCHANGED <<opentab, fdtab, size, client, panic>>

serve_set_size ==
  /\ Lookup("set_size")
  /\ size' = [size EXCEPT ![Opened] = server.req.n]
  /\ Reply(Failed("set_size", Opened), NULL)
  /\ UNCHANGED <<opentab, page, fdtab, client, panic>>

serve_stat ==
  /\ Lookup("stat")
  /\ Reply(Result("stat", Opened, 0, size[Opened]), NULL)
  /\ UNCHANGED <<opentab, page, fdtab, size, client, panic>>

serve_flush ==
  /\ Lookup("flush")
  /\ Reply(Failed("flush", Opened), NULL)
  /\ UNCHANGED <<opentab, page, fdtab, size, client, panic>>

serve_sync ==
  /\ Serving("sync")
  /\ Reply(Failed("sync", NULL), NULL)
  /\ UNCHANGED <<opentab, page, fdtab, size, client, panic>>

\* ipc_send tries again until the client receives, and panics when the client
\* is gone.  The page of an open file is mapped where the client wants it.
Answer ==
  /\ panic = "no" /\ server.pc = "reply" /\ server.whom # NULL
  /\ LET e == server.whom
         c == client[e]
     IN  /\ c.pc = "recv"
         /\ IF server.pg = NULL
            THEN Goto(e, [c EXCEPT !.pc = "done", !.r = server.r]) /\ UNCHANGED fdtab
            ELSE /\ Goto(e, [c EXCEPT !.pc = "done", !.r = [server.r EXCEPT !.op = "open"]])
                 /\ fdtab' = [fdtab EXCEPT ![e][c.req.fd] = server.pg]
  /\ server' = Receiving
  /\ UNCHANGED <<opentab, page, size, panic>>

NobodyToAnswer ==
  /\ panic = "no" /\ server.pc = "reply" /\ server.whom = NULL
  /\ panic' = "server"
  /\ UNCHANGED <<opentab, page, fdtab, size, client, server>>

serve ==
  \/ serve_open \/ serve_open_fails \/ Invalid \/ serve_read
  \/ serve_write \/ Extend \/ file_write \/ Advance
  \/ serve_set_size \/ serve_stat \/ serve_flush \/ serve_sync \/ Answer \/ NobodyToAnswer

\* A client goes on with the call it is in, or makes another.
Continue(e) ==
  SendRequest(e) \/ Done(e) \/ Unmap(e) \/ DupMap(e) \/ CloseAll(e) \/ Exited(e)

FdCall(e, fd) ==
  \/ \E n \in Sizes : read(e, fd, n) \/ write(e, fd, n)
  \/ \E n \in Places : ftruncate(e, fd, n) \/ seek(e, fd, n)
  \/ fstat(e, fd) \/ close(e, fd) \/ \E new \in FDs : dup(e, fd, new)

ClientCall(e) ==
  \/ \E f \in Files, flags \in Flags : open(e, f, flags)
  \/ \E fd \in FDs : FdCall(e, fd)
  \/ sync(e) \/ Exit(e)
  \/ \E c \in Clients : Kill(e, c) \/ Child(e, c)

Next == serve \/ \E e \in Clients : Continue(e) \/ ClientCall(e)

Spec == Init /\ [][Next]_vars

-----------------------------------------------------------------------------
(***************************************************************************)
(* Properties                                                              *)
(***************************************************************************)

\* The type invariant.
TypeOK ==
  /\ opentab \in [Entries -> [fileid : 0 .. IdMod - 1, file : Files \cup {NULL}]]
  /\ \A i \in Entries : page[i] # NULL =>
       page[i].id \in 0 .. IdMod - 1 /\ page[i].offset \in Nat /\ page[i].omode \in {"r", "w", "rw"}
  /\ fdtab \in [Clients -> [FDs -> Entries \cup {NULL}]]
  /\ \A f \in Files : size[f] \in Nat \cup {NULL}
  /\ \A e \in Clients : client[e].pc \in {"run", "send", "recv", "done", "unmap", "dup", "exit", "dead"}
  /\ server.pc \in {"recv", "serve", "extend", "write", "advance", "reply"}
  /\ panic \in {"no", "server"}

\* What the state is for the abstract specification.  The result of a call counts
\* from the moment the server has carried it out.
Live == {e \in Clients : client[e].pc # "dead"}
Busy(i) == server.pc \in {"extend", "write"} /\ Entry(server.req.id) = i
Description(i) ==
  IF Mapping(i) = {} /\ ~Busy(i) THEN NULL
  ELSE [file |-> opentab[i].file, offset |-> page[i].offset, mode |-> page[i].omode]
Written ==
  IF server.pc \in {"extend", "write"}
  THEN [p |-> server.whom, d |-> Entry(server.req.id), n |-> server.req.n,
        next |-> server.pc]
  ELSE NULL
Moving ==
  IF server.pc = "advance" THEN [d |-> Entry(server.req.id), n |-> server.r.n] ELSE NULL
Answered(e) ==
  IF server.whom = e /\ server.pc \in {"advance", "reply"} THEN server.r ELSE client[e].r
Orphaned == server.pc \in {"serve", "extend", "write"} /\ server.whom = NULL

Descs == INSTANCE Descriptors WITH
  Procs <- Clients, FDs <- FDs, Descs <- Entries,
  live <- Live, table <- fdtab, desc <- [i \in Entries |-> Description(i)], size <- size,
  writing <- Written, moving <- Moving, ret <- [e \in Clients |-> Answered(e)], orphan <- Orphaned

\* A descriptor works as long as somebody has it, on the file it was opened
\* for, with the offset where its users left it: however opens, closes, dups,
\* forks, exits and kills interleave with the requests of others, the server
\* never gives an entry of its table away that a client still refers to, never
\* carries a request out on another entry, starts a new use of an entry
\* afresh, and answers whoever asked.  A write tests the offset, sets the size
\* and puts the bytes at what the offset is at each of these moments, so that a
\* seek in between may enlarge the file for one and write at another.  (TLC
\* tries first whether a step is one that programs do not see.)
DescriptorsHold ==
  /\ Descs!Start(0, [f \in Files |-> IF f \in Boot THEN 0 ELSE NULL])
  /\ [][UNCHANGED Descs!state \/ Descs!Step(Sizes, Places, {"r", "w", "rw"})]_(Descs!state)

\* The server and its clients implement descriptors, in states of the right
\* type.
ServesDescriptors == []TypeOK /\ DescriptorsHold
=============================================================================
