------------------------------ MODULE Descriptors ------------------------------
(***************************************************************************)
(* What the file system calls promise to programs.  A descriptor number of *)
(* a process stands for a description: a file, an offset, a mode.          *)
(* Processes that inherit or duplicate a descriptor share its description, *)
(* and nobody else ever gets to it.  A description works as long as        *)
(* somebody has it; only open may be refused.                              *)
(***************************************************************************)
EXTENDS Integers

CONSTANTS Procs, FDs, Descs, NULL

VARIABLES
  live,      \* the processes there are
  table,     \* which description a descriptor of a process stands for
  desc,      \* the descriptions in use
  size,      \* the size of each file; NULL when there is no such file
  writing,   \* a write under way
  moving,    \* a description whose offset has not followed a transfer yet
  ret,       \* what the last call of a process brought
  orphan     \* a process died in the middle of a call

state == <<live, table, desc, size, writing, moving, ret, orphan>>

Closed == [fd \in FDs |-> NULL]

\* The call of a process that has died, here NULL, may still be carried out
\* on any description others have; nobody learns the result.
Has(p, d) == desc[d] # NULL /\ (p = NULL \/ \E fd \in FDs : table[p][fd] = d)
Returned(p, r) ==
  \/ p # NULL /\ ret' = [ret EXCEPT ![p] = r] /\ UNCHANGED orphan
  \/ p = NULL /\ orphan /\ orphan' = FALSE /\ UNCHANGED ret
Bytes(op, f, at, n) == [op |-> op, file |-> f, at |-> at, n |-> n]
NoBytes(op, f) == Bytes(op, f, 0, 0)

\* Descriptions nobody has any more are gone, when nothing is written there.
InUse(t, w, d) == (\E p \in Procs, fd \in FDs : t[p][fd] = d) \/ (w # NULL /\ w.d = d)
Kept(t, w) == [d \in Descs |-> IF InUse(t, w, d) THEN desc[d] ELSE NULL]
Rebind(t) == table' = t /\ desc' = Kept(t, writing)

Start(p, files) ==
  /\ live = {p} /\ size = files
  /\ table = [q \in Procs |-> Closed] /\ desc = [d \in Descs |-> NULL]
  /\ writing = NULL /\ moving = NULL /\ ret = [q \in Procs |-> NULL] /\ orphan = FALSE

\* open: the file is found, created or emptied first.
Prepare(p, f) ==
  /\ \/ size[f] # NULL /\ UNCHANGED size
     \/ size' = [size EXCEPT ![f] = 0]
  /\ Returned(p, NoBytes("found", f))
  /\ UNCHANGED <<live, table, desc, writing, moving>>

Open(p, fd, d, mode) ==
  /\ p # NULL /\ ret[p] # NULL /\ ret[p].op = "found"
  /\ table[p][fd] = NULL /\ \A x \in FDs : x < fd => table[p][x] # NULL
  /\ desc[d] = NULL
  /\ table' = [table EXCEPT ![p][fd] = d]
  /\ desc' = [desc EXCEPT ![d] = [file |-> ret[p].file, offset |-> 0, mode |-> mode]]
  /\ Returned(p, NoBytes("open", ret[p].file))
  /\ UNCHANGED <<live, size, writing, moving>>

Refuse(p, f) ==
  /\ Returned(p, NoBytes("refused", f))
  /\ UNCHANGED <<live, table, desc, size, writing, moving>>

\* read and write move bytes at the offset, and the offset after them.
Read(p, d, asked) ==
  LET f == desc[d].file
      at == desc[d].offset
      left == IF at >= size[f] THEN 0 ELSE size[f] - at
      n == IF left < asked THEN left ELSE asked
  IN  /\ Has(p, d) /\ writing = NULL /\ moving = NULL
      /\ desc[d].mode # "w"
      /\ moving' = [d |-> d, n |-> n]
      /\ Returned(p, Bytes("read", f, at, n))
      /\ UNCHANGED <<live, table, desc, size, writing>>

\* A write looks at the offset three times: it begins with the question
\* whether the file must grow; sets the end of the file; and puts the bytes
\* where the offset then is.  Who seeks in between moves the one or the other.
Write(p, d, n) ==
  /\ Has(p, d) /\ writing = NULL /\ moving = NULL
  /\ p = NULL => orphan
  /\ desc[d].mode # "r"
  /\ writing' = [p |-> p, d |-> d, n |-> n,
                  next |-> IF desc[d].offset + n > size[desc[d].file] THEN "extend" ELSE "write"]
  /\ UNCHANGED <<live, table, desc, size, moving, ret, orphan>>

WriteEnd == desc[writing.d].offset + writing.n

Grow ==
  /\ writing # NULL /\ writing.next = "extend"
  /\ size' = [size EXCEPT ![desc[writing.d].file] = WriteEnd]
  /\ writing' = [writing EXCEPT !.next = "write"]
  /\ UNCHANGED <<live, table, desc, moving, ret, orphan>>

Put ==
  LET f == desc[writing.d].file
      at == desc[writing.d].offset
  IN  /\ writing # NULL /\ writing.next = "write"
      /\ size' = [size EXCEPT ![f] = IF WriteEnd > @ THEN WriteEnd ELSE @]
      /\ moving' = [d |-> writing.d, n |-> writing.n]
      /\ writing' = NULL
      /\ desc' = Kept(table, NULL)
      /\ Returned(writing.p, Bytes("write", f, at, writing.n))
      /\ UNCHANGED <<live, table>>

Move ==
  /\ moving # NULL
  /\ moving' = NULL
  /\ desc' = IF desc[moving.d] = NULL THEN desc ELSE [desc EXCEPT ![moving.d].offset = @ + moving.n]
  /\ UNCHANGED <<live, table, size, writing, ret, orphan>>

SetSize(p, d, n) ==
  /\ Has(p, d) /\ desc[d].mode # "r"
  /\ size' = [size EXCEPT ![desc[d].file] = n]
  /\ Returned(p, NoBytes("set_size", desc[d].file))
  /\ UNCHANGED <<live, table, desc, writing, moving>>

Stat(p, d) ==
  /\ Has(p, d)
  /\ Returned(p, Bytes("stat", desc[d].file, 0, size[desc[d].file]))
  /\ UNCHANGED <<live, table, desc, size, writing, moving>>

\* To close a descriptor flushes its file.
Flush(p, d) ==
  /\ Has(p, d)
  /\ Returned(p, NoBytes("flush", desc[d].file))
  /\ UNCHANGED <<live, table, desc, size, writing, moving>>

\* The next call
Call(p) ==
  /\ Returned(p, NULL)
  /\ UNCHANGED <<live, table, desc, size, writing, moving>>

Sync(p) ==
  /\ Returned(p, NoBytes("sync", NULL))
  /\ UNCHANGED <<live, table, desc, size, writing, moving>>

Seek(p, d, to) ==
  /\ Has(p, d)
  /\ desc' = [desc EXCEPT ![d].offset = to]
  /\ UNCHANGED <<live, table, size, writing, moving, ret, orphan>>

Close(p, fd) ==
  /\ Rebind([table EXCEPT ![p][fd] = NULL])
  /\ UNCHANGED <<live, size, writing, moving, ret, orphan>>

Dup(p, old, new) ==
  /\ table[p][old] # NULL /\ table[p][new] = NULL
  /\ Rebind([table EXCEPT ![p][new] = table[p][old]])
  /\ UNCHANGED <<live, size, writing, moving, ret, orphan>>

Inherit(p, c) ==
  /\ p \in live /\ c \notin live
  /\ live' = live \cup {c}
  /\ table' = [table EXCEPT ![c] = table[p]]
  /\ UNCHANGED <<desc, size, writing, moving, ret, orphan>>

Die(p) ==
  /\ live' = live \ {p}
  /\ Rebind([table EXCEPT ![p] = Closed])
  /\ ret' = [ret EXCEPT ![p] = NULL]
  /\ orphan' \in BOOLEAN
  /\ writing' = IF writing = NULL THEN NULL
                ELSE [writing EXCEPT !.p = IF @ = p THEN NULL ELSE @]
  /\ UNCHANGED <<size, moving>>

Step(Sizes, Places, Modes) ==
  \/ Move \/ Grow \/ Put
  \/ \E p \in live \cup {NULL} :
       \/ Sync(p)
       \/ \E f \in DOMAIN size : Prepare(p, f) \/ Refuse(p, f)
       \/ \E d \in Descs, n \in Sizes : Read(p, d, n) \/ Write(p, d, n)
       \/ \E d \in Descs, n \in Places : SetSize(p, d, n)
       \/ \E d \in Descs : Stat(p, d) \/ Flush(p, d)
  \/ \E p \in live :
       \/ \E fd \in FDs, d \in Descs, m \in Modes : Open(p, fd, d, m)
       \/ \E d \in Descs, n \in Places : Seek(p, d, n)
       \/ \E fd \in FDs : Close(p, fd)
       \/ \E x, y \in FDs : Dup(p, x, y)
       \/ \E c \in Procs : Inherit(p, c)
       \/ Call(p) \/ Die(p)
=============================================================================
