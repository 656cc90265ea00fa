-------------------------------- MODULE Directory --------------------------------
(***************************************************************************)
(* Names of files: the root directory as a file of struct Files, path      *)
(* walking, and the requests that create, open, resize and extend files    *)
(* (fs/fs.c above the blocks; serve_open, serve_set_size and serve_write   *)
(* in fs/serv.c).                                                          *)
(*                                                                         *)
(* Sizes are in struct Files, BLKFILES in a block.  A path is a sequence   *)
(* of slashes and names.  Only the root is a directory: nothing creates    *)
(* others.  A request is one step; what it does to the file system is a    *)
(* function of a state s = [root, disk, free, r], r the answer.            *)
(***************************************************************************)
EXTENDS Integers, Sequences, FiniteSets, TLC

LOCAL INSTANCE SequencesExt

CONSTANTS
  LongName,     \* a name of MAXNAMELEN characters or more
  Paths,        \* the paths programs use
  DATABLOCKS,   \* blocks that are free when the system is formatted
  NFILEBLOCKS,  \* blocks of a file
  FileSizes,    \* sizes that programs give a file, in struct Files
  BLKFILES

VARIABLES
  server,       \* the state s, and r, the answer to the last request
  files,        \* history: the size that each created file was given
  stale         \* history: the directory has grown by a block that was not clear

dirVars == <<server, files, stale>>

BlockNos == 1 .. DATABLOCKS
Empty == [f_name |-> "", f_size |-> 0, f_direct |-> [i \in 1 .. NFILEBLOCKS |-> 0]]
Block(entry) == [j \in 1 .. BLKFILES |-> entry]

\* What a program's text is, read as struct Files
Text == [f_name |-> "text", f_size |-> NFILEBLOCKS * BLKFILES,
         f_direct |-> [i \in 1 .. NFILEBLOCKS |-> 1]]

DirInit ==
  /\ server = [root |-> Empty, disk |-> [b \in BlockNos |-> Block(Empty)],
               free |-> BlockNos, r |-> "ok"]
  /\ files = <<>>
  /\ stale = FALSE

\* A struct File is the root or in a place, a block and an index.
Root == <<0, 0>>
File(s, f) == IF f = Root THEN s.root ELSE s.disk[f[1]][f[2]]
SetFile(s, f, new) ==
  IF f = Root THEN [s EXCEPT !.root = new] ELSE [s EXCEPT !.disk[f[1]][f[2]] = new]
BlocksFor(size) == (size + BLKFILES - 1) \div BLKFILES

\* file_get_block; with a full disk the server panics, see FileSystem.
file_get_block_Keep(s, f, i) ==
  IF File(s, f).f_direct[i] # 0 THEN s
  ELSE IF s.free = {} THEN [s EXCEPT !.r = "panic"]
  ELSE LET b == CHOOSE b \in s.free : \A c \in s.free : b <= c
       IN  SetFile(s, f, [File(s, f) EXCEPT !.f_direct[i] = b])
file_get_block(s, f, i) ==
  IF File(s, f).f_direct[i] # 0 THEN s
  ELSE IF s.free = {} THEN [s EXCEPT !.r = "panic"]
  ELSE LET b == CHOOSE b \in s.free : \A c \in s.free : b <= c
       IN  SetFile([s EXCEPT !.free = @ \ {b}], f, [File(s, f) EXCEPT !.f_direct[i] = b])

\* The places of the directory, and dir_lookup: the first one with a name, or
\* 0; the name "" looks for one that is not used.
Places(s) ==
  [k \in 1 .. s.root.f_size |-> <<s.root.f_direct[BlocksFor(k)], ((k - 1) % BLKFILES) + 1>>]
dir_lookup(s, name) == SelectInSeq(Places(s), LAMBDA p : File(s, p).f_name = name)

dir_alloc_file(s) ==
  LET k == dir_lookup(s, "")
      i == BlocksFor(s.root.f_size) + 1
      larger == file_get_block([s EXCEPT !.root.f_size = @ + BLKFILES], Root, i)
  IN  IF k # 0 THEN [s |-> s, file |-> Places(s)[k]]
      ELSE [s |-> larger, file |-> <<larger.root.f_direct[i], 1>>]

\* walk_path: the file, or the name to create it by if all but the last
\* element are directories.
Elements(path) == SelectSeq(path, LAMBDA e : e # "/")
walk_path(s, path) ==
  LET names == Elements(path)
      k == dir_lookup(s, names[1])
      Answer(r, file, last) == [r |-> r, file |-> file, last |-> last]
  IN  IF names = <<>> THEN Answer("ok", Root, "")
      ELSE IF names[1] = LongName \/ (k # 0 /\ Len(names) > 1 /\ names[2] = LongName)
      THEN Answer("bad path", Root, "")
      ELSE IF Len(names) > 1 THEN Answer("not found", Root, "")
      ELSE IF k = 0 THEN Answer("not found", Root, names[1])
      ELSE Answer("ok", Places(s)[k], "")

file_create(s, path) ==
  LET w == walk_path(s, path)
      a == dir_alloc_file(s)
  IN  IF w.r = "ok" THEN [s EXCEPT !.r = "exists"]
      ELSE IF w.r # "not found" \/ w.last = "" THEN [s EXCEPT !.r = w.r]
      ELSE IF a.s.r = "panic" THEN a.s
      ELSE SetFile(a.s, a.file, [File(a.s, a.file) EXCEPT !.f_name = w.last])

file_set_size(s, f, size) ==
  LET gone == {i \in 1 .. NFILEBLOCKS : BlocksFor(size) < i /\ i <= BlocksFor(File(s, f).f_size)}
      old == File(s, f).f_direct
      kept == [i \in 1 .. NFILEBLOCKS |-> IF i \in gone THEN 0 ELSE old[i]]
  IN  SetFile([s EXCEPT !.free = @ \cup {old[i] : i \in {j \in gone : old[j] # 0}}], f,
              [File(s, f) EXCEPT !.f_size = size, !.f_direct = kept])

-----------------------------------------------------------------------------
\* Requests

ServerRuns == server.r # "panic"
Ask == [server EXCEPT !.r = "ok"]

\* serve_open creates the file, unless it is there and that is right, and
\* walks the path again.
Opened(path, mode) ==
  LET created == file_create(Ask, path)
      s == IF "CREAT" \in mode THEN created ELSE Ask
      opened == IF s.r = "exists" /\ "EXCL" \notin mode THEN Ask ELSE s
      w == walk_path(opened, path)
  IN  IF opened.r # "ok" THEN opened
      ELSE IF w.r # "ok" THEN [opened EXCEPT !.r = w.r]
      ELSE IF "TRUNC" \in mode THEN file_set_size(opened, w.file, 0) ELSE opened

\* A freed block keeps its contents, and nobody clears it for the directory.
BlocksOf(f) == {f.f_direct[i] : i \in 1 .. NFILEBLOCKS} \ {0}
GrowsStale ==
  \E b \in BlocksOf(server'.root) \ BlocksOf(server.root) : server.disk[b] # Block(Empty)

Name(path) == Last(Elements(path))
IsFile(path) == Elements(path) # <<>>

serve_open(path, mode) ==
  /\ ServerRuns
  /\ "TRUNC" \in mode => IsFile(path)
  /\ server' = Opened(path, mode)
  /\ files' =
       IF server'.r # "ok" \/ ~IsFile(path) THEN files
       ELSE IF "TRUNC" \in mode THEN (Name(path) :> 0) @@ files
       ELSE files @@ (Name(path) :> 0)
  /\ stale' = (stale \/ GrowsStale)

\* Programs change sizes and write only in files that they can open.
Found(path) == ServerRuns /\ IsFile(path) /\ walk_path(Ask, path).r = "ok"

serve_set_size(path, size) ==
  LET f == walk_path(Ask, path).file
  IN  /\ Found(path)
      /\ server' = file_set_size(Ask, f, size)
      /\ files' = (Name(path) :> size) @@ files
      /\ UNCHANGED stale

\* serve_write of a block of text behind the end
serve_write(path) ==
  LET f == walk_path(Ask, path).file
      i == BlocksFor(File(server, f).f_size) + 1
      s == file_get_block(file_set_size(Ask, f, i * BLKFILES), f, i)
  IN  /\ Found(path)
      /\ i <= NFILEBLOCKS
      /\ server' = IF s.r = "panic" THEN s
                   ELSE [s EXCEPT !.disk[File(s, f).f_direct[i]] = Block(Text)]
      /\ files' = (Name(path) :> i * BLKFILES) @@ files
      /\ UNCHANGED stale

\* Bound: what the server makes of text that it takes for struct Files is not
\* followed any further.
DirNext ==
  /\ ~stale
  /\ \E path \in Paths :
       \/ \E mode \in SUBSET {"CREAT", "EXCL", "TRUNC"} : serve_open(path, mode)
       \/ \E size \in FileSizes : serve_set_size(path, size)
       \/ serve_write(path)

DirSpec == DirInit /\ [][DirNext]_dirVars

-----------------------------------------------------------------------------
(***************************************************************************)
(* Properties                                                              *)
(***************************************************************************)

Entries == {k \in 1 .. server.root.f_size : File(server, Places(server)[k]).f_name # ""}
Entry(k) == File(server, Places(server)[k])

\* The directory lists just the files that were created, each once and with the
\* size it was given, by whatever path (the comments of dir_lookup, fs/fs.c:193,
\* and dir_alloc_file, fs/fs.c:223).  The code does not keep this: a block that
\* held the text of a file is not cleared when the directory grows by it.
ListsTheFiles ==
  ServerRuns =>
    /\ {Entry(k).f_name : k \in Entries} = DOMAIN files
    /\ \A j, k \in Entries : Entry(j).f_name = Entry(k).f_name => j = k
    /\ \A k \in Entries : Entry(k).f_size = files[Entry(k).f_name]

\* No block belongs to two files, or to a file and the directory, or is free and
\* in use.
BlocksAreApart ==
  ServerRuns =>
    /\ BlocksOf(server.root) \cap server.free = {}
    /\ \A k \in Entries :
         /\ BlocksOf(Entry(k)) \cap (server.free \cup BlocksOf(server.root)) = {}
         /\ \A j \in Entries \ {k} : BlocksOf(Entry(j)) \cap BlocksOf(Entry(k)) = {}
=============================================================================
