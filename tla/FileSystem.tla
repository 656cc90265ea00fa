----------------------------- MODULE FileSystem -----------------------------
(***************************************************************************)
(* The blocks of the file system: fs/fs.c below the directories, the block *)
(* cache of fs/bc.c, and the requests of fs/serv.c that read, write,       *)
(* resize and flush files, with power failures at any time.                *)
(*                                                                         *)
(* A block of the disk is read into memory by a page fault at the first    *)
(* access and stays there.  The dirty bit of its page tells flush_block    *)
(* whether to write it.  The server works on one request at a time, so the *)
(* work in memory is one step; its disk writes follow one block a step.    *)
(*                                                                         *)
(* A block holds BLKSIZE words.  A word is a piece of data, or a block     *)
(* number in an indirect block: which, depends only on who reads it.       *)
(*                                                                         *)
(* An operator named X_Y is X with a slip a programmer could make.         *)
(***************************************************************************)
EXTENDS Integers, Sequences, FiniteSets, SequencesExt, FiniteSetsExt

CONSTANTS
  Files,        \* the files of the root directory
  NBLOCKS,      \* super->s_nblocks
  NDIRECT,      \* inc/fs.h: direct blocks of a file
  BLKSIZE,      \* inc/fs.h: words in a block
  Values,       \* the words that programs write
  MaxSize,      \* bound: the largest size a program asks for
  Sizes,        \* bound: the sizes that programs set
  Reads,        \* bound: offset and count of the reads
  Writes,       \* bound: offset and count of the writes
  NULL

ASSUME LayoutAssumption ==
  NBLOCKS \in Nat /\ NBLOCKS > 4 /\ NDIRECT \in Nat /\ BLKSIZE \in Nat \ {0} /\ MaxSize \in Nat
ASSUME BoundsAssumption ==
  /\ Sizes \subseteq 0 .. MaxSize /\ Reads \cup Writes \subseteq Nat \X (1 .. BLKSIZE)
  /\ \A x \in Writes : x[1] + x[2] <= MaxSize
ASSUME ValuesAssumption == Values \subseteq Nat /\ NULL \notin Values

NINDIRECT == BLKSIZE
Capacity == (NDIRECT + NINDIRECT) * BLKSIZE
Blocks == 0 .. NBLOCKS - 1
Words == 0 .. BLKSIZE - 1

\* Block 0 is never used.  The directory and all its struct Files are in one block.
SuperBlock == 1
BitmapBlock == 2
DirBlock == 3
Reserved == {0, SuperBlock, BitmapBlock, DirBlock}

\* -E_NO_DISK, taken for a block number
NoDisk == NBLOCKS

File == [f_size : Nat, f_direct : [0 .. NDIRECT - 1 -> 0 .. NBLOCKS], f_indirect : 0 .. NBLOCKS]

\* What a block holds
Content(b) ==
  IF b = SuperBlock THEN {"super", "OOPS!"}
  ELSE IF b = BitmapBlock THEN SUBSET Blocks
  ELSE IF b = DirBlock THEN [Files -> File]
  ELSE [Words -> Nat]

\* Why a request ends early, and why the server panics
Errors == {"E_INVAL", "E_NOT_FOUND"}
Panics ==
  {"bad block number", "in bc_pgfault, sys_page_map", "reading free block", "free zero block",
   "attempt to free zero block", "bad file system magic number", "assertion failed"}
ASSUME NullAssumption ==
  /\ NULL \notin Errors \cup Panics \cup {"super", "OOPS!"}
  /\ NULL \notin [Files -> File] /\ NULL \notin [Words -> Nat]
  /\ \A S \in SUBSET Blocks : NULL # S

VARIABLES
  fs,        \* the disk, and the memory of the file server
  written,   \* history: the word written last at each place within a file
  flushed    \* history: the files not touched since they were flushed

vars == <<fs, written, flushed>>

-----------------------------------------------------------------------------
\* A request ends early with an error for the client (r), or the server panics.

Panic(s, why) == [s EXCEPT !.panic = why]
Fail(s, error) == [s EXCEPT !.r = error]
Stopped(s) == s.panic # NULL \/ s.r # NULL

\* fs/bc.c

block_is_free(s, b) == b \in s.cache[BitmapBlock]

\* The page fault at the first access rounds the address for the new page but
\* not for the sys_page_map that clears the dirty bit.
Touch(s, b, word) ==
  IF Stopped(s) THEN s
  ELSE IF b \notin Blocks \ {0} THEN Panic(s, "bad block number")
  ELSE IF s.cache[b] # NULL THEN s
  ELSE IF word # 0 THEN Panic(s, "in bc_pgfault, sys_page_map")
  ELSE IF block_is_free(s, b) THEN Panic(s, "reading free block")
  ELSE [s EXCEPT !.cache[b] = s.disk[b]]

\* Memory of a cached block changes.
Modify(s, b, content) == [s EXCEPT !.cache[b] = content, !.dirty = @ \cup {b}]

flush_block(s, b) ==
  IF Stopped(s) THEN s
  ELSE IF b \notin Blocks \ {0} THEN Panic(s, "bad block number")
  ELSE IF b \notin s.dirty THEN s
  ELSE [s EXCEPT !.dirty = @ \ {b}, !.writes = Append(@, <<b, s.cache[b]>>)]

-----------------------------------------------------------------------------
\* The bitmap

\* What alloc_block returns, and what it does
NextFree(s) == IF s.cache[BitmapBlock] = {} THEN NoDisk ELSE Min(s.cache[BitmapBlock])

alloc_block(s) ==
  IF NextFree(s) = NoDisk THEN s
  ELSE IF NextFree(s) = 0 THEN Panic(s, "free zero block")
  ELSE flush_block(Modify(s, BitmapBlock, s.cache[BitmapBlock] \ {NextFree(s)}), NextFree(s))

\* A bit beyond the last block is never looked at.
free_block(s, b) ==
  IF b = 0 THEN Panic(s, "attempt to free zero block")
  ELSE Modify(s, BitmapBlock, s.cache[BitmapBlock] \cup ({b} \cap Blocks))

-----------------------------------------------------------------------------
\* From file blocks to disk blocks

Struct(s, f) == s.cache[DirBlock][f]
SetStruct(s, f, file) == Modify(s, DirBlock, [s.cache[DirBlock] EXCEPT ![f] = file])

Slot(s, f, n) ==
  IF n < NDIRECT THEN Struct(s, f).f_direct[n]
  ELSE s.cache[Struct(s, f).f_indirect][n - NDIRECT]
SetSlot(s, f, n, b) ==
  LET ind == Struct(s, f).f_indirect
  IN  IF n < NDIRECT
      THEN SetStruct(s, f, [Struct(s, f) EXCEPT !.f_direct[n] = b])
      ELSE Modify(s, ind, [s.cache[ind] EXCEPT ![n - NDIRECT] = b])

Clear(s, b) ==
  LET t == Touch(s, b, 0)
  IN  IF Stopped(t) THEN t ELSE Modify(t, b, [w \in Words |-> 0])

\* When this does not stop, Slot(s, f, n) can be read.
file_block_walk(s, f, n, alloc) ==
  LET ind == Struct(s, f).f_indirect
  IN  IF Stopped(s) \/ n < NDIRECT THEN s
      ELSE IF n >= NDIRECT + NINDIRECT THEN Fail(s, "E_INVAL")
      ELSE IF ind # 0 THEN Touch(s, ind, n - NDIRECT)
      ELSE IF ~alloc THEN Fail(s, "E_NOT_FOUND")
      ELSE Clear(SetStruct(alloc_block(s), f, [Struct(s, f) EXCEPT !.f_indirect = NextFree(s)]),
                 NextFree(s))

file_get_block(s, f, n) ==
  LET t == file_block_walk(s, f, n, TRUE)
  IN  IF Stopped(t) \/ Slot(t, f, n) # 0
      THEN t
      ELSE SetSlot(alloc_block(t), f, n, NextFree(t))

-----------------------------------------------------------------------------
\* Files

NumBlocks(size) == (size + BLKSIZE - 1) \div BLKSIZE

\* The blocks that hold the words off .. off + count - 1, in their order, and
\* the first of these words in a block.
Span(off, count) ==
  LET first == off \div BLKSIZE
  IN  [k \in 1 .. NumBlocks(off + count) - first |-> first + k - 1]
FirstWord(off, n) == IF n = off \div BLKSIZE THEN off % BLKSIZE ELSE 0

Reach(s, f, n, word) ==
  LET t == file_get_block(s, f, n)
  IN  IF Stopped(t) THEN t ELSE Touch(t, Slot(t, f, n), word)

file_read(s, f, count, off) ==
  LET size == Struct(s, f).f_size
      Step(t, n) == Reach(t, f, n, FirstWord(off, n))
  IN  IF off >= size
      THEN s
      ELSE FoldLeft(Step, s, Span(off, Min({count, size - off})))

\* serve_write has set the size before it calls file_write.
file_write(s, f, count, off, v) ==
  LET size == Struct(s, f).f_size
      sized == IF off + count > size
               THEN SetStruct(s, f, [Struct(s, f) EXCEPT !.f_size = off + count])
               ELSE s
      Step(t, n) ==
        LET u == Reach(t, f, n, FirstWord(off, n))
            b == Slot(u, f, n)
        IN  IF Stopped(u) THEN u
            ELSE Modify(u, b, [w \in Words |->
                                 IF n * BLKSIZE + w \in off .. off + count - 1
                                 THEN v ELSE u.cache[b][w]])
  IN  FoldLeft(Step, sized, Span(off, count))

file_free_block_Kept(s, f, n) ==
  LET t == file_block_walk(s, f, n, FALSE)
  IN  IF t.panic # NULL THEN t
      ELSE IF t.r # NULL \/ Slot(t, f, n) = 0 THEN [t EXCEPT !.r = NULL]
      ELSE free_block(t, Slot(t, f, n))
file_free_block(s, f, n) ==
  LET t == file_block_walk(s, f, n, FALSE)
  IN  IF t.panic # NULL THEN t
      ELSE IF t.r # NULL \/ Slot(t, f, n) = 0 THEN [t EXCEPT !.r = NULL]
      ELSE SetSlot(free_block(t, Slot(t, f, n)), f, n, 0)

file_truncate_blocks(s, f, newsize) ==
  LET old == NumBlocks(Struct(s, f).f_size)
      new == NumBlocks(newsize)
      Step(t, n) == IF Stopped(t) THEN t ELSE file_free_block(t, f, n)
      t == FoldLeft(Step, s, [k \in 1 .. old - new |-> new + k - 1])
      ind == Struct(t, f).f_indirect
  IN  IF Stopped(t) \/ new > NDIRECT \/ ind = 0
      THEN t
      ELSE SetStruct(free_block(t, ind), f, [Struct(t, f) EXCEPT !.f_indirect = 0])

file_set_size(s, f, newsize) ==
  LET t == IF Struct(s, f).f_size > newsize THEN file_truncate_blocks(s, f, newsize) ELSE s
  IN  IF Stopped(t) THEN t
      ELSE flush_block(SetStruct(t, f, [Struct(t, f) EXCEPT !.f_size = newsize]), DirBlock)

FlushData(s, f) ==
  LET Step(t, n) ==
        LET u == file_block_walk(t, f, n, FALSE)
        IN  IF u.panic # NULL THEN u
            ELSE IF u.r # NULL \/ Slot(u, f, n) = 0 THEN [u EXCEPT !.r = NULL]
            ELSE flush_block(u, Slot(u, f, n))
  IN  FoldLeft(Step, s, Span(0, Struct(s, f).f_size))

file_flush_Short(s, f) == flush_block(FlushData(s, f), DirBlock)
file_flush(s, f) ==
  LET t == flush_block(FlushData(s, f), DirBlock)
      ind == Struct(t, f).f_indirect
  IN  IF ind = 0 THEN t ELSE flush_block(t, ind)

fs_sync(s) == FoldLeft(flush_block, s, [b \in 1 .. NBLOCKS - 1 |-> b])

-----------------------------------------------------------------------------
\* Requests, disk writes and power failures

\* fs_init: check_bc smashes the superblock and puts it back; the superblock
\* and the bitmap are read and checked.  The first open reads the directory.
Boot(disk) ==
  [disk |-> disk,
   cache |-> [b \in Blocks |-> IF b \in Reserved \ {0} THEN disk[b] ELSE NULL],
   dirty |-> {},
   writes |-> <<<<SuperBlock, "OOPS!">>, <<SuperBlock, disk[SuperBlock]>>>>,
   panic |-> IF disk[SuperBlock] # "super" THEN "bad file system magic number"
             ELSE IF disk[BitmapBlock] \cap {0, SuperBlock, BitmapBlock} # {}
             THEN "assertion failed"
             ELSE IF DirBlock \in disk[BitmapBlock] THEN "reading free block"
             ELSE NULL,
   r |-> NULL]

\* A disk of empty files, as fsformat makes it
Formatted ==
  [b \in Blocks |->
     IF b = SuperBlock THEN "super"
     ELSE IF b = BitmapBlock THEN Blocks \ Reserved
     ELSE IF b = DirBlock
     THEN [f \in Files |-> [f_size |-> 0, f_direct |-> [n \in 0 .. NDIRECT - 1 |-> 0],
                            f_indirect |-> 0]]
     ELSE [w \in Words |-> 0]]

Init ==
  /\ fs = [Boot(Formatted) EXCEPT !.writes = <<>>]
  /\ written = [f \in Files |-> [i \in 0 .. MaxSize - 1 |-> NULL]]
  /\ flushed = Files

\* The server has received a request; it answers with r.
Serve(s) ==
  /\ fs.panic = NULL
  /\ fs.writes = <<>>
  /\ fs' = [s EXCEPT !.r = NULL]

\* What lies beyond the new size is not defined any more.
SetSize(f, size) ==
  /\ Serve(file_set_size(fs, f, size))
  /\ written' = [written EXCEPT ![f] = [i \in 0 .. MaxSize - 1 |->
                                          IF i < size THEN @[i] ELSE NULL]]
  /\ flushed' = flushed \ {f}

\* A read gives blocks to the holes it meets.
Read(f, count, off) ==
  /\ Serve(file_read(fs, f, count, off))
  /\ flushed' = flushed \ {f}
  /\ UNCHANGED written

\* A write beyond the largest file fails after the part that fits.  A write
\* during which the server panics is not answered, and promises nothing.
Write(f, count, off, v) ==
  /\ Serve(file_write(fs, f, count, off, v))
  /\ written' = [written EXCEPT ![f] = [i \in 0 .. MaxSize - 1 |->
                     IF i \in off .. off + count - 1 /\ i < Capacity
                     THEN IF fs'.panic = NULL THEN v ELSE NULL
                     ELSE @[i]]]
  /\ flushed' = flushed \ {f}

Flush(f) ==
  /\ Serve(file_flush(fs, f))
  /\ flushed' = flushed \cup {f}
  /\ UNCHANGED written

Sync ==
  /\ Serve(fs_sync(fs))
  /\ flushed' = Files
  /\ UNCHANGED written

\* ide_write
WriteBlock ==
  /\ fs.writes # <<>>
  /\ LET b == Head(fs.writes)[1]
     IN  fs' = [fs EXCEPT !.disk[b] = Head(fs.writes)[2], !.writes = Tail(@)]
  /\ UNCHANGED <<written, flushed>>

\* The power fails, and the system boots.
PowerFailure ==
  /\ fs' = Boot(fs.disk)
  /\ UNCHANGED <<written, flushed>>

Requests ==
  \/ \E f \in Files :
       \/ Flush(f)
       \/ \E size \in Sizes : SetSize(f, size)
       \/ \E x \in Reads : Read(f, x[2], x[1])
       \/ \E x \in Writes, v \in Values : Write(f, x[2], x[1], v)
  \/ Sync

Next == Requests \/ WriteBlock \/ PowerFailure

Spec == Init /\ [][Next]_vars

\* The power fails only when everything is on the disk, as after a sync.
CleanPowerFailure == fs.dirty = {} /\ fs.writes = <<>> /\ PowerFailure
CleanNext == Requests \/ WriteBlock \/ CleanPowerFailure
CleanSpec == Init /\ [][CleanNext]_vars

-----------------------------------------------------------------------------
(***************************************************************************)
(* Properties                                                              *)
(***************************************************************************)

\* The type invariant.
TypeOK ==
  /\ DOMAIN fs.disk = Blocks /\ DOMAIN fs.cache = Blocks
  /\ \A b \in Blocks : fs.disk[b] \in Content(b) /\ fs.cache[b] \in Content(b) \cup {NULL}
  /\ \A f \in Files : Struct(fs, f).f_size <= MaxSize
  /\ fs.dirty \subseteq {b \in Blocks : fs.cache[b] # NULL}
  /\ \A k \in DOMAIN fs.writes : fs.writes[k][2] \in Content(fs.writes[k][1])
  /\ written \in [Files -> [0 .. MaxSize - 1 -> Values \cup {NULL}]]
  /\ flushed \subseteq Files

\* A block as the server sees it, now or when it will first touch it
View(b) == IF fs.cache[b] = NULL THEN fs.disk[b] ELSE fs.cache[b]

\* The disk block behind block n of a file, 0 for a hole; -1 for f_indirect
BlockOf(f, n) ==
  LET file == Struct(fs, f)
  IN  IF n = -1 THEN file.f_indirect
      ELSE IF n < NDIRECT THEN file.f_direct[n]
      ELSE IF file.f_indirect = 0 THEN 0
      ELSE View(file.f_indirect)[n - NDIRECT]

BlockNumbers == -1 .. NDIRECT + NINDIRECT - 1
Refs(b) == {x \in Files \X BlockNumbers : BlockOf(x[1], x[2]) = b}

\* Every block is free or used once: no sequence of writes, holes, truncations
\* and reads shares a block between files, leaks one, or frees one in use.
BlocksExact ==
  fs.panic = NULL =>
    \A b \in Blocks \ {0} :
      Cardinality(Refs(b)) + (IF b \in fs.cache[BitmapBlock] THEN 1 ELSE 0)
        = IF b \in Reserved THEN 0 ELSE 1

\* What was written at a place is there, until something else is written there
\* or the file is made shorter (fs/fs.c, file_write).
ReadsWhatWasWritten ==
  fs.panic = NULL =>
    \A f \in Files, i \in 0 .. MaxSize - 1 :
      written[f][i] # NULL =>
        /\ i < Struct(fs, f).f_size
        /\ BlockOf(f, i \div BLKSIZE) # 0
        /\ View(BlockOf(f, i \div BLKSIZE))[i % BLKSIZE] = written[f][i]

\* A file that was flushed is on the disk, contents and metadata, whatever was
\* done to other files since (fs/fs.c:463, file_flush).
FlushedIsOnDisk ==
  fs.panic = NULL /\ fs.writes = <<>> =>
    \A f \in flushed :
      /\ fs.disk[DirBlock][f] = Struct(fs, f)
      /\ \A n \in BlockNumbers : BlockOf(f, n) # 0 => fs.disk[BlockOf(f, n)] = View(BlockOf(f, n))

\* The server meets a bad block number only when the disk is full, and never a
\* block that is marked free.
PanicOnlyWhenFull ==
  /\ fs.panic = "bad block number" => fs.cache[BitmapBlock] = {}
  /\ fs.panic \in {NULL, "bad block number", "in bc_pgfault, sys_page_map"}

\* The disk and the cache hold what they should, every block belongs to one
\* owner, and the server stops only when the disk is full or at the first
\* access to a block that is not at its start (fs/bc.c:60).
DiskOK == TypeOK /\ BlocksExact /\ PanicOnlyWhenFull

\* fs/fs.c:49-51: the bitmap goes to the disk as soon as a block is allocated,
\* so a block in use is not free after a power failure.
BlocksStayInUse == fs.panic # "reading free block"
=============================================================================
