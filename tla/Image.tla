--------------------------------- MODULE Image ---------------------------------
(***************************************************************************)
(* fs/fsformat.c, the tool that builds the disk image which the file       *)
(* server serves.                                                          *)
(*                                                                         *)
(* The disk grows at diskpos, a block number, and a block of it is given   *)
(* by what was written to it: pieces <<f, k>> of the files, tables of      *)
(* block numbers, or struct Files.  A file has a size in bytes; a size of  *)
(* 0 turns round in the 32 bits of alloc's argument and finishfile's len,  *)
(* and gives 0, but not in the int of finishdir.                           *)
(***************************************************************************)
EXTENDS Integers, Sequences, FiniteSets

CONSTANTS
  Images,         \* the calls: <<NBLOCKS, the sizes of the files>>
  BLKSIZE,
  STRUCTFILE,     \* sizeof(struct File)
  BLKBITSIZE,     \* bits of a block of the bitmap
  NDIRECT, NINDIRECT,
  MAX_DIR_ENTS

VARIABLES
  image,          \* "open", "files", "disk", "done" or "panic"
  nblocks, sizes,
  diskpos,
  disk,           \* block -> what was written there
  ents,           \* of the root directory
  s_root,
  bitmap          \* the blocks whose bit is set, the free ones

imageVars == <<image, nblocks, sizes, diskpos, disk, ents, s_root, bitmap>>

Blocks(bytes) == (bytes + BLKSIZE - 1) \div BLKSIZE
NoFile == [f_size |-> 0, f_direct |-> <<>>, f_indirect |-> 0]
MAXFILESIZE == (NDIRECT + NINDIRECT) * BLKSIZE

ImageInit ==
  /\ image = "open"
  /\ \E i \in Images : nblocks = i[1] /\ sizes = i[2]
  /\ diskpos = 0 /\ disk = <<>> /\ ents = <<>> /\ s_root = NoFile /\ bitmap = {}

Panic ==
  /\ image' = "panic"
  /\ UNCHANGED <<nblocks, sizes, diskpos, disk, ents, s_root, bitmap>>

\* alloc: n more blocks, of which the last may not be the disk's last.
RoomFor(n) == diskpos + n < nblocks

\* main's test, and opendisk: the boot block, the super block and the bitmap
Nbitblocks == (nblocks + BLKBITSIZE - 1) \div BLKBITSIZE
opendisk ==
  /\ image = "open"
  /\ nblocks \in 2 .. 1024 /\ RoomFor(2 + Nbitblocks)
  /\ diskpos' = 2 + Nbitblocks
  /\ bitmap' = 0 .. Nbitblocks * BLKBITSIZE - 1
  /\ image' = "files"
  /\ UNCHANGED <<nblocks, sizes, disk, ents, s_root>>
opendisk_Fails == image = "open" /\ ~(nblocks \in 2 .. 1024 /\ RoomFor(2 + Nbitblocks)) /\ Panic

\* finishfile: blocks from start on.  The indirect block comes after them, also
\* for a file that the direct ones just hold.
NeedsIndirect(n) == n >= NDIRECT
finishfile(start, len, after) ==
  [f_size |-> len,
   f_direct |-> [i \in 1 .. IF Blocks(len) < NDIRECT THEN Blocks(len) ELSE NDIRECT |-> start + i - 1],
   f_indirect |-> IF NeedsIndirect(Blocks(len)) THEN after ELSE 0]
Indirect(start, len) ==
  [i \in 1 .. IF Blocks(len) > NDIRECT THEN Blocks(len) - NDIRECT ELSE 0 |-> start + NDIRECT + i - 1]
BlocksAndTable(n) == IF NeedsIndirect(n) THEN n + 1 ELSE n

\* writefile for the next file
ThisFile == Len(ents) + 1
CanWrite(size) ==
  size < MAXFILESIZE /\ Len(ents) < MAX_DIR_ENTS /\ RoomFor(BlocksAndTable(Blocks(size)))
writefile ==
  /\ image = "files" /\ ThisFile <= Len(sizes)
  /\ LET size == sizes[ThisFile]
         n == Blocks(size)
     IN  /\ CanWrite(size)
         /\ disk' = [b \in DOMAIN disk \cup (diskpos .. diskpos + BlocksAndTable(n) - 1) |->
                       IF b < diskpos THEN disk[b]
                       ELSE IF b < diskpos + n THEN <<"piece", ThisFile, b - diskpos + 1>>
                       ELSE <<"table", Indirect(diskpos, size)>>]
         /\ ents' = Append(ents, finishfile(diskpos, size, diskpos + n))
         /\ diskpos' = diskpos + BlocksAndTable(n)
  /\ UNCHANGED <<image, nblocks, sizes, s_root, bitmap>>
writefile_Fails ==
  image = "files" /\ ThisFile <= Len(sizes) /\ ~CanWrite(sizes[ThisFile]) /\ Panic

\* finishdir: the struct Files in blocks; the length of an empty directory is
\* rounded up to a block that alloc has not taken.
PERBLOCK == BLKSIZE \div STRUCTFILE
DirBlocks == (Len(ents) + PERBLOCK - 1) \div PERBLOCK
DirLength == IF ents = <<>> THEN BLKSIZE ELSE DirBlocks * BLKSIZE
DirTable == IF NeedsIndirect(Blocks(DirLength)) THEN 1 ELSE 0
DirBlock(k) ==
  [j \in 1 .. PERBLOCK |-> LET e == (k - 1) * PERBLOCK + j
                           IN  IF e <= Len(ents) THEN ents[e] ELSE NoFile]
finishdir ==
  /\ image = "files" /\ ThisFile > Len(sizes) /\ RoomFor(DirBlocks + DirTable)
  /\ disk' = [b \in DOMAIN disk \cup (diskpos .. diskpos + DirBlocks + DirTable - 1) |->
                IF b < diskpos THEN disk[b]
                ELSE IF b < diskpos + DirBlocks THEN <<"dir", DirBlock(b - diskpos + 1)>>
                ELSE <<"table", Indirect(diskpos, DirLength)>>]
  /\ s_root' = finishfile(diskpos, DirLength, diskpos + DirBlocks)
  /\ diskpos' = diskpos + DirBlocks + DirTable
  /\ image' = "disk"
  /\ UNCHANGED <<nblocks, sizes, ents, bitmap>>
finishdir_Fails ==
  image = "files" /\ ThisFile > Len(sizes) /\ ~RoomFor(DirBlocks + DirTable) /\ Panic

finishdisk ==
  /\ image = "disk"
  /\ bitmap' = bitmap \ (0 .. diskpos - 1)
  /\ image' = "done"
  /\ UNCHANGED <<nblocks, sizes, diskpos, disk, ents, s_root>>

ImageNext ==
  \/ opendisk \/ opendisk_Fails
  \/ writefile \/ writefile_Fails
  \/ finishdir \/ finishdir_Fails
  \/ finishdisk

-----------------------------------------------------------------------------
\* The blocks of a file as the file server finds them (file_block_walk)
BlockOf(f, k) == IF k <= NDIRECT THEN f.f_direct[k] ELSE disk[f.f_indirect][2][k - NDIRECT]
Claims(f) ==
  {BlockOf(f, k) : k \in 1 .. Blocks(f.f_size)}
    \cup (IF f.f_indirect = 0 THEN {} ELSE {f.f_indirect})

\* A finished image is one the server can serve: the root directory holds all
\* files in their order and nothing else, a file's blocks hold its pieces, no
\* block belongs to two files or to none, and exactly the others are free
\* (writefile, finishfile, finishdir, finishdisk).  Except that the directory of
\* an image without files claims a free block.
ImageIsRight ==
  image = "done" =>
    LET AllFiles == 0 .. Len(sizes)
        F(i) == IF i = 0 THEN s_root ELSE ents[i]
        meta == 0 .. 1 + Nbitblocks
    IN  /\ Len(ents) = Len(sizes)
        /\ \A i \in 1 .. Len(sizes) :
             /\ ents[i].f_size = sizes[i]
             /\ \A k \in 1 .. Blocks(sizes[i]) : disk[BlockOf(ents[i], k)] = <<"piece", i, k>>
        /\ \A i, j \in AllFiles : i # j => Claims(F(i)) \cap Claims(F(j)) = {}
        /\ \A i \in AllFiles :
             Cardinality(Claims(F(i))) =
               Blocks(F(i).f_size) + IF F(i).f_indirect = 0 THEN 0 ELSE 1
        /\ UNION {Claims(F(i)) : i \in AllFiles} \cap meta = {}
        /\ IF sizes = <<>>
           THEN Claims(s_root) \subseteq bitmap
           ELSE /\ \A k \in 1 .. Blocks(s_root.f_size), j \in 1 .. PERBLOCK :
                     LET e == (k - 1) * PERBLOCK + j
                     IN  disk[BlockOf(s_root, k)][2][j] =
                           IF e \in 1 .. Len(ents) THEN ents[e] ELSE NoFile
                /\ (0 .. nblocks - 1) \ bitmap =
                     meta \cup UNION {Claims(F(i)) : i \in AllFiles}
        /\ nblocks - 1 \in bitmap
=============================================================================
