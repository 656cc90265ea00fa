---------------------------- MODULE BlocksProofs ----------------------------
(***************************************************************************)
(* FileSystem, proved for any number of files and blocks: every block of   *)
(* the disk has one owner, what was written can be read, and what was      *)
(* flushed is on the disk.  At the end, with the same lemmas about folds   *)
(* and multiples, Loader: a program starts with all of its arguments,      *)
(* segments and files, whatever they are.                                  *)
(***************************************************************************)
EXTENDS FileSystem, Loader, FiniteSetTheorems, WellFoundedInduction, SequenceTheorems, TLAPS

-----------------------------------------------------------------------------
(***************************************************************************)
(* The inductive invariant                                                 *)
(***************************************************************************)

AllContent == {"super", "OOPS!"} \cup (SUBSET Blocks) \cup [Files -> File] \cup [Words -> Nat]
States ==
  [disk : [Blocks -> AllContent], cache : [Blocks -> AllContent \cup {NULL}],
   dirty : SUBSET Blocks, writes : Seq(Blocks \X AllContent),
   panic : Panics \cup {NULL}, r : Errors \cup {NULL}]

Bitmap(s) == s.cache[BitmapBlock]
ViewOf(s, b) == IF s.cache[b] = NULL THEN s.disk[b] ELSE s.cache[b]
Owned(s, f, n) ==
  LET file == Struct(s, f)
  IN  IF n = -1 THEN file.f_indirect
      ELSE IF n < NDIRECT THEN file.f_direct[n]
      ELSE IF file.f_indirect = 0 THEN 0
      ELSE ViewOf(s, file.f_indirect)[n - NDIRECT]

\* Write k is the last one of a block, and c is what the disk will hold.
IsLast(s, k, b) == s.writes[k][1] = b /\ \A j \in DOMAIN s.writes : j > k => s.writes[j][1] # b
Pending(s, b) == \E k \in DOMAIN s.writes : s.writes[k][1] = b
Arrives(s, b, c) ==
  /\ \A k \in DOMAIN s.writes : IsLast(s, k, b) => s.writes[k][2] = c
  /\ ~Pending(s, b) => s.disk[b] = c

\* A block of the cache that is not dirty is on the disk, or on its way.
Typed(s) ==
  /\ s \in States
  /\ \A b \in Blocks : s.disk[b] \in Content(b) /\ s.cache[b] \in Content(b) \cup {NULL}
  /\ s.cache[SuperBlock] = "super" /\ s.cache[BitmapBlock] # NULL /\ s.cache[DirBlock] # NULL
  /\ \A f \in Files : Struct(s, f).f_size <= MaxSize
  /\ \A b \in s.dirty : s.cache[b] # NULL
  /\ \A k \in DOMAIN s.writes :
       s.writes[k][2] \in Content(s.writes[k][1]) /\ s.cache[s.writes[k][1]] # NULL
  /\ \A b \in Blocks \ s.dirty : s.cache[b] # NULL => Arrives(s, b, s.cache[b])

\* Every block is free or has one owner, and a file has none behind its end.
Tree(s) ==
  /\ \A f \in Files, n \in BlockNumbers : Owned(s, f, n) # 0 =>
       /\ Owned(s, f, n) \in Blocks \ Reserved /\ Owned(s, f, n) \notin Bitmap(s)
       /\ n >= 0 => n < NumBlocks(Struct(s, f).f_size)
  /\ \A f, g \in Files, m, n \in BlockNumbers :
       Owned(s, f, m) # 0 /\ Owned(s, f, m) = Owned(s, g, n) => f = g /\ m = n
  /\ \A b \in Blocks \ Reserved :
       b \notin Bitmap(s) => \E f \in Files, n \in BlockNumbers : Owned(s, f, n) = b
  /\ Bitmap(s) \cap Reserved = {}

\* The number of a block that there is no room for stops the server for good.
Full == "bad block number"
NotAtStart == "in bc_pgfault, sys_page_map"
Good(s) ==
  /\ Typed(s)
  /\ s.panic \in {NULL, Full, NotAtStart}
  /\ s.panic = Full => Bitmap(s) = {} /\ s.dirty # {}
  /\ s.panic # Full => Tree(s)

\* What was written is there; what was flushed is on the disk, or on its way.
IsThere(s, f, i, v) ==
  LET b == Owned(s, f, i \div BLKSIZE)
  IN  i < Struct(s, f).f_size /\ b # 0 /\ ViewOf(s, b)[i % BLKSIZE] = v
DirOnDisk(s, f) ==
  /\ \A k \in DOMAIN s.writes : IsLast(s, k, DirBlock) => s.writes[k][2][f] = Struct(s, f)
  /\ ~Pending(s, DirBlock) => s.disk[DirBlock][f] = Struct(s, f)
OnDisk(s, f) ==
  /\ DirOnDisk(s, f)
  /\ \A n \in BlockNumbers : Owned(s, f, n) # 0 => Owned(s, f, n) \notin s.dirty

Shown(s, w) ==
  s.panic # Full =>
    \A f \in Files, i \in 0 .. MaxSize - 1 :
      w[f][i] # NULL => i < Capacity /\ IsThere(s, f, i, w[f][i])
Intact(s, w, D) ==
  /\ Good(s) /\ s.r = NULL
  /\ w \in [Files -> [0 .. MaxSize - 1 -> Values \cup {NULL}]] /\ Shown(s, w)
  /\ D \subseteq Files /\ (s.panic = NULL => \A f \in D : OnDisk(s, f))
BlocksInv == Intact(fs, written, flushed)

-----------------------------------------------------------------------------
(***************************************************************************)
(* The writes on their way to the disk                                     *)
(***************************************************************************)

LEMMA Numbers ==
  /\ SuperBlock = 1 /\ BitmapBlock = 2 /\ DirBlock = 3 /\ Reserved = {0, 1, 2, 3}
  /\ {0, 1, 2, 3, 4} \subseteq Blocks /\ Blocks \subseteq Nat /\ NoDisk \in Nat /\ NoDisk \notin Blocks
  /\ NoDisk # 0 /\ \A b \in Blocks : b \in 0 .. NBLOCKS
<1> QED BY LayoutAssumption DEF SuperBlock, BitmapBlock, DirBlock, Reserved, Blocks, NoDisk

LEMMA Contents ==
  /\ Content(SuperBlock) = {"super", "OOPS!"} /\ Content(BitmapBlock) = SUBSET Blocks
  /\ Content(DirBlock) = [Files -> File]
  /\ \A b \in Blocks : b \notin {1, 2, 3} => Content(b) = [Words -> Nat]
  /\ \A b \in Blocks : \A c \in Content(b) : c # NULL /\ c \in AllContent
<1>1. SuperBlock = 1 /\ BitmapBlock = 2 /\ DirBlock = 3
  BY Numbers
<1>2. /\ Content(1) = {"super", "OOPS!"} /\ Content(2) = SUBSET Blocks
      /\ Content(3) = [Files -> File]
      /\ \A b \in Blocks : b \notin {1, 2, 3} => Content(b) = [Words -> Nat]
  BY <1>1 DEF Content
<1>3. ASSUME NEW b \in Blocks, NEW c \in Content(b) PROVE c # NULL /\ c \in AllContent
  <2>1. CASE b = 1 BY <1>2, <2>1, NullAssumption DEF AllContent
  <2>2. CASE b = 2 BY <1>2, <2>2, NullAssumption DEF AllContent
  <2>3. CASE b = 3 BY <1>2, <2>3, NullAssumption DEF AllContent
  <2>4. CASE b \notin {1, 2, 3} BY <1>2, <2>4, NullAssumption DEF AllContent
  <2> QED BY <2>1, <2>2, <2>3, <2>4
<1> QED BY <1>1, <1>2, <1>3

\* One more write
LEMMA OneMoreWrite ==
  ASSUME NEW s \in States, NEW t \in States, NEW b0 \in Blocks, NEW c0 \in AllContent,
         t.writes = Append(s.writes, <<b0, c0>>), t.disk = s.disk
  PROVE  /\ \A k \in DOMAIN t.writes : k \in DOMAIN s.writes \/ t.writes[k] = <<b0, c0>>
         /\ \A k \in DOMAIN s.writes : k \in DOMAIN t.writes /\ t.writes[k] = s.writes[k]
         /\ Pending(t, b0) /\ \A k \in DOMAIN t.writes : IsLast(t, k, b0) => t.writes[k] = <<b0, c0>>
         /\ \A b : b # b0 => (Pending(t, b) <=> Pending(s, b))
         /\ \A b, k : b # b0 /\ k \in DOMAIN t.writes /\ IsLast(t, k, b) =>
              k \in DOMAIN s.writes /\ IsLast(s, k, b)
<1> DEFINE w == s.writes
           n == Len(w)
<1>1. w \in Seq(Blocks \X AllContent) /\ <<b0, c0>> \in Blocks \X AllContent
  BY DEF States
<1>2. /\ n \in Nat /\ DOMAIN w = 1 .. n /\ DOMAIN t.writes = 1 .. n + 1
      /\ \A k \in 1 .. n : t.writes[k] = w[k]
      /\ t.writes[n + 1] = <<b0, c0>>
  BY <1>1
<1> HIDE DEF w, n
<1>3. /\ DOMAIN s.writes = 1 .. n /\ \A k \in 1 .. n : t.writes[k] = s.writes[k]
  BY <1>2 DEF w
<1>4. \A k \in 1 .. n + 1 : k \in 1 .. n \/ k = n + 1
  BY <1>2
<1>5. \A k \in 1 .. n : k \in 1 .. n + 1 /\ n + 1 > k
  BY <1>2
<1>6. n + 1 \in 1 .. n + 1
  BY <1>2
<1> QED BY <1>2, <1>3, <1>4, <1>5, <1>6 DEF Pending, IsLast

\* The first write, of c0 to b0, is done.
FirstDone(s, t, b0, c0) ==
  /\ \A k \in DOMAIN t.writes : k + 1 \in DOMAIN s.writes /\ t.writes[k] = s.writes[k + 1]
  /\ \A b : Pending(t, b) => Pending(s, b)
  /\ \A b : Pending(s, b) /\ b # b0 => Pending(t, b)
  /\ ~Pending(t, b0) => 1 \in DOMAIN s.writes /\ s.writes[1] = <<b0, c0>> /\ IsLast(s, 1, b0)
  /\ \A b : \A k \in DOMAIN t.writes : IsLast(t, k, b) => IsLast(s, k + 1, b)
LEMMA FirstWrite ==
  ASSUME NEW s \in States, NEW t \in States, s.writes # <<>>, t.writes = Tail(s.writes),
         NEW b0 \in Blocks, NEW c0, Head(s.writes) = <<b0, c0>>
  PROVE  FirstDone(s, t, b0, c0)
<1> DEFINE w == s.writes
           n == Len(w)
<1>1. w \in Seq(Blocks \X AllContent)
  BY DEF States
<1>2. /\ n \in Nat \ {0} /\ DOMAIN w = 1 .. n /\ DOMAIN t.writes = 1 .. n - 1
      /\ \A k \in 1 .. n - 1 : t.writes[k] = w[k + 1]
      /\ w[1] = <<b0, c0>>
  BY <1>1, EmptySeq, HeadTailProperties
<1> HIDE DEF w, n
<1>3. DOMAIN s.writes = 1 .. n /\ s.writes[1] = <<b0, c0>> /\ \A k \in 1 .. n - 1 : t.writes[k] = s.writes[k + 1]
  BY <1>2 DEF w
<1>4. \A k \in 1 .. n - 1 : k + 1 \in 1 .. n
  BY <1>2
<1>5. \A k \in 1 .. n : k = 1 \/ (k - 1 \in 1 .. n - 1 /\ (k - 1) + 1 = k)
  BY <1>2
<1>6. 1 \in 1 .. n
  BY <1>2
<1>7. ASSUME NEW b, NEW k \in 1 .. n - 1, IsLast(t, k, b) PROVE IsLast(s, k + 1, b)
  <2>1. s.writes[k + 1][1] = b
    BY <1>3, <1>7 DEF IsLast
  <2>2. ASSUME NEW j \in 1 .. n, j > k + 1 PROVE s.writes[j][1] # b
    <3> DEFINE i == j - 1
    <3>1. i \in 1 .. n - 1 /\ i > k /\ i + 1 = j
      BY <1>2, <2>2
    <3> HIDE DEF i
    <3>2. t.writes[i] = s.writes[j] /\ i \in DOMAIN t.writes
      BY <1>2, <1>3, <3>1
    <3> QED BY <1>7, <3>1, <3>2 DEF IsLast
  <2> QED BY <1>3, <2>1, <2>2 DEF IsLast
<1>8. \A b : Pending(t, b) => Pending(s, b)
  BY <1>2, <1>3, <1>4 DEF Pending
<1>9. \A b : Pending(s, b) /\ b # b0 => Pending(t, b)
  <2> SUFFICES ASSUME NEW b, b # b0, NEW k \in 1 .. n, s.writes[k][1] = b PROVE Pending(t, b)
    BY <1>3 DEF Pending
  <2> DEFINE i == k - 1
  <2>1. k # 1
    BY <1>3
  <2>2. i \in 1 .. n - 1 /\ i + 1 = k
    BY <1>5, <2>1
  <2> HIDE DEF i
  <2>3. t.writes[i] = s.writes[k] /\ i \in DOMAIN t.writes
    BY <1>2, <1>3, <2>2
  <2> QED BY <2>3 DEF Pending
<1>10. ~Pending(t, b0) => IsLast(s, 1, b0)
  <2> SUFFICES ASSUME ~Pending(t, b0), NEW j \in 1 .. n, j > 1 PROVE s.writes[j][1] # b0
    BY <1>3 DEF IsLast
  <2> DEFINE i == j - 1
  <2>1. i \in 1 .. n - 1 /\ i + 1 = j
    BY <1>2
  <2> HIDE DEF i
  <2>2. t.writes[i] = s.writes[j] /\ i \in DOMAIN t.writes
    BY <1>2, <1>3, <2>1
  <2> QED BY <2>2 DEF Pending
<1> QED BY <1>2, <1>3, <1>4, <1>6, <1>7, <1>8, <1>9, <1>10 DEF FirstDone

-----------------------------------------------------------------------------
(***************************************************************************)
(* The cache                                                               *)
(***************************************************************************)

\* What the operators of the cache do to s, where t is what they return
Modified(s, t, b, c) ==
  /\ Typed(t) /\ t.disk = s.disk /\ t.writes = s.writes /\ t.panic = s.panic /\ t.r = s.r
  /\ t.dirty = s.dirty \cup {b} /\ t.cache = [s.cache EXCEPT ![b] = c] /\ t.cache[b] = c
  /\ ViewOf(t, b) = c /\ \A x \in Blocks \ {b} : ViewOf(t, x) = ViewOf(s, x) /\ t.cache[x] = s.cache[x]
Touched(s, t, b, word) ==
  /\ Typed(t) /\ t.disk = s.disk /\ t.writes = s.writes /\ t.dirty = s.dirty /\ t.r = NULL
  /\ t.panic \in {NULL, NotAtStart} /\ (t.panic = NULL => t.cache[b] # NULL)
  /\ (word = 0 \/ s.cache[b] # NULL => t.panic = NULL)
  /\ \A x \in Blocks : ViewOf(t, x) = ViewOf(s, x) /\ (s.cache[x] # NULL => t.cache[x] = s.cache[x])
BlockFlushed(s, t, b) ==
  /\ Typed(t) /\ ~Stopped(t) /\ t.panic = NULL /\ t.r = NULL
  /\ t.disk = s.disk /\ t.cache = s.cache /\ t.dirty = s.dirty \ {b}
  /\ \A x : ViewOf(t, x) = ViewOf(s, x)
  /\ \A f \in Files : DirOnDisk(s, f) => DirOnDisk(t, f)
  /\ b = DirBlock => \A f \in Files : DirOnDisk(t, f)
StructSet(s, t, f, file) ==
  /\ Typed(t) /\ t.disk = s.disk /\ t.panic = s.panic /\ t.r = s.r
  /\ Struct(t, f) = file /\ t.dirty = s.dirty \cup {DirBlock}
  /\ \A x \in Blocks \ {DirBlock} : ViewOf(t, x) = ViewOf(s, x) /\ t.cache[x] = s.cache[x]
  /\ \A g \in Files \ {f} : Struct(t, g) = Struct(s, g) /\ (DirOnDisk(s, g) => DirOnDisk(t, g))

LEMMA ModifyTypes ==
  ASSUME NEW s, Typed(s), NEW b \in Blocks \ {0, SuperBlock}, NEW c \in Content(b),
         b = DirBlock => \A f \in Files : c[f].f_size <= MaxSize,
         NEW t, t = Modify(s, b, c)
  PROVE  Modified(s, t, b, c)
<1>1. s \in States /\ c # NULL /\ c \in AllContent
  BY Contents DEF Typed
<1>2. /\ t \in States /\ t.disk = s.disk /\ t.writes = s.writes /\ t.panic = s.panic /\ t.r = s.r
      /\ t.dirty = s.dirty \cup {b} /\ t.cache = [s.cache EXCEPT ![b] = c]
  BY <1>1 DEF Modify, States
<1>3. t.cache[b] = c /\ \A x \in Blocks \ {b} : t.cache[x] = s.cache[x]
  BY <1>1, <1>2 DEF States
<1>4. ViewOf(t, b) = c /\ \A x \in Blocks \ {b} : ViewOf(t, x) = ViewOf(s, x)
  BY <1>1, <1>2, <1>3 DEF ViewOf
<1>5. Typed(t)
  <2>1. \A x \in Blocks : t.disk[x] \in Content(x) /\ t.cache[x] \in Content(x) \cup {NULL}
    BY <1>2, <1>3 DEF Typed
  <2>2. t.cache[SuperBlock] = "super" /\ t.cache[BitmapBlock] # NULL /\ t.cache[DirBlock] # NULL
    BY <1>1, <1>3, Numbers DEF Typed
  <2>3. \A f \in Files : Struct(t, f).f_size <= MaxSize
    <3>1. CASE b = DirBlock BY <1>3, <3>1 DEF Struct
    <3>2. CASE b # DirBlock BY <1>3, <3>2, Numbers DEF Struct, Typed
    <3> QED BY <3>1, <3>2
  <2>4. \A x \in t.dirty : t.cache[x] # NULL
    BY <1>1, <1>2, <1>3 DEF Typed, States
  <2>5. \A k \in DOMAIN t.writes :
          t.writes[k][2] \in Content(t.writes[k][1]) /\ t.cache[t.writes[k][1]] # NULL
    <3> SUFFICES ASSUME NEW k \in DOMAIN s.writes
                 PROVE  s.writes[k][2] \in Content(s.writes[k][1]) /\ t.cache[s.writes[k][1]] # NULL
      BY <1>2
    <3>1. s.writes[k] \in Blocks \X AllContent
      BY <1>1 DEF States
    <3> QED BY <1>1, <1>3, <3>1 DEF Typed
  <2>6. ASSUME NEW x \in Blocks \ t.dirty, t.cache[x] # NULL PROVE Arrives(t, x, t.cache[x])
    <3>1. x \in Blocks \ s.dirty /\ x # b /\ t.cache[x] = s.cache[x]
      BY <1>2, <1>3
    <3>2. Arrives(s, x, s.cache[x])
      BY <2>6, <3>1 DEF Typed
    <3> QED BY <1>2, <3>1, <3>2 DEF Arrives, IsLast, Pending
  <2> QED BY <1>2, <2>1, <2>2, <2>3, <2>4, <2>5, <2>6 DEF Typed
<1> QED BY <1>2, <1>3, <1>4, <1>5 DEF Modified

\* A step that changes nothing but whether the work goes on
LEMMA StopTypes ==
  ASSUME NEW s, Typed(s), NEW t \in States, t.disk = s.disk, t.cache = s.cache, t.dirty = s.dirty,
         t.writes = s.writes
  PROVE  Typed(t) /\ \A b : ViewOf(t, b) = ViewOf(s, b)
<1> QED BY DEF Typed, Arrives, IsLast, Pending, ViewOf, Struct

LEMMA TouchTypes ==
  ASSUME NEW s, Typed(s), ~Stopped(s), NEW b \in Blocks \ {0}, b \notin Bitmap(s), NEW word \in Nat,
         NEW t, t = Touch(s, b, word)
  PROVE  Touched(s, t, b, word)
<1>1. s \in States /\ s.panic = NULL /\ s.r = NULL
  BY DEF Typed, Stopped
<1>2. CASE s.cache[b] # NULL
  BY <1>1, <1>2 DEF Touch, Touched
<1>3. CASE s.cache[b] = NULL /\ word # 0
  <2>1. t = [s EXCEPT !.panic = NotAtStart]
    BY <1>1, <1>3 DEF Touch, Panic, NotAtStart
  <2>2. t \in States /\ t.disk = s.disk /\ t.cache = s.cache /\ t.dirty = s.dirty /\ t.writes = s.writes
        /\ t.panic = NotAtStart /\ t.r = s.r
    BY <1>1, <2>1 DEF States, Panics, NotAtStart
  <2>3. NotAtStart # NULL
    BY NullAssumption DEF Panics, NotAtStart
  <2> QED BY <1>1, <1>3, <2>2, <2>3, StopTypes DEF Touched
<1>4. CASE s.cache[b] = NULL /\ word = 0
  <2>1. t = [s EXCEPT !.cache[b] = s.disk[b]]
    BY <1>1, <1>4 DEF Touch, block_is_free, Bitmap
  <2>2. /\ t \in States /\ t.disk = s.disk /\ t.dirty = s.dirty /\ t.writes = s.writes
        /\ t.panic = s.panic /\ t.r = s.r /\ t.cache = [s.cache EXCEPT ![b] = s.disk[b]]
    <3>1. s.disk[b] \in AllContent \cup {NULL}
      BY <1>1 DEF States
    <3> QED BY <1>1, <2>1, <3>1 DEF States
  <2>3. t.cache[b] = s.disk[b] /\ s.disk[b] \in Content(b) /\ \A x \in Blocks \ {b} : t.cache[x] = s.cache[x]
    BY <1>1, <2>2 DEF States, Typed
  <2>4. s.disk[b] # NULL
    BY <2>3, Contents
  <2>5. \A x \in Blocks : ViewOf(t, x) = ViewOf(s, x) /\ (s.cache[x] # NULL => t.cache[x] = s.cache[x])
    BY <1>4, <2>2, <2>3, <2>4 DEF ViewOf
  <2>6. \A x \in Blocks : s.cache[x] # NULL => x # b
    BY <1>4
  <2>7. \A x \in Blocks : t.disk[x] \in Content(x) /\ t.cache[x] \in Content(x) \cup {NULL}
    BY <2>2, <2>3 DEF Typed
  <2>8. t.cache[SuperBlock] = "super" /\ t.cache[BitmapBlock] # NULL /\ t.cache[DirBlock] # NULL
    <3>1. {1, 2, 3} \subseteq Blocks /\ SuperBlock = 1 /\ BitmapBlock = 2 /\ DirBlock = 3
      BY Numbers
    <3>2. "super" # NULL
      BY NullAssumption
    <3> QED BY <2>5, <3>1, <3>2 DEF Typed
  <2>9. \A f \in Files : Struct(t, f).f_size <= MaxSize
    <3>1. t.cache[DirBlock] = s.cache[DirBlock]
      BY <2>5, Numbers DEF Typed
    <3> QED BY <3>1 DEF Typed, Struct
  <2>10. \A x \in t.dirty : t.cache[x] # NULL
    BY <2>2, <2>5, <1>1 DEF Typed, States
  <2>11. \A k \in DOMAIN t.writes :
          t.writes[k][2] \in Content(t.writes[k][1]) /\ t.cache[t.writes[k][1]] # NULL
    <3> SUFFICES ASSUME NEW k \in DOMAIN s.writes
                 PROVE  s.writes[k][2] \in Content(s.writes[k][1]) /\ t.cache[s.writes[k][1]] # NULL
      BY <2>2
    <3>1. s.writes[k] \in Blocks \X AllContent
      BY <1>1 DEF States
    <3> QED BY <2>5, <3>1 DEF Typed
  <2>12. ASSUME NEW x \in Blocks \ t.dirty, t.cache[x] # NULL PROVE Arrives(t, x, t.cache[x])
    <3>1. CASE x = b
      <4>1. \A k \in DOMAIN s.writes : s.writes[k][1] # b
        BY <1>4 DEF Typed
      <4> QED BY <2>2, <2>3, <3>1, <4>1 DEF Arrives, IsLast, Pending
    <3>2. CASE x # b
      <4>1. Arrives(s, x, s.cache[x]) /\ t.cache[x] = s.cache[x]
        BY <2>2, <2>3, <2>12, <3>2 DEF Typed
      <4> QED BY <2>2, <4>1 DEF Arrives, IsLast, Pending
    <3> QED BY <3>1, <3>2
  <2>13. Typed(t)
    BY <2>2, <2>7, <2>8, <2>9, <2>10, <2>11, <2>12 DEF Typed
  <2> QED BY <1>1, <2>2, <2>3, <2>4, <2>5, <2>13 DEF Touched
<1> QED BY <1>2, <1>3, <1>4

\* The directory on the disk does not change for files whose entry does not.
LEMMA DirStays ==
  ASSUME NEW s, NEW t, NEW f, t.disk = s.disk, t.writes = s.writes, Struct(t, f) = Struct(s, f),
         DirOnDisk(s, f)
  PROVE  DirOnDisk(t, f)
<1> QED BY DEF DirOnDisk, IsLast, Pending

LEMMA FlushTypes ==
  ASSUME NEW s, Typed(s), ~Stopped(s), NEW b \in Blocks \ {0}, NEW t, t = flush_block(s, b)
  PROVE  BlockFlushed(s, t, b)
<1>1. s \in States /\ s.panic = NULL /\ s.r = NULL
  BY DEF Typed, Stopped
<1>2. CASE b \notin s.dirty
  <2>1. t = s
    BY <1>1, <1>2 DEF flush_block
  <2>2. t.dirty = s.dirty \ {b}
    BY <1>2, <2>1
  <2>3. ASSUME b = DirBlock, NEW f \in Files PROVE DirOnDisk(t, f)
    <3>1. Arrives(s, b, s.cache[b])
      BY <1>2, <2>3 DEF Typed
    <3> QED BY <2>1, <2>3, <3>1 DEF DirOnDisk, Arrives, Struct
  <2> QED BY <1>1, <2>1, <2>2, <2>3 DEF BlockFlushed
<1>3. CASE b \in s.dirty
  <2> DEFINE c == s.cache[b]
  <2>1. t = [s EXCEPT !.dirty = @ \ {b}, !.writes = Append(@, <<b, s.cache[b]>>)]
    BY <1>1, <1>3 DEF flush_block
  <2>2. c # NULL /\ c \in Content(b) /\ c \in AllContent
    <3>1. c # NULL /\ c \in Content(b)
      BY <1>3 DEF Typed
    <3> QED BY <3>1, Contents
  <2>3. Append(s.writes, <<b, c>>) \in Seq(Blocks \X AllContent)
    BY <1>1, <2>2 DEF States
  <2>4. /\ t \in States /\ t.disk = s.disk /\ t.cache = s.cache /\ t.dirty = s.dirty \ {b}
        /\ t.writes = Append(s.writes, <<b, c>>) /\ t.panic = s.panic /\ t.r = s.r
    BY <1>1, <2>1, <2>3 DEF States
  <2> HIDE DEF c
  <2>5. /\ \A k \in DOMAIN t.writes : k \in DOMAIN s.writes \/ t.writes[k] = <<b, c>>
        /\ \A k \in DOMAIN s.writes : k \in DOMAIN t.writes /\ t.writes[k] = s.writes[k]
        /\ Pending(t, b) /\ \A k \in DOMAIN t.writes : IsLast(t, k, b) => t.writes[k] = <<b, c>>
        /\ \A x : x # b => (Pending(t, x) <=> Pending(s, x))
        /\ \A x, k : x # b /\ k \in DOMAIN t.writes /\ IsLast(t, k, x) =>
             k \in DOMAIN s.writes /\ IsLast(s, k, x)
    <3>1. s \in States /\ b \in Blocks /\ c \in AllContent
      BY <1>1, <2>2
    <3>2. t \in States /\ t.writes = Append(s.writes, <<b, c>>) /\ t.disk = s.disk
      BY <2>4
    <3> QED BY ONLY <3>1, <3>2, OneMoreWrite, SMTT(30)
  <2>6. \A k \in DOMAIN t.writes :
          t.writes[k][2] \in Content(t.writes[k][1]) /\ t.cache[t.writes[k][1]] # NULL
    <3> SUFFICES ASSUME NEW k \in DOMAIN t.writes
                 PROVE  t.writes[k][2] \in Content(t.writes[k][1]) /\ t.cache[t.writes[k][1]] # NULL
      OBVIOUS
    <3>1. CASE k \in DOMAIN s.writes BY <2>4, <2>5, <3>1 DEF Typed
    <3>2. CASE t.writes[k] = <<b, c>> BY <2>2, <2>4, <3>2 DEF c
    <3> QED BY <2>5, <3>1, <3>2
  <2>7. ASSUME NEW x \in Blocks \ t.dirty, t.cache[x] # NULL PROVE Arrives(t, x, t.cache[x])
    <3>1. CASE x = b
      BY <2>4, <2>5, <3>1 DEF Arrives, c
    <3>2. CASE x # b
      <4>1. Arrives(s, x, s.cache[x])
        BY <2>4, <2>7, <3>2 DEF Typed
      <4> QED BY <2>4, <2>5, <3>2, <4>1 DEF Arrives
    <3> QED BY <3>1, <3>2
  <2>8. Typed(t)
    <3>1. \A x \in Blocks : t.disk[x] \in Content(x) /\ t.cache[x] \in Content(x) \cup {NULL}
      BY <2>4 DEF Typed
    <3>2. /\ t.cache[SuperBlock] = "super" /\ t.cache[BitmapBlock] # NULL /\ t.cache[DirBlock] # NULL
          /\ \A f \in Files : Struct(t, f).f_size <= MaxSize /\ \A x \in t.dirty : t.cache[x] # NULL
      BY <2>4 DEF Typed, Struct
    <3> QED BY <2>4, <2>6, <2>7, <3>1, <3>2 DEF Typed
  <2>9. ASSUME NEW f \in Files, DirOnDisk(s, f) \/ b = DirBlock PROVE DirOnDisk(t, f)
    <3>1. CASE b = DirBlock BY <2>4, <2>5, <3>1 DEF DirOnDisk, Struct, c
    <3>2. CASE b # DirBlock /\ DirOnDisk(s, f) BY <2>4, <2>5, <3>2 DEF DirOnDisk, Struct
    <3> QED BY <2>9, <3>1, <3>2
  <2> QED BY <1>1, <2>4, <2>8, <2>9 DEF ViewOf, Stopped, BlockFlushed
<1> QED BY <1>2, <1>3

LEMMA Structs ==
  ASSUME NEW s, Typed(s), NEW f \in Files
  PROVE  /\ s.cache[DirBlock] \in [Files -> File] /\ Struct(s, f) \in File
         /\ Struct(s, f).f_size \in Nat /\ Struct(s, f).f_size <= MaxSize
         /\ Struct(s, f).f_direct \in [0 .. NDIRECT - 1 -> 0 .. NBLOCKS]
         /\ Struct(s, f).f_indirect \in 0 .. NBLOCKS
<1>1. s.cache[DirBlock] \in [Files -> File]
  BY Contents, Numbers DEF Typed
<1> QED BY <1>1 DEF Struct, File, Typed

LEMMA ViewTypes ==
  ASSUME NEW s, Typed(s), NEW b \in Blocks \ Reserved
  PROVE  ViewOf(s, b) \in [Words -> Nat]
<1> QED BY Contents, Numbers DEF Typed, ViewOf

LEMMA SetStructTypes ==
  ASSUME NEW s, Typed(s), NEW f \in Files, NEW file \in File, file.f_size <= MaxSize,
         NEW t, t = SetStruct(s, f, file)
  PROVE  StructSet(s, t, f, file)
<1> DEFINE c == [s.cache[DirBlock] EXCEPT ![f] = file]
<1>1. s.cache[DirBlock] \in [Files -> File] /\ \A g \in Files : Struct(s, g).f_size <= MaxSize
  BY Structs
<1>2. c \in Content(DirBlock) /\ c[f] = file /\ \A g \in Files \ {f} : c[g] = Struct(s, g)
  BY <1>1, Contents DEF Struct
<1>3. \A g \in Files : c[g].f_size <= MaxSize
  BY <1>1, <1>2
<1>4. t = Modify(s, DirBlock, c) /\ DirBlock \in Blocks \ {0, SuperBlock}
  BY Numbers DEF SetStruct
<1> HIDE DEF c
<1>5. Modified(s, t, DirBlock, c)
  BY <1>2, <1>3, <1>4, ModifyTypes
<1>6. Struct(t, f) = file /\ \A g \in Files \ {f} : Struct(t, g) = Struct(s, g)
  BY <1>2, <1>5 DEF Struct, Modified
<1>7. \A g \in Files \ {f} : DirOnDisk(s, g) => DirOnDisk(t, g)
  BY <1>5, <1>6, DirStays DEF Modified
<1> QED BY <1>5, <1>6, <1>7 DEF Modified, StructSet

LEMMA LeastOf ==
  ASSUME NEW S \in SUBSET Nat, S # {}
  PROVE  Min(S) \in S /\ \A x \in S : Min(S) <= x
<1>1. \E x \in S : \A y \in S : ~ (<<y, x>> \in OpToRel(<, Nat))
  BY NatLessThanWellFounded, WFMin
<1>2. PICK x \in S : \A y \in S : ~ (<<y, x>> \in OpToRel(<, Nat))
  BY <1>1
<1>3. ASSUME NEW y \in S
      PROVE  x <= y
  <2>1. ~ (y < x)
    BY <1>2 DEF OpToRel
  <2> QED BY <2>1
<1> QED BY <1>3 DEF Min

LEMMA NextFreeIs ==
  ASSUME NEW s, Typed(s), Bitmap(s) \cap Reserved = {}
  PROVE  /\ Bitmap(s) \in SUBSET Blocks
         /\ Bitmap(s) = {} => NextFree(s) = NoDisk
         /\ Bitmap(s) # {} => NextFree(s) \in Bitmap(s) /\ NextFree(s) \in Blocks \ Reserved
<1>1. Bitmap(s) \in SUBSET Blocks
  BY Contents, Numbers DEF Typed, Bitmap
<1>2. CASE Bitmap(s) # {}
  BY <1>1, <1>2, LeastOf, Numbers DEF NextFree, Bitmap
<1> QED BY <1>1, <1>2 DEF NextFree, Bitmap

-----------------------------------------------------------------------------
(***************************************************************************)
(* Blocks are given and taken                                              *)
(***************************************************************************)

Allocated(s, t, b) ==
  /\ Typed(t) /\ ~Stopped(t) /\ t.disk = s.disk /\ b \in Bitmap(s) /\ b \in Blocks \ Reserved
  /\ Bitmap(t) = Bitmap(s) \ {b}
  /\ \A x \in t.dirty : x \in s.dirty \/ x = BitmapBlock
  /\ \A x \in Blocks \ {BitmapBlock} : ViewOf(t, x) = ViewOf(s, x) /\ t.cache[x] = s.cache[x]
  /\ \A f \in Files : Struct(t, f) = Struct(s, f) /\ (DirOnDisk(s, f) => DirOnDisk(t, f))

LEMMA AllocTypes ==
  ASSUME NEW s, Typed(s), ~Stopped(s), Bitmap(s) \cap Reserved = {}, Bitmap(s) # {},
         NEW t, t = alloc_block(s)
  PROVE  Allocated(s, t, NextFree(s))
<1> DEFINE b == NextFree(s)
           c == Bitmap(s) \ {b}
           m == Modify(s, BitmapBlock, c)
<1>1. Bitmap(s) \in SUBSET Blocks /\ b \in Bitmap(s) /\ b \in Blocks \ Reserved
  BY NextFreeIs
<1>2. b # 0 /\ b # NoDisk /\ t = flush_block(m, b)
  BY <1>1, Numbers DEF alloc_block, Bitmap
<1>3. c \in Content(BitmapBlock) /\ BitmapBlock \in Blocks \ {0, SuperBlock} /\ BitmapBlock # DirBlock
  BY <1>1, Contents, Numbers
<1> HIDE DEF c, m
<1>4. Modified(s, m, BitmapBlock, c)
  BY <1>3, ModifyTypes DEF m
<1>5. Typed(m) /\ ~Stopped(m) /\ b \in Blocks \ {0}
  BY <1>1, <1>2, <1>4 DEF Modified, Stopped
<1>6. BlockFlushed(m, t, b)
  BY <1>2, <1>5, FlushTypes
<1>7. \A f \in Files : Struct(m, f) = Struct(s, f)
  BY <1>3, <1>4, Numbers DEF Modified, Struct
<1>8. \A f \in Files : DirOnDisk(s, f) => DirOnDisk(t, f)
  BY <1>4, <1>6, <1>7, DirStays DEF Modified, BlockFlushed
<1>9. \A f \in Files : Struct(t, f) = Struct(s, f)
  BY <1>6, <1>7 DEF BlockFlushed, Struct
<1>10. Bitmap(t) = c
  BY <1>4, <1>6 DEF Modified, BlockFlushed, Bitmap
<1>11. \A x \in t.dirty : x \in s.dirty \/ x = BitmapBlock
  BY <1>4, <1>6 DEF Modified, BlockFlushed
<1>12. \A x \in Blocks \ {BitmapBlock} : ViewOf(t, x) = ViewOf(s, x) /\ t.cache[x] = s.cache[x]
  BY <1>4, <1>6 DEF Modified, BlockFlushed
<1>13. Typed(t) /\ ~Stopped(t) /\ t.disk = s.disk
  BY <1>4, <1>6 DEF Modified, BlockFlushed
<1> HIDE DEF b
<1>14. Allocated(s, t, b)
  BY <1>1, <1>8, <1>9, <1>10, <1>11, <1>12, <1>13 DEF Allocated, c
<1> QED BY <1>14 DEF b

LEMMA AllocFails ==
  ASSUME NEW s, Typed(s), Bitmap(s) = {}
  PROVE  alloc_block(s) = s /\ NextFree(s) = NoDisk
<1> QED BY DEF alloc_block, NextFree, Bitmap

Freed(s, t, b) ==
  /\ Typed(t) /\ t.disk = s.disk /\ t.panic = s.panic /\ t.r = s.r
  /\ Bitmap(t) = Bitmap(s) \cup {b} /\ t.dirty = s.dirty \cup {BitmapBlock}
  /\ \A x \in Blocks \ {BitmapBlock} : ViewOf(t, x) = ViewOf(s, x) /\ t.cache[x] = s.cache[x]
  /\ \A f \in Files : Struct(t, f) = Struct(s, f) /\ (DirOnDisk(s, f) => DirOnDisk(t, f))

LEMMA FreeTypes ==
  ASSUME NEW s, Typed(s), NEW b \in Blocks \ {0}, NEW t, t = free_block(s, b)
  PROVE  Freed(s, t, b)
<1> DEFINE c == Bitmap(s) \cup {b}
<1>1. Bitmap(s) \in SUBSET Blocks
  BY Contents, Numbers DEF Typed, Bitmap
<1>2. {b} \cap Blocks = {b}
  OBVIOUS
<1>3. t = Modify(s, BitmapBlock, c)
  BY <1>2 DEF free_block, Bitmap
<1>4. c \in Content(BitmapBlock) /\ BitmapBlock \in Blocks \ {0, SuperBlock} /\ BitmapBlock # DirBlock
      /\ DirBlock \in Blocks
  BY <1>1, Contents, Numbers
<1> HIDE DEF c
<1>5. Modified(s, t, BitmapBlock, c)
  BY <1>3, <1>4, ModifyTypes
<1>6. \A f \in Files : Struct(t, f) = Struct(s, f)
  BY <1>4, <1>5 DEF Modified, Struct
<1>7. \A f \in Files : DirOnDisk(s, f) => DirOnDisk(t, f)
  BY <1>5, <1>6, DirStays DEF Modified
<1>8. Bitmap(t) = Bitmap(s) \cup {b}
  BY <1>5 DEF Modified, Bitmap, c
<1> QED BY <1>5, <1>6, <1>7, <1>8 DEF Modified, Freed

\* Who owns which blocks, if one slot changes, or none
LEMMA TreeGrows ==
  ASSUME NEW s, NEW t, Tree(s), NEW f \in Files, NEW n \in BlockNumbers, NEW b \in Bitmap(s),
         b \in Blocks \ Reserved, Bitmap(t) = Bitmap(s) \ {b},
         Owned(s, f, n) = 0, Owned(t, f, n) = b,
         \A g \in Files, m \in BlockNumbers :
           ~(g = f /\ m = n) => Owned(t, g, m) = Owned(s, g, m),
         \A g \in Files : Struct(t, g).f_size = Struct(s, g).f_size,
         n >= 0 => n < NumBlocks(Struct(s, f).f_size)
  PROVE  Tree(t)
<1>1. b # 0
  BY Numbers
<1>2. \A g \in Files, m \in BlockNumbers : Owned(t, g, m) # 0 =>
        /\ Owned(t, g, m) \in Blocks \ Reserved /\ Owned(t, g, m) \notin Bitmap(t)
        /\ m >= 0 => m < NumBlocks(Struct(t, g).f_size)
  BY DEF Tree
<1>3. \A g, h \in Files, m, k \in BlockNumbers :
        Owned(t, g, m) # 0 /\ Owned(t, g, m) = Owned(t, h, k) => g = h /\ m = k
  <2>1. \A g \in Files, m \in BlockNumbers : Owned(s, g, m) # b
    BY <1>1 DEF Tree
  <2> QED BY <2>1 DEF Tree
<1>4. \A x \in Blocks \ Reserved :
        x \notin Bitmap(t) => \E g \in Files, m \in BlockNumbers : Owned(t, g, m) = x
  <2> SUFFICES ASSUME NEW x \in Blocks \ Reserved, x \notin Bitmap(t)
               PROVE  \E g \in Files, m \in BlockNumbers : Owned(t, g, m) = x
    OBVIOUS
  <2>1. CASE x = b BY <2>1
  <2>2. CASE x # b
    <3>1. PICK g \in Files, m \in BlockNumbers : Owned(s, g, m) = x
      BY <2>2 DEF Tree
    <3>2. x # 0
      BY Numbers
    <3> QED BY <3>1, <3>2
  <2> QED BY <2>1, <2>2
<1> QED BY <1>2, <1>3, <1>4 DEF Tree

LEMMA TreeShrinks ==
  ASSUME NEW s, NEW t, Tree(s), NEW f \in Files, NEW n \in BlockNumbers,
         Owned(s, f, n) # 0, Bitmap(t) = Bitmap(s) \cup {Owned(s, f, n)}, Owned(t, f, n) = 0,
         \A g \in Files, m \in BlockNumbers :
           ~(g = f /\ m = n) => Owned(t, g, m) = Owned(s, g, m),
         \A g \in Files : Struct(t, g).f_size = Struct(s, g).f_size
  PROVE  Tree(t)
<1> DEFINE b == Owned(s, f, n)
<1>1. b \in Blocks \ Reserved /\ \A g \in Files, m \in BlockNumbers : Owned(s, g, m) = b => g = f /\ m = n
  BY DEF Tree
<1>2. \A g \in Files, m \in BlockNumbers : Owned(t, g, m) # 0 =>
        /\ Owned(t, g, m) \in Blocks \ Reserved /\ Owned(t, g, m) \notin Bitmap(t)
        /\ m >= 0 => m < NumBlocks(Struct(t, g).f_size)
  BY <1>1 DEF Tree
<1>3. \A g, h \in Files, m, k \in BlockNumbers :
        Owned(t, g, m) # 0 /\ Owned(t, g, m) = Owned(t, h, k) => g = h /\ m = k
  BY DEF Tree
<1>4. \A x \in Blocks \ Reserved :
        x \notin Bitmap(t) => \E g \in Files, m \in BlockNumbers : Owned(t, g, m) = x
  <2> SUFFICES ASSUME NEW x \in Blocks \ Reserved, x \notin Bitmap(t)
               PROVE  \E g \in Files, m \in BlockNumbers : Owned(t, g, m) = x
    OBVIOUS
  <2>1. x # b /\ x \notin Bitmap(s)
    OBVIOUS
  <2>2. PICK g \in Files, m \in BlockNumbers : Owned(s, g, m) = x
    BY <2>1 DEF Tree
  <2> QED BY <2>1, <2>2
<1>5. Bitmap(t) \cap Reserved = {}
  BY <1>1 DEF Tree
<1> QED BY <1>2, <1>3, <1>4, <1>5 DEF Tree

LEMMA TreeStays ==
  ASSUME NEW s, NEW t, Tree(s), Bitmap(t) = Bitmap(s),
         \A g \in Files, m \in BlockNumbers : Owned(t, g, m) = Owned(s, g, m),
         \A g \in Files, m \in BlockNumbers :
           m >= 0 /\ Owned(t, g, m) # 0 => m < NumBlocks(Struct(t, g).f_size)
  PROVE  Tree(t)
<1> QED BY DEF Tree

\* What a request for f leaves alone of the other files
Elsewhere(s, t, f) ==
  /\ t.disk = s.disk
  /\ \A g \in Files \ {f} :
       /\ Struct(t, g) = Struct(s, g) /\ (DirOnDisk(s, g) => DirOnDisk(t, g))
       /\ \A n \in BlockNumbers :
            /\ Owned(t, g, n) = Owned(s, g, n)
            /\ Owned(s, g, n) # 0 =>
                 /\ ViewOf(t, Owned(s, g, n)) = ViewOf(s, Owned(s, g, n))
                 /\ Owned(s, g, n) \in t.dirty => Owned(s, g, n) \in s.dirty

\* f has got blocks, and lost none.
Grown(s, t, f) ==
  /\ Struct(t, f).f_size = Struct(s, f).f_size
  /\ \A n \in BlockNumbers : Owned(s, f, n) # 0 =>
       /\ Owned(t, f, n) = Owned(s, f, n)
       /\ n >= 0 => ViewOf(t, Owned(s, f, n)) = ViewOf(s, Owned(s, f, n))

LEMMA Transitive ==
  ASSUME NEW s, NEW t, NEW u, NEW f
  PROVE  /\ Elsewhere(s, t, f) /\ Elsewhere(t, u, f) => Elsewhere(s, u, f)
         /\ Grown(s, t, f) /\ Grown(t, u, f) => Grown(s, u, f)
<1>1. ASSUME Elsewhere(s, t, f), Elsewhere(t, u, f) PROVE Elsewhere(s, u, f)
  <2>1. u.disk = s.disk
    BY <1>1 DEF Elsewhere
  <2>2. ASSUME NEW g \in Files \ {f}
        PROVE  /\ Struct(u, g) = Struct(s, g) /\ (DirOnDisk(s, g) => DirOnDisk(u, g))
               /\ \A n \in BlockNumbers :
                    /\ Owned(u, g, n) = Owned(s, g, n)
                    /\ Owned(s, g, n) # 0 =>
                         /\ ViewOf(u, Owned(s, g, n)) = ViewOf(s, Owned(s, g, n))
                         /\ Owned(s, g, n) \in u.dirty => Owned(s, g, n) \in s.dirty
    BY <1>1, <2>2 DEF Elsewhere
  <2> QED BY <2>1, <2>2 DEF Elsewhere
<1>2. ASSUME Grown(s, t, f), Grown(t, u, f) PROVE Grown(s, u, f)
  BY <1>2 DEF Grown
<1> QED BY <1>1, <1>2

Inds(s) ==
  \A f \in Files : Struct(s, f).f_indirect # 0 =>
    /\ Struct(s, f).f_indirect \in Blocks \ Reserved
    /\ \A g \in Files : Struct(s, g).f_indirect = Struct(s, f).f_indirect => g = f

LEMMA TreeInds ==
  ASSUME NEW s, Tree(s)
  PROVE  Inds(s)
<1>1. -1 \in BlockNumbers
  BY LayoutAssumption DEF BlockNumbers, NINDIRECT
<1>2. \A f \in Files : Owned(s, f, -1) = Struct(s, f).f_indirect
  BY DEF Owned
<1> QED BY <1>1, <1>2 DEF Tree, Inds

LEMMA OwnedSame ==
  ASSUME NEW s, NEW t, NEW f, Struct(t, f) = Struct(s, f),
         Struct(s, f).f_indirect # 0 =>
           ViewOf(t, Struct(s, f).f_indirect) = ViewOf(s, Struct(s, f).f_indirect)
  PROVE  \A n \in BlockNumbers : Owned(t, f, n) = Owned(s, f, n)
<1> QED BY DEF Owned

\* The places of a file, and those whose slot can be read
Places == 0 .. NDIRECT + NINDIRECT - 1
Walked(s, f, n) ==
  n < NDIRECT \/ (Struct(s, f).f_indirect # 0 /\ s.cache[Struct(s, f).f_indirect] # NULL)

LEMMA PlacesAre ==
  /\ \A n \in Places : n \in Nat /\ n \in BlockNumbers /\ n # -1
  /\ \A n \in Places : ~(n < NDIRECT) => n - NDIRECT \in Words /\ n - NDIRECT \in Nat
  /\ \A n \in Places : n < NDIRECT => n \in 0 .. NDIRECT - 1
  /\ \A n \in BlockNumbers : n >= 0 => n \in Places
  /\ \A n \in BlockNumbers : n = -1 \/ n \in Places
  /\ -1 \in BlockNumbers /\ NDIRECT \in Nat
<1> QED BY LayoutAssumption DEF Places, BlockNumbers, NINDIRECT, Words

LEMMA SlotIsOwned ==
  ASSUME NEW s, NEW f, NEW n \in Places, Walked(s, f, n)
  PROVE  Slot(s, f, n) = Owned(s, f, n)
<1> QED BY PlacesAre DEF Slot, Owned, Walked, ViewOf

SlotChanged(s, t, f, n, b) ==
  /\ Typed(t) /\ t.disk = s.disk /\ t.panic = s.panic /\ t.r = s.r /\ Bitmap(t) = Bitmap(s)
  /\ Owned(t, f, n) = b
  /\ \A g \in Files, m \in BlockNumbers : ~(g = f /\ m = n) => Owned(t, g, m) = Owned(s, g, m)
  /\ \A g \in Files : /\ Struct(t, g).f_size = Struct(s, g).f_size
                      /\ Struct(t, g).f_indirect = Struct(s, g).f_indirect
  /\ \A g \in Files \ {f} : Struct(t, g) = Struct(s, g) /\ (DirOnDisk(s, g) => DirOnDisk(t, g))
  /\ \A x \in t.dirty : x \in s.dirty \/ x = DirBlock \/ x = Struct(s, f).f_indirect
  /\ t.dirty # {}
  /\ \A x \in Blocks : /\ x # DirBlock /\ x # Struct(s, f).f_indirect => ViewOf(t, x) = ViewOf(s, x)
                       /\ s.cache[x] # NULL => t.cache[x] # NULL

LEMMA SetSlotTypes ==
  ASSUME NEW s, Typed(s), Inds(s), NEW f \in Files, NEW n \in Places, Walked(s, f, n),
         NEW b \in 0 .. NBLOCKS, NEW t, t = SetSlot(s, f, n, b)
  PROVE  SlotChanged(s, t, f, n, b)
<1> DEFINE ind == Struct(s, f).f_indirect
<1>1. DirBlock \in Blocks /\ BitmapBlock \in Blocks \ {DirBlock} /\ DirBlock \in Reserved
      /\ BitmapBlock \in Reserved /\ 0 \in Reserved /\ SuperBlock \in Reserved
  BY Numbers
<1>2. CASE n < NDIRECT
  <2> DEFINE file == [Struct(s, f) EXCEPT !.f_direct[n] = b]
  <2>1. Struct(s, f) \in File /\ n \in 0 .. NDIRECT - 1
    BY <1>2, Structs, PlacesAre
  <2>2. /\ file \in File /\ file.f_size = Struct(s, f).f_size /\ file.f_indirect = ind
        /\ file.f_direct[n] = b /\ \A m \in 0 .. NDIRECT - 1 : m # n => file.f_direct[m] = Struct(s, f).f_direct[m]
    BY <2>1 DEF File
  <2>3. file.f_size <= MaxSize /\ t = SetStruct(s, f, file)
    BY <1>2, <2>2, Structs DEF SetSlot
  <2> HIDE DEF file
  <2>4. StructSet(s, t, f, file)
    BY <2>2, <2>3, SetStructTypes
  <2>5. \A g \in Files : Struct(s, g).f_indirect # 0 =>
          ViewOf(t, Struct(s, g).f_indirect) = ViewOf(s, Struct(s, g).f_indirect)
    BY <1>1, <2>4 DEF Inds, StructSet
  <2>6. \A g \in Files \ {f}, m \in BlockNumbers : Owned(t, g, m) = Owned(s, g, m)
    BY <2>4, <2>5, OwnedSame DEF StructSet
  <2>7. Struct(t, f) = file
    BY <2>4 DEF StructSet
  <2>8. ASSUME NEW m \in BlockNumbers, m # n PROVE Owned(t, f, m) = Owned(s, f, m)
    <3>1. CASE m = -1 BY <2>2, <2>7, <3>1 DEF Owned
    <3>2. CASE m \in Places /\ m < NDIRECT
      <4>1. m \in 0 .. NDIRECT - 1 /\ m # -1
        BY <3>2, PlacesAre
      <4> QED BY <2>2, <2>7, <2>8, <3>2, <4>1 DEF Owned
    <3>3. CASE m \in Places /\ ~(m < NDIRECT)
      BY <2>2, <2>5, <2>7, <3>3, PlacesAre DEF Owned
    <3> QED BY <3>1, <3>2, <3>3, PlacesAre
  <2>9. Owned(t, f, n) = b
    BY <1>2, <2>2, <2>7, PlacesAre DEF Owned
  <2>10. Bitmap(t) = Bitmap(s)
    BY <1>1, <2>4 DEF StructSet, Bitmap
  <2>11. \A x \in Blocks : /\ x # DirBlock /\ x # ind => ViewOf(t, x) = ViewOf(s, x)
                           /\ s.cache[x] # NULL => t.cache[x] # NULL
    BY <2>4 DEF StructSet, Typed
  <2>12. \A g \in Files : /\ Struct(t, g).f_size = Struct(s, g).f_size
                          /\ Struct(t, g).f_indirect = Struct(s, g).f_indirect
    BY <2>2, <2>4 DEF StructSet
  <2>13. (\A x \in t.dirty : x \in s.dirty \/ x = DirBlock \/ x = ind) /\ t.dirty # {}
    BY <2>4 DEF StructSet
  <2> QED BY <2>4, <2>6, <2>8, <2>9, <2>10, <2>11, <2>12, <2>13 DEF StructSet, SlotChanged
<1>3. CASE ~(n < NDIRECT)
  <2> DEFINE c == [s.cache[ind] EXCEPT ![n - NDIRECT] = b]
  <2>1. ind # 0 /\ s.cache[ind] # NULL /\ ind \in Blocks \ Reserved /\ n - NDIRECT \in Words
    BY <1>3, PlacesAre DEF Walked, Inds
  <2>2. s.cache[ind] \in [Words -> Nat] /\ ViewOf(s, ind) = s.cache[ind] /\ b \in Nat
    BY <2>1, ViewTypes, LayoutAssumption DEF ViewOf
  <2>3. /\ c \in Content(ind) /\ c[n - NDIRECT] = b
        /\ \A w \in Words : w # n - NDIRECT => c[w] = s.cache[ind][w]
    <3>1. Content(ind) = [Words -> Nat]
      BY <2>1, Contents, Numbers
    <3> QED BY <2>1, <2>2, <3>1
  <2>4. t = Modify(s, ind, c)
    BY <1>3 DEF SetSlot
  <2> HIDE DEF c
  <2>5. Modified(s, t, ind, c)
    BY <1>1, <2>1, <2>3, <2>4, ModifyTypes
  <2>6. \A g \in Files : Struct(t, g) = Struct(s, g)
    BY <1>1, <2>1, <2>5 DEF Modified, Struct
  <2>7. \A g \in Files \ {f} : Struct(s, g).f_indirect # 0 =>
          ViewOf(t, Struct(s, g).f_indirect) = ViewOf(s, Struct(s, g).f_indirect)
    BY <2>1, <2>5 DEF Inds, Modified
  <2>8. \A g \in Files \ {f}, m \in BlockNumbers : Owned(t, g, m) = Owned(s, g, m)
    BY <2>6, <2>7, OwnedSame
  <2>9. ASSUME NEW m \in BlockNumbers, m # n PROVE Owned(t, f, m) = Owned(s, f, m)
    <3>1. CASE m = -1 \/ m < NDIRECT BY <2>6, <3>1 DEF Owned
    <3>2. CASE m \in Places /\ ~(m < NDIRECT)
      <4>1. m - NDIRECT \in Words /\ m - NDIRECT # n - NDIRECT /\ m # -1
        BY <2>9, <3>2, PlacesAre DEF Places
      <4>2. ViewOf(t, ind)[m - NDIRECT] = ViewOf(s, ind)[m - NDIRECT]
        BY <2>2, <2>3, <2>5, <4>1 DEF Modified
      <4> QED BY <2>1, <2>6, <3>2, <4>1, <4>2 DEF Owned
    <3> QED BY <3>1, <3>2, PlacesAre
  <2>10. Owned(t, f, n) = b
    BY <1>3, <2>1, <2>3, <2>5, <2>6, PlacesAre DEF Owned, Modified
  <2>11. Bitmap(t) = Bitmap(s)
    BY <1>1, <2>1, <2>5 DEF Modified, Bitmap
  <2>12. \A x \in Blocks : /\ x # DirBlock /\ x # ind => ViewOf(t, x) = ViewOf(s, x)
                           /\ s.cache[x] # NULL => t.cache[x] # NULL
    BY <2>1, <2>5 DEF Modified, Typed
  <2>13. (\A x \in t.dirty : x \in s.dirty \/ x = DirBlock \/ x = ind) /\ t.dirty # {}
    BY <2>5 DEF Modified
  <2>14. \A g \in Files : DirOnDisk(s, g) => DirOnDisk(t, g)
    BY <2>5, <2>6, DirStays DEF Modified
  <2> QED BY <2>5, <2>6, <2>8, <2>9, <2>10, <2>11, <2>12, <2>13, <2>14 DEF Modified, SlotChanged
<1> QED BY <1>2, <1>3

\* Steps that change nothing but what is in the cache, dirty or under way
SameBlocks(s, t) ==
  /\ t.disk = s.disk /\ \A x \in Blocks : ViewOf(t, x) = ViewOf(s, x)
  /\ t.cache[DirBlock] = s.cache[DirBlock] /\ Bitmap(t) = Bitmap(s)
  /\ \A x \in t.dirty : x \in s.dirty
  /\ \A f \in Files : DirOnDisk(s, f) => DirOnDisk(t, f)

LEMMA SameTree ==
  ASSUME NEW s, NEW t, Typed(s), Tree(s), SameBlocks(s, t)
  PROVE  /\ Tree(t) /\ \A g \in Files, m \in BlockNumbers : Owned(t, g, m) = Owned(s, g, m)
         /\ \A g \in Files : Struct(t, g) = Struct(s, g)
         /\ \A f \in Files : Elsewhere(s, t, f) /\ Grown(s, t, f)
<1>1. \A g \in Files : Struct(t, g) = Struct(s, g)
  BY DEF SameBlocks, Struct
<1>2. \A g \in Files : Struct(s, g).f_indirect # 0 =>
        ViewOf(t, Struct(s, g).f_indirect) = ViewOf(s, Struct(s, g).f_indirect)
  BY TreeInds DEF Inds, SameBlocks
<1>3. \A g \in Files, m \in BlockNumbers : Owned(t, g, m) = Owned(s, g, m)
  BY <1>1, <1>2, OwnedSame
<1>4. Tree(t)
  BY <1>1, <1>3, TreeStays DEF SameBlocks, Tree
<1>5. \A g \in Files, m \in BlockNumbers : Owned(s, g, m) # 0 =>
        ViewOf(t, Owned(s, g, m)) = ViewOf(s, Owned(s, g, m))
  BY DEF Tree, SameBlocks
<1>6. \A f \in Files : Elsewhere(s, t, f)
  BY <1>1, <1>3, <1>5 DEF Elsewhere, SameBlocks
<1>7. \A f \in Files : Grown(s, t, f)
  BY <1>1, <1>3, <1>5 DEF Grown
<1> QED BY <1>1, <1>3, <1>4, <1>6, <1>7

LEMMA TouchedSame ==
  ASSUME NEW s, NEW t, NEW b, NEW word, Typed(s), Touched(s, t, b, word)
  PROVE  SameBlocks(s, t)
<1>1. t.cache[DirBlock] = s.cache[DirBlock] /\ Bitmap(t) = Bitmap(s)
  BY Numbers DEF Touched, Typed, Bitmap
<1>2. \A f \in Files : DirOnDisk(s, f) => DirOnDisk(t, f)
  BY <1>1, DirStays DEF Touched, Struct
<1> QED BY <1>1, <1>2 DEF Touched, SameBlocks

\* A request may end in an error of its own.
LEMMA FailTypes ==
  ASSUME NEW s, Typed(s), NEW error \in Errors \cup {NULL}, NEW t, t = Fail(s, error)
  PROVE  Typed(t) /\ SameBlocks(s, t) /\ t.panic = s.panic /\ t.dirty = s.dirty /\ t.r = error
         /\ t.cache = s.cache
<1>1. s \in States
  BY DEF Typed
<1>2. /\ t \in States /\ t.disk = s.disk /\ t.cache = s.cache /\ t.dirty = s.dirty
      /\ t.writes = s.writes /\ t.panic = s.panic /\ t.r = error
  BY <1>1 DEF States, Fail
<1>3. \A f \in Files : DirOnDisk(s, f) => DirOnDisk(t, f)
  BY <1>2, DirStays DEF Struct
<1> QED BY <1>2, <1>3, StopTypes DEF SameBlocks, Bitmap

\* How a request for f goes on
Outcome(s, t, f) == Good(t) /\ (t.panic # Full => Elsewhere(s, t, f) /\ Grown(s, t, f))

LEMMA NotFull == NULL # Full /\ NotAtStart # Full /\ NULL # NotAtStart /\ \A e \in Errors : e # NULL
<1> QED BY NullAssumption DEF Full, NotAtStart, Panics, Errors

LEMMA OutcomeSame ==
  ASSUME NEW s, NEW t, NEW f \in Files, Typed(s), Tree(s), Typed(t), SameBlocks(s, t),
         t.panic \in {NULL, NotAtStart}
  PROVE  Outcome(s, t, f)
<1> QED BY SameTree, NotFull DEF Outcome, Good

\* A block for a hole
LEMMA GiveSlot ==
  ASSUME NEW s, Typed(s), Tree(s), ~Stopped(s), NEW f \in Files, NEW n \in Places, Walked(s, f, n),
         Owned(s, f, n) = 0, n < NumBlocks(Struct(s, f).f_size),
         NEW t, t = SetSlot(alloc_block(s), f, n, NextFree(s))
  PROVE  /\ ~Stopped(t) /\ Walked(t, f, n) /\ Typed(t)
         /\ Bitmap(s) # {} => Outcome(s, t, f) /\ Owned(t, f, n) \in Blocks \ Reserved
         /\ Bitmap(s) = {} => Bitmap(t) = {} /\ t.dirty # {} /\ Owned(t, f, n) = NoDisk
<1> DEFINE b == NextFree(s)
           a == alloc_block(s)
           ind == Struct(s, f).f_indirect
<1>1. Bitmap(s) \cap Reserved = {} /\ Inds(s) /\ NoDisk \in 0 .. NBLOCKS
  BY TreeInds, LayoutAssumption DEF Tree, NoDisk
<1>2. CASE Bitmap(s) = {}
  <2>1. a = s /\ b = NoDisk
    BY <1>2, AllocFails
  <2>2. SlotChanged(s, t, f, n, NoDisk)
    BY <1>1, <2>1, SetSlotTypes
  <2>3. Walked(t, f, n)
    BY <1>1, <2>2 DEF Walked, SlotChanged, Inds
  <2> QED BY <1>2, <2>2, <2>3 DEF SlotChanged, Stopped
<1>3. CASE Bitmap(s) # {}
  <2>1. Allocated(s, a, b)
    BY <1>1, <1>3, AllocTypes
  <2> HIDE DEF a, b
  <2>2. b \in Blocks \ Reserved /\ b \in 0 .. NBLOCKS /\ \A g \in Files : Struct(a, g) = Struct(s, g)
    BY <2>1, Numbers DEF Allocated
  <2>3. Inds(a) /\ Walked(a, f, n)
    <3>1. Inds(a)
      BY <1>1, <2>2 DEF Inds
    <3>2. ind # 0 => ind \in Blocks \ {BitmapBlock}
      BY <1>1, Numbers DEF Inds
    <3> QED BY <2>1, <2>2, <3>1, <3>2 DEF Allocated, Walked
  <2>4. SlotChanged(a, t, f, n, b)
    <3>1. t = SetSlot(a, f, n, b) /\ Typed(a)
      BY <2>1 DEF a, b, Allocated
    <3> QED BY <2>2, <2>3, <3>1, SetSlotTypes
  <2>5. \A g \in Files, m \in BlockNumbers : Owned(a, g, m) = Owned(s, g, m)
    <3>1. \A g \in Files : Struct(s, g).f_indirect # 0 =>
            ViewOf(a, Struct(s, g).f_indirect) = ViewOf(s, Struct(s, g).f_indirect)
      BY <1>1, <2>1, Numbers DEF Inds, Allocated
    <3> QED BY <2>2, <3>1, OwnedSame
  <2>6. \A g \in Files, m \in BlockNumbers : ~(g = f /\ m = n) => Owned(t, g, m) = Owned(s, g, m)
    BY <2>4, <2>5 DEF SlotChanged
  <2>7. /\ Owned(t, f, n) = b /\ Bitmap(t) = Bitmap(s) \ {b} /\ b \in Bitmap(s)
        /\ \A g \in Files : Struct(t, g).f_size = Struct(s, g).f_size
    BY <2>1, <2>2, <2>4 DEF SlotChanged, Allocated
  <2>8. Tree(t)
    <3>1. n \in BlockNumbers
      BY PlacesAre
    <3> QED BY <2>2, <2>6, <2>7, <3>1, TreeGrows
  <2>9. ~Stopped(t) /\ Typed(t) /\ t.panic = NULL
    BY <2>1, <2>4 DEF SlotChanged, Allocated, Stopped
  <2>10. \A x \in Blocks \ Reserved : x # ind => ViewOf(t, x) = ViewOf(s, x) /\ (x \in t.dirty => x \in s.dirty)
    <3>1. BitmapBlock \in Reserved /\ DirBlock \in Reserved
      BY Numbers
    <3> QED BY <2>1, <2>2, <2>4, <3>1 DEF SlotChanged, Allocated
  <2>11. \A g \in Files, m \in BlockNumbers : Owned(s, g, m) # 0 =>
           Owned(s, g, m) \in Blocks \ Reserved /\ (g # f \/ m # -1 => Owned(s, g, m) # ind)
    <3>1. -1 \in BlockNumbers /\ Owned(s, f, -1) = ind
      BY PlacesAre DEF Owned
    <3> QED BY <3>1 DEF Tree
  <2>12. \A g \in Files \ {f} : Struct(t, g) = Struct(s, g) /\ (DirOnDisk(s, g) => DirOnDisk(t, g))
    BY <2>1, <2>2, <2>4 DEF SlotChanged, Allocated
  <2>13. t.disk = s.disk
    BY <2>1, <2>4 DEF SlotChanged, Allocated
  <2>14. Elsewhere(s, t, f)
    BY <2>6, <2>10, <2>11, <2>12, <2>13 DEF Elsewhere
  <2>15. Grown(s, t, f)
    <3>1. \A m \in BlockNumbers : Owned(s, f, m) # 0 => m # n
      OBVIOUS
    <3>2. \A m \in BlockNumbers : m >= 0 => m # -1
      OBVIOUS
    <3> QED BY <2>6, <2>7, <2>10, <2>11, <3>1, <3>2 DEF Grown
  <2>16. Walked(t, f, n)
    <3>1. ind # 0 => ind \in Blocks
      BY <1>1 DEF Inds
    <3> QED BY <2>2, <2>3, <2>4, <3>1 DEF SlotChanged, Walked
  <2>17. Outcome(s, t, f)
    BY <2>8, <2>9, <2>14, <2>15, NotFull DEF Outcome, Good
  <2> QED BY <1>3, <2>2, <2>7, <2>9, <2>16, <2>17
<1> QED BY <1>2, <1>3

\* A block for f_indirect
LEMMA GiveIndirect ==
  ASSUME NEW s, Typed(s), Tree(s), ~Stopped(s), NEW f \in Files, Struct(s, f).f_indirect = 0,
         NEW t,
         t = Clear(SetStruct(alloc_block(s), f, [Struct(s, f) EXCEPT !.f_indirect = NextFree(s)]),
                   NextFree(s))
  PROVE  /\ Outcome(s, t, f) /\ t.r = NULL
         /\ ~Stopped(t) => Struct(t, f).f_indirect # 0 /\ t.cache[Struct(t, f).f_indirect] # NULL
<1> DEFINE b == NextFree(s)
           a == alloc_block(s)
           file == [Struct(s, f) EXCEPT !.f_indirect = b]
           m == SetStruct(a, f, file)
           k == Touch(m, b, 0)
           zeros == [w \in Words |-> 0]
<1>1. Bitmap(s) \cap Reserved = {} /\ Inds(s) /\ NoDisk \in 0 .. NBLOCKS
  BY TreeInds, LayoutAssumption DEF Tree, NoDisk
<1>2. b \in 0 .. NBLOCKS /\ Struct(s, f) \in File /\ Struct(s, f).f_size <= MaxSize
  BY <1>1, NextFreeIs, Numbers, Structs
<1>3. file \in File /\ file.f_indirect = b /\ file.f_size = Struct(s, f).f_size
      /\ file.f_direct = Struct(s, f).f_direct
  BY <1>2 DEF File
<1>4. -1 \in BlockNumbers
  BY PlacesAre
<1> HIDE DEF file
<1>5. CASE Bitmap(s) = {}
  <2>1. a = s /\ b = NoDisk
    BY <1>5, AllocFails
  <2>2. StructSet(s, m, f, file)
    BY <1>2, <1>3, <2>1, SetStructTypes
  <2> HIDE DEF m
  <2>3. ~Stopped(m)
    BY <2>2 DEF StructSet, Stopped
  <2>4. k = [m EXCEPT !.panic = Full]
    BY <2>1, <2>3, Numbers DEF Touch, Panic, Full
  <2>5. Typed(k) /\ k.panic = Full /\ k.dirty # {} /\ Bitmap(k) = {} /\ k.r = NULL
    <3>1. m \in States
      BY <2>2 DEF StructSet, Typed
    <3>2. /\ k \in States /\ k.disk = m.disk /\ k.cache = m.cache /\ k.dirty = m.dirty
          /\ k.writes = m.writes /\ k.panic = Full /\ k.r = NULL
      BY <2>3, <2>4, <3>1 DEF States, Panics, Full, Stopped
    <3>3. Bitmap(m) = Bitmap(s)
      BY <2>2, Numbers DEF StructSet, Bitmap
    <3> QED BY <1>5, <2>2, <3>2, <3>3, StopTypes DEF StructSet, Bitmap
  <2>6. t = k /\ Stopped(k)
    <3>1. Stopped(k)
      BY <2>5, NotFull DEF Stopped
    <3>2. t = Clear(m, b)
      BY DEF m, file
    <3> QED BY <3>1, <3>2 DEF Clear
  <2> QED BY <2>5, <2>6, NotFull DEF Outcome, Good
<1>6. CASE Bitmap(s) # {}
  <2>1. Allocated(s, a, b)
    BY <1>1, <1>6, AllocTypes
  <2> HIDE DEF a, b
  <2>2. b \in Blocks \ Reserved /\ b \in Blocks \ {0, SuperBlock} /\ b # DirBlock /\ b # BitmapBlock
        /\ \A g \in Files : Struct(a, g) = Struct(s, g)
    BY <2>1, Numbers DEF Allocated
  <2>3. StructSet(a, m, f, file)
    <3>1. Typed(a)
      BY <2>1 DEF Allocated
    <3> QED BY <1>2, <1>3, <3>1, SetStructTypes
  <2> HIDE DEF m
  <2>4. Typed(m) /\ ~Stopped(m) /\ b \notin Bitmap(m) /\ Bitmap(m) = Bitmap(s) \ {b}
    <3>1. Bitmap(m) = Bitmap(a)
      BY <2>3, Numbers DEF StructSet, Bitmap
    <3> QED BY <2>1, <2>3, <3>1 DEF StructSet, Allocated, Stopped
  <2>5. Touched(m, k, b, 0)
    BY <2>2, <2>4, TouchTypes
  <2>6. SameBlocks(m, k)
    BY <2>4, <2>5, TouchedSame
  <2> HIDE DEF k
  <2>7. t = Modify(k, b, zeros) /\ ~Stopped(k) /\ Typed(k)
    BY <2>5 DEF Touched, Stopped, Clear, zeros, k, m, a, b, file
  <2>8. zeros \in Content(b)
    BY <2>2, Contents, Numbers
  <2> HIDE DEF zeros
  <2>9. Modified(k, t, b, zeros)
    BY <2>2, <2>7, <2>8, ModifyTypes
  <2>10. \A g \in Files : Struct(t, g) = Struct(m, g)
    BY <2>2, <2>6, <2>9, Numbers DEF Modified, SameBlocks, Struct
  <2>11. Struct(t, f) = file /\ \A g \in Files \ {f} : Struct(t, g) = Struct(s, g)
    BY <2>2, <2>3, <2>10 DEF StructSet
  <2>12. \A x \in Blocks \ Reserved : x # b => ViewOf(t, x) = ViewOf(s, x) /\ (x \in t.dirty => x \in s.dirty)
    <3>1. BitmapBlock \in Reserved /\ DirBlock \in Reserved
      BY Numbers
    <3>2. ASSUME NEW x \in Blocks \ Reserved, x # b
          PROVE  ViewOf(t, x) = ViewOf(s, x) /\ (x \in t.dirty => x \in s.dirty)
      <4>1. ViewOf(t, x) = ViewOf(k, x) /\ (x \in t.dirty => x \in k.dirty)
        BY <2>9, <3>2 DEF Modified
      <4>2. ViewOf(k, x) = ViewOf(m, x) /\ (x \in k.dirty => x \in m.dirty)
        BY <2>6, <3>2 DEF SameBlocks
      <4>3. ViewOf(m, x) = ViewOf(a, x) /\ (x \in m.dirty => x \in a.dirty)
        BY <2>3, <3>1, <3>2 DEF StructSet
      <4>4. ViewOf(a, x) = ViewOf(s, x) /\ (x \in a.dirty => x \in s.dirty)
        BY <2>1, <3>1, <3>2 DEF Allocated
      <4> QED BY <4>1, <4>2, <4>3, <4>4
    <3> QED BY <3>2
  <2>13. \A g \in Files, n \in BlockNumbers : Owned(s, g, n) # 0 =>
           Owned(s, g, n) \in Blocks \ Reserved /\ Owned(s, g, n) # b
    BY <2>1 DEF Tree, Allocated
  <2>14. ASSUME NEW g \in Files \ {f}, NEW n \in BlockNumbers PROVE Owned(t, g, n) = Owned(s, g, n)
    <3>1. Struct(s, g).f_indirect = Owned(s, g, -1)
      BY DEF Owned
    <3>2. Struct(s, g).f_indirect # 0 =>
            ViewOf(t, Struct(s, g).f_indirect) = ViewOf(s, Struct(s, g).f_indirect)
      BY <1>4, <2>12, <2>13, <3>1
    <3> QED BY <2>11, <3>2, OwnedSame
  <2>15. b # 0 /\ Owned(t, f, -1) = b /\ Owned(s, f, -1) = 0
    BY <1>3, <2>2, <2>11, Numbers DEF Owned
  <2>16. ASSUME NEW n \in BlockNumbers, n # -1 PROVE Owned(t, f, n) = Owned(s, f, n)
    <3>1. n \in Places
      BY <2>16, PlacesAre
    <3>2. CASE n < NDIRECT
      BY <1>3, <2>11, <2>16, <3>2 DEF Owned
    <3>3. CASE ~(n < NDIRECT)
      <4>1. ViewOf(t, b) = zeros /\ zeros[n - NDIRECT] = 0
        BY <2>9, <3>1, <3>3, PlacesAre DEF Modified, zeros
      <4> QED BY <1>3, <2>11, <2>15, <2>16, <3>3, <4>1 DEF Owned
    <3> QED BY <3>2, <3>3
  <2>17. Bitmap(t) = Bitmap(s) \ {b} /\ b \in Bitmap(s)
    <3>1. Bitmap(t) = Bitmap(k)
      BY <2>2, <2>9, Numbers DEF Modified, Bitmap
    <3> QED BY <2>1, <2>4, <2>6, <3>1 DEF SameBlocks, Allocated
  <2>18. \A g \in Files : Struct(t, g).f_size = Struct(s, g).f_size
    BY <1>3, <2>11
  <2>19. Tree(t)
    BY <1>4, <2>2, <2>14, <2>15, <2>16, <2>17, <2>18, TreeGrows
  <2>20. Typed(t) /\ t.panic = NULL /\ t.r = NULL /\ t.disk = s.disk
    BY <2>1, <2>3, <2>5, <2>6, <2>7, <2>9 DEF Modified, Stopped, SameBlocks, StructSet, Allocated
  <2>21. \A g \in Files \ {f} : DirOnDisk(s, g) => DirOnDisk(t, g)
    <3>1. \A g \in Files \ {f} : DirOnDisk(s, g) => DirOnDisk(k, g)
      BY <2>1, <2>3, <2>6 DEF SameBlocks, StructSet, Allocated
    <3>2. \A g \in Files : Struct(t, g) = Struct(k, g)
      BY <2>2, <2>9, Numbers DEF Modified, Struct
    <3> QED BY <2>9, <3>1, <3>2, DirStays DEF Modified
  <2>22. Elsewhere(s, t, f)
    BY <2>11, <2>12, <2>13, <2>14, <2>20, <2>21 DEF Elsewhere
  <2>23. Grown(s, t, f)
    BY <2>12, <2>13, <2>15, <2>16, <2>18 DEF Grown
  <2>24. Struct(t, f).f_indirect # 0 /\ t.cache[Struct(t, f).f_indirect] # NULL
    <3>1. zeros # NULL
      BY <2>2, <2>8, Contents
    <3> QED BY <1>3, <2>9, <2>11, <2>15, <3>1 DEF Modified
  <2>25. Outcome(s, t, f)
    BY <2>19, <2>20, <2>22, <2>23, NotFull DEF Outcome, Good
  <2> QED BY <2>20, <2>24, <2>25
<1> QED BY <1>5, <1>6

\* file_block_walk, which reads a block in or gives one to f_indirect
LEMMA WalkAlloc ==
  ASSUME NEW s, Good(s), ~Stopped(s), NEW f \in Files, NEW n \in Nat,
         NEW t, t = file_block_walk(s, f, n, TRUE)
  PROVE  /\ Outcome(s, t, f) /\ (~Stopped(t) => n \in Places /\ Walked(t, f, n))
         /\ t.r # NULL => n \notin Places
<1> DEFINE ind == Struct(s, f).f_indirect
<1>1. Typed(s) /\ Tree(s) /\ s.panic = NULL /\ s.r = NULL
  BY NotFull DEF Good, Stopped
<1>2. ind # 0 => ind \in Blocks \ {0} /\ ind \notin Bitmap(s)
  <2>1. Owned(s, f, -1) = ind /\ -1 \in BlockNumbers
    BY PlacesAre DEF Owned
  <2> QED BY <1>1, <2>1, Numbers DEF Tree
<1>3. CASE n < NDIRECT
  <2>1. t = s
    BY <1>3 DEF file_block_walk
  <2>2. SameBlocks(s, s)
    BY DEF SameBlocks
  <2>3. Outcome(s, s, f)
    BY <1>1, <2>2, OutcomeSame
  <2>4. n \in Places
    BY <1>3, LayoutAssumption DEF Places, NINDIRECT
  <2> QED BY <1>1, <1>3, <2>1, <2>3, <2>4 DEF Walked
<1>4. CASE n >= NDIRECT + NINDIRECT
  <2>1. t = Fail(s, "E_INVAL")
    BY <1>4, LayoutAssumption DEF file_block_walk, NINDIRECT
  <2>2. "E_INVAL" \in Errors
    BY DEF Errors
  <2>3. "E_INVAL" \in Errors \cup {NULL}
    BY <2>2
  <2> DEFINE e == "E_INVAL"
  <2>4. t = Fail(s, e) /\ e \in Errors \cup {NULL} /\ e # NULL
    BY <2>1, <2>2, NotFull
  <2> HIDE DEF e
  <2>5. Typed(t) /\ SameBlocks(s, t) /\ t.panic = s.panic /\ t.r = e
    BY <1>1, <2>4, FailTypes
  <2>6. Outcome(s, t, f)
    BY <1>1, <2>5, OutcomeSame
  <2>7. n \notin Places
    BY <1>4, LayoutAssumption DEF Places, NINDIRECT
  <2> QED BY <2>4, <2>5, <2>6, <2>7 DEF Stopped
<1>5. CASE n >= NDIRECT /\ n < NDIRECT + NINDIRECT /\ ind # 0
  <2>1. t = Touch(s, ind, n - NDIRECT)
    BY <1>5, LayoutAssumption DEF file_block_walk, NINDIRECT
  <2>2. n - NDIRECT \in Nat /\ n \in Places
    BY <1>5, LayoutAssumption DEF Places, NINDIRECT
  <2>3. Touched(s, t, ind, n - NDIRECT)
    BY <1>1, <1>2, <1>5, <2>1, <2>2, TouchTypes
  <2>4. SameBlocks(s, t)
    BY <1>1, <2>3, TouchedSame
  <2>5. Outcome(s, t, f)
    BY <1>1, <2>3, <2>4, OutcomeSame DEF Touched
  <2>6. ~Stopped(t) => Walked(t, f, n)
    <3>1. Struct(t, f) = Struct(s, f)
      BY <2>4 DEF SameBlocks, Struct
    <3> QED BY <1>5, <2>3, <3>1 DEF Stopped, Walked, Touched
  <2> QED BY <2>2, <2>3, <2>5, <2>6 DEF Touched
<1>6. CASE n >= NDIRECT /\ n < NDIRECT + NINDIRECT /\ ind = 0
  <2>1. t = Clear(SetStruct(alloc_block(s), f, [Struct(s, f) EXCEPT !.f_indirect = NextFree(s)]),
                  NextFree(s))
    BY <1>6, LayoutAssumption DEF file_block_walk, NINDIRECT
  <2>2. n \in Places
    BY <1>6, LayoutAssumption DEF Places, NINDIRECT
  <2> QED BY <1>1, <1>6, <2>1, <2>2, GiveIndirect DEF Walked
<1>7. n < NDIRECT \/ n >= NDIRECT + NINDIRECT \/ (n >= NDIRECT /\ n < NDIRECT + NINDIRECT)
  BY LayoutAssumption DEF NINDIRECT
<1> QED BY <1>3, <1>4, <1>5, <1>6, <1>7

\* Reach, which gives a block to a hole and reads a block in
LEMMA ReachTypes ==
  ASSUME NEW s, Good(s), NEW f \in Files, NEW n \in Nat, NEW word \in Nat,
         n < NumBlocks(Struct(s, f).f_size), NEW t, t = Reach(s, f, n, word)
  PROVE  /\ Stopped(s) => t = s
         /\ ~Stopped(s) => Outcome(s, t, f) /\ (t.r # NULL => n \notin Places)
         /\ ~Stopped(t) => /\ n \in Places /\ Walked(t, f, n) /\ Owned(t, f, n) \in Blocks \ Reserved
                           /\ Slot(t, f, n) = Owned(t, f, n) /\ t.cache[Owned(t, f, n)] # NULL
<1> DEFINE u == file_block_walk(s, f, n, TRUE)
           v == file_get_block(s, f, n)
<1>1. CASE Stopped(s)
  <2>1. u = s
    BY <1>1 DEF file_block_walk
  <2>2. v = s
    BY <1>1, <2>1 DEF file_get_block
  <2> QED BY <1>1, <2>2 DEF Reach
<1>2. CASE ~Stopped(s)
  <2>1. /\ Outcome(s, u, f) /\ (~Stopped(u) => n \in Places /\ Walked(u, f, n))
        /\ u.r # NULL => n \notin Places
    BY <1>2, WalkAlloc
  <2> HIDE DEF u
  <2>2. CASE Stopped(u)
    <3>1. v = u
      BY <2>2 DEF file_get_block, u
    <3> QED BY <1>2, <2>1, <2>2, <3>1 DEF Reach
  <2>3. CASE ~Stopped(u)
    <3>1. /\ n \in Places /\ Walked(u, f, n) /\ Typed(u) /\ Tree(u) /\ u.panic = NULL /\ u.r = NULL
          /\ Slot(u, f, n) = Owned(u, f, n) /\ Elsewhere(s, u, f) /\ Grown(s, u, f)
      BY <2>1, <2>3, SlotIsOwned, NotFull DEF Outcome, Good, Stopped
    <3>2. n < NumBlocks(Struct(u, f).f_size) /\ n \in BlockNumbers
      BY <3>1, PlacesAre DEF Grown
    <3>3. CASE Bitmap(u) = {} /\ Owned(u, f, n) = 0
      <4>1. v = SetSlot(alloc_block(u), f, n, NextFree(u))
        BY <2>3, <3>1, <3>3 DEF file_get_block, u
      <4>2. ~Stopped(v) /\ Walked(v, f, n) /\ Typed(v) /\ Bitmap(v) = {} /\ v.dirty # {} /\ Owned(v, f, n) = NoDisk
        BY <2>3, <3>1, <3>2, <3>3, <4>1, GiveSlot
      <4> HIDE DEF v
      <4>3. Slot(v, f, n) = NoDisk
        BY <3>1, <4>2, SlotIsOwned
      <4>4. t = [v EXCEPT !.panic = Full]
        BY <4>2, <4>3, Numbers DEF Reach, Touch, Panic, Full, v
      <4>5. v \in States
        BY <4>2 DEF Typed
      <4>6. /\ t \in States /\ t.disk = v.disk /\ t.cache = v.cache /\ t.dirty = v.dirty
            /\ t.writes = v.writes /\ t.panic = Full /\ t.r = NULL
        BY <4>2, <4>4, <4>5 DEF States, Panics, Full, Stopped
      <4>7. Typed(t) /\ Stopped(t) /\ Bitmap(t) = {}
        BY <4>2, <4>6, StopTypes, NotFull DEF Stopped, Bitmap
      <4> QED BY <1>2, <4>2, <4>6, <4>7, NotFull DEF Outcome, Good
    <3>4. CASE Bitmap(u) # {} \/ Owned(u, f, n) # 0
      <4>1. /\ ~Stopped(v) /\ Walked(v, f, n) /\ Outcome(u, v, f)
            /\ Owned(v, f, n) \in Blocks \ Reserved
        <5>1. CASE Owned(u, f, n) = 0
          <6>1. v = SetSlot(alloc_block(u), f, n, NextFree(u))
            BY <2>3, <3>1, <5>1 DEF file_get_block, u
          <6> QED BY <2>3, <3>1, <3>2, <3>4, <5>1, <6>1, GiveSlot
        <5>2. CASE Owned(u, f, n) # 0
          <6>1. v = u
            BY <2>3, <3>1, <5>2 DEF file_get_block, u
          <6>2. SameBlocks(u, u) /\ Owned(u, f, n) \in Blocks \ Reserved
            BY <3>1, <3>2, <5>2 DEF SameBlocks, Tree
          <6> QED BY <2>3, <3>1, <6>1, <6>2, OutcomeSame
        <5> QED BY <5>1, <5>2
      <4> HIDE DEF v
      <4> DEFINE b == Owned(v, f, n)
      <4>2. Typed(v) /\ Tree(v) /\ v.panic = NULL /\ v.r = NULL /\ Slot(v, f, n) = b
            /\ Elsewhere(u, v, f) /\ Grown(u, v, f)
        BY <3>1, <4>1, SlotIsOwned, NotFull DEF Outcome, Good, Stopped
      <4>3. b \in Blocks \ Reserved /\ b \in Blocks \ {0} /\ b \notin Bitmap(v)
        BY <3>2, <4>1, <4>2, Numbers DEF Tree
      <4>4. t = Touch(v, b, word)
        BY <4>1, <4>2 DEF Reach, v
      <4>5. Touched(v, t, b, word)
        BY <4>1, <4>2, <4>3, <4>4, TouchTypes
      <4>6. SameBlocks(v, t)
        BY <4>2, <4>5, TouchedSame
      <4>7. Outcome(v, t, f)
        BY <4>2, <4>5, <4>6, OutcomeSame DEF Touched
      <4>8. Elsewhere(s, u, f) /\ Elsewhere(u, v, f) /\ (t.panic # Full => Elsewhere(v, t, f))
            /\ Grown(s, u, f) /\ Grown(u, v, f) /\ (t.panic # Full => Grown(v, t, f))
        BY <3>1, <4>2, <4>7 DEF Outcome
      <4>9. Elsewhere(s, v, f) /\ Grown(s, v, f)
        BY <4>8, Transitive
      <4>10. t.panic # Full => Elsewhere(s, t, f) /\ Grown(s, t, f)
        BY <4>8, <4>9, Transitive
      <4>11. Outcome(s, t, f)
        BY <4>7, <4>10 DEF Outcome
      <4>12. Owned(t, f, n) = b /\ Struct(t, f) = Struct(v, f)
        BY <3>2, <4>2, <4>6, SameTree
      <4>13. Walked(t, f, n)
        <5>1. \A x \in Blocks : v.cache[x] # NULL => t.cache[x] # NULL
          BY <4>5 DEF Touched, Typed
        <5>2. Struct(v, f).f_indirect # 0 => Struct(v, f).f_indirect \in Blocks
          BY <4>2, TreeInds DEF Inds
        <5> QED BY <4>1, <4>12, <5>1, <5>2 DEF Walked
      <4>14. ~Stopped(t) => t.cache[b] # NULL
        BY <4>5 DEF Touched, Stopped
      <4>15. Slot(t, f, n) = Owned(t, f, n)
        BY <3>1, <4>13, SlotIsOwned
      <4>16. t.r = NULL
        BY <4>5 DEF Touched
      <4> HIDE DEF b
      <4> QED BY <1>2, <3>1, <4>3, <4>16, <4>11, <4>12, <4>13, <4>14, <4>15
    <3> QED BY <3>3, <3>4
  <2> QED BY <2>2, <2>3
<1> QED BY <1>1, <1>2

-----------------------------------------------------------------------------
(***************************************************************************)
(* Loops, which are folds over the numbers of blocks                       *)
(***************************************************************************)

LEMMA UpTo ==
  ASSUME NEW n \in Nat, NEW Q, 0 \in Q, \A k \in 1 .. n : k - 1 \in Q => k \in Q
  PROVE  \A k \in 0 .. n : k \in Q
<1> DEFINE Out == {k \in 0 .. n : k \notin Q}
<1>1. CASE Out = {}
  BY <1>1
<1>2. CASE Out # {}
  <2>1. Out \in SUBSET Nat
    OBVIOUS
  <2> DEFINE k == Min(Out)
  <2>2. k \in Out /\ \A x \in Out : k <= x
    BY <1>2, <2>1, LeastOf
  <2> HIDE DEF k
  <2>3. k \in 1 .. n /\ k \notin Q
    BY <2>2
  <2>4. k - 1 \in 0 .. n /\ k - 1 \notin Out
    BY <2>1, <2>2, <2>3
  <2>5. k - 1 \in Q
    BY <2>4
  <2> QED BY <2>3, <2>5
<1> QED BY <1>1, <1>2

LEMMA MostOf ==
  ASSUME NEW n \in Nat, NEW S \in SUBSET (1 .. n), S # {}
  PROVE  Max(S) \in S /\ \A x \in S : Max(S) >= x
<1> DEFINE R == {y \in 0 .. n : n - y \in S}
<1>1. R \in SUBSET Nat /\ R # {}
  <2>1. PICK x \in S : TRUE
    OBVIOUS
  <2>2. n - x \in 0 .. n /\ n - (n - x) = x
    BY <2>1
  <2>3. n - x \in R
    BY <2>1, <2>2
  <2>4. R \subseteq Nat
    OBVIOUS
  <2> HIDE DEF R
  <2> QED BY <2>3, <2>4
<1> DEFINE y == Min(R)
<1>2. y \in R /\ \A z \in R : y <= z
  BY <1>1, LeastOf
<1> HIDE DEF y
<1>3. \A x \in S : n - x \in R
  OBVIOUS
<1>4. n - y \in S /\ \A x \in S : n - y >= x
  BY <1>2, <1>3
<1> QED BY <1>4 DEF Max

\* f folds F over the numbers in S, the largest one last.
FoldsTo(f, D, base, F) ==
  \A S \in SUBSET D : f[S] = IF S = {} THEN base ELSE F[<<f[S \ {Max(S)}], Max(S)>>]

LEMMA FoldExists ==
  ASSUME NEW V, NEW base \in V, NEW n \in Nat, NEW F \in [V \X (1 .. n) -> V]
  PROVE  \E g \in [SUBSET (1 .. n) -> V] : FoldsTo(g, 1 .. n, base, F)
<1> DEFINE Q == {m \in 0 .. n : \E g \in [SUBSET (1 .. m) -> V] : FoldsTo(g, 1 .. m, base, F)}
<1>1. 0 \in Q
  <2> DEFINE g == [S \in SUBSET (1 .. 0) |-> base]
  <2>1. g \in [SUBSET (1 .. 0) -> V] /\ \A S \in SUBSET (1 .. 0) : S = {} /\ g[S] = base
    OBVIOUS
  <2>2. FoldsTo(g, 1 .. 0, base, F)
    BY <2>1 DEF FoldsTo
  <2> QED BY <2>1, <2>2
<1>2. ASSUME NEW k \in 1 .. n, k - 1 \in Q PROVE k \in Q
  <2>1. PICK g \in [SUBSET (1 .. (k - 1)) -> V] : FoldsTo(g, 1 .. (k - 1), base, F)
    BY <1>2
  <2> DEFINE h == [S \in SUBSET (1 .. k) |-> IF k \in S THEN F[<<g[S \ {k}], k>>] ELSE g[S]]
  <2>2. \A S \in SUBSET (1 .. k) : /\ S \ {k} \in SUBSET (1 .. (k - 1))
                                   /\ k \notin S => S \in SUBSET (1 .. (k - 1))
    OBVIOUS
  <2>3. h \in [SUBSET (1 .. k) -> V]
    BY <2>1, <2>2
  <2>4. ASSUME NEW S \in SUBSET (1 .. k)
        PROVE  h[S] = IF S = {} THEN base ELSE F[<<h[S \ {Max(S)}], Max(S)>>]
    <3>1. CASE S = {}
      <4>1. h[S] = g[S] /\ S \in SUBSET (1 .. (k - 1))
        BY <3>1
      <4> QED BY <2>1, <3>1, <4>1 DEF FoldsTo
    <3>2. CASE k \in S
      <4>a. k \in Nat /\ S # {}
        BY <3>2
      <4>1. Max(S) \in S /\ Max(S) >= k /\ Max(S) \in 1 .. k
        BY <3>2, <4>a, MostOf
      <4>2. Max(S) = k
        BY <4>1
      <4>3. S \ {k} \in SUBSET (1 .. k) /\ k \notin S \ {k}
        OBVIOUS
      <4>4. h[S \ {k}] = g[S \ {k}] /\ h[S] = F[<<g[S \ {k}], k>>]
        BY <3>2, <4>3
      <4> QED BY <3>2, <4>2, <4>4
    <3>3. CASE k \notin S /\ S # {}
      <4> DEFINE m == Max(S)
      <4>1. S \in SUBSET (1 .. (k - 1)) /\ S \ {m} \in SUBSET (1 .. (k - 1)) /\ k \notin S \ {m}
            /\ S \ {m} \in SUBSET (1 .. k)
        BY <2>2, <3>3
      <4> HIDE DEF m
      <4>2. h[S] = g[S] /\ h[S \ {m}] = g[S \ {m}]
        BY <3>3, <4>1
      <4>3. g[S] = F[<<g[S \ {m}], m>>]
        BY <2>1, <3>3, <4>1 DEF FoldsTo, m
      <4> QED BY <3>3, <4>2, <4>3 DEF m
    <3> QED BY <3>1, <3>2, <3>3
  <2> HIDE DEF h
  <2>5. FoldsTo(h, 1 .. k, base, F)
    BY <2>4 DEF FoldsTo
  <2> QED BY <2>3, <2>5
<1>3. \A k \in 0 .. n : k \in Q
  <2> HIDE DEF Q
  <2> QED BY <1>1, <1>2, UpTo
<1>4. n \in 0 .. n
  OBVIOUS
<1>5. n \in Q
  BY <1>3, <1>4
<1> QED BY <1>5

-----------------------------------------------------------------------------
(***************************************************************************)
(* Words, blocks and spans of them                                         *)
(***************************************************************************)

LEMMA Multiples ==
  ASSUME NEW c \in Nat \ {0}, NEW q \in Int, NEW r \in Int
  PROVE  (q < r => c * q + c <= c * r) /\ (q <= r => c * q <= c * r)
<1>1. ASSUME NEW d \in Nat PROVE c * d >= 0 /\ c * (d + 1) = c * d + c
  BY <1>1, SMT
<1>2. ASSUME q < r PROVE c * q + c <= c * r
  <2>1. r - q - 1 \in Nat BY <1>2
  <2>2. c * (r - q - 1) >= 0 BY <1>1, <2>1
  <2>3. c * (r - q - 1) = c * r - c * q - c BY SMT
  <2> QED BY <2>2, <2>3
<1>3. ASSUME q <= r PROVE c * q <= c * r
  <2>1. r - q \in Nat BY <1>3
  <2>2. c * (r - q) >= 0 BY <1>1, <2>1
  <2>3. c * (r - q) = c * r - c * q BY SMT
  <2> QED BY <2>2, <2>3
<1> QED BY <1>2, <1>3

LEMMA Quotient ==
  ASSUME NEW a \in Nat
  PROVE  /\ a \div BLKSIZE \in Nat /\ a % BLKSIZE \in Words /\ a % BLKSIZE \in Nat
         /\ a = BLKSIZE * (a \div BLKSIZE) + (a % BLKSIZE)
         /\ a = (a \div BLKSIZE) * BLKSIZE + (a % BLKSIZE)
<1> DEFINE c == BLKSIZE
<1>1. c \in Nat \ {0}
  BY LayoutAssumption
<1> HIDE DEF c
<1>2. a \div c \in Nat /\ a % c \in 0 .. c - 1 /\ a = c * (a \div c) + (a % c)
  BY <1>1, SMT
<1>3. c * (a \div c) = (a \div c) * c
  BY <1>1, <1>2, SMT
<1> QED BY <1>1, <1>2, <1>3 DEF c, Words

LEMMA Quotients ==
  ASSUME NEW a \in Nat, NEW b \in Nat
  PROVE  /\ a <= b => a \div BLKSIZE <= b \div BLKSIZE
         /\ a + BLKSIZE <= b => a \div BLKSIZE < b \div BLKSIZE
         /\ \A n \in Nat : a < BLKSIZE * n => a \div BLKSIZE < n
<1> DEFINE c == BLKSIZE
           x == a \div c
           y == b \div c
<1>1. c \in Nat \ {0} /\ x \in Nat /\ y \in Nat
  BY LayoutAssumption, Quotient
<1>2. PICK r \in Nat, s \in Nat : a = c * x + r /\ b = c * y + s /\ r < c /\ s < c
  <2>1. a % c \in Nat /\ a % c < c /\ b % c \in Nat /\ b % c < c
    BY <1>1, Quotient DEF Words
  <2> QED BY <2>1, Quotient
<1> HIDE DEF c, x, y
<1>3. c * x \in Nat /\ c * y \in Nat
  BY <1>1
<1>4. ASSUME a <= b PROVE x <= y
  <2>1. ASSUME y < x PROVE FALSE
    <3>1. c * y + c <= c * x
      BY <1>1, <2>1, Multiples
    <3> QED BY <1>1, <1>2, <1>3, <1>4, <3>1
  <2> QED BY <1>1, <2>1
<1>5. ASSUME a + c <= b PROVE x < y
  <2>1. ASSUME y <= x PROVE FALSE
    <3>1. c * y <= c * x
      BY <1>1, <2>1, Multiples
    <3> QED BY <1>1, <1>2, <1>3, <1>5, <3>1
  <2> QED BY <1>1, <2>1
<1>6. ASSUME NEW n \in Nat, a < c * n PROVE x < n
  <2>1. ASSUME n <= x PROVE FALSE
    <3>1. c * n <= c * x /\ c * n \in Nat
      BY <1>1, <2>1, Multiples
    <3> QED BY <1>1, <1>2, <1>3, <1>6, <3>1
  <2> QED BY <1>1, <2>1
<1> QED BY <1>4, <1>5, <1>6 DEF c, x, y

\* The blocks of a size, and of a span of words
LEMMA Sizing ==
  /\ \A x \in Nat : NumBlocks(x) \in Nat
  /\ \A x, y \in Nat : x <= y => NumBlocks(x) <= NumBlocks(y)
  /\ \A x, i \in Nat : i < x => i \div BLKSIZE < NumBlocks(x)
  /\ \A x, y \in Nat : x <= y => x \div BLKSIZE <= NumBlocks(y)
  /\ \A i \in Nat : i < Capacity => i \div BLKSIZE \in Places
<1>1. BLKSIZE \in Nat /\ BLKSIZE > 0
  BY LayoutAssumption
<1>2. \A x \in Nat : x + BLKSIZE - 1 \in Nat
  BY <1>1
<1>3. \A x \in Nat : NumBlocks(x) \in Nat
  BY <1>2, Quotient DEF NumBlocks
<1>4. ASSUME NEW x \in Nat, NEW y \in Nat, x <= y PROVE NumBlocks(x) <= NumBlocks(y)
  <2>1. x + BLKSIZE - 1 <= y + BLKSIZE - 1
    BY <1>1, <1>4
  <2> QED BY <1>2, <2>1, Quotients DEF NumBlocks
<1>5. ASSUME NEW x \in Nat, NEW i \in Nat, i < x PROVE i \div BLKSIZE < NumBlocks(x)
  <2>1. i + BLKSIZE <= x + BLKSIZE - 1
    BY <1>1, <1>5
  <2> QED BY <1>2, <2>1, Quotients DEF NumBlocks
<1>6. ASSUME NEW x \in Nat, NEW y \in Nat, x <= y PROVE x \div BLKSIZE <= NumBlocks(y)
  <2>1. x <= y + BLKSIZE - 1
    BY <1>1, <1>6
  <2> QED BY <1>2, <2>1, Quotients DEF NumBlocks
<1>7. ASSUME NEW i \in Nat, i < Capacity PROVE i \div BLKSIZE \in Places
  <2> DEFINE p == NDIRECT + NINDIRECT
  <2>1. p \in Nat
    BY LayoutAssumption DEF NINDIRECT
  <2>2. Capacity = BLKSIZE * p
    <3>1. Capacity = p * BLKSIZE
      BY DEF Capacity
    <3> HIDE DEF p
    <3> QED BY <1>1, <2>1, <3>1, SMT
  <2> HIDE DEF p
  <2>3. i \div BLKSIZE < p /\ i \div BLKSIZE \in Nat
    BY <1>7, <2>1, <2>2, Quotients, Quotient
  <2>4. i \div BLKSIZE \in 0 .. p - 1
    BY <2>1, <2>3
  <2>5. Places = 0 .. p - 1
    BY LayoutAssumption DEF Places, p, NINDIRECT
  <2> QED BY <2>4, <2>5
<1> QED BY <1>3, <1>4, <1>5, <1>6, <1>7

LEMMA SpanIs ==
  ASSUME NEW off \in Nat, NEW count \in Nat,
         NEW n, n = NumBlocks(off + count) - (off \div BLKSIZE)
  PROVE  /\ n \in Nat /\ DOMAIN Span(off, count) = 1 .. n
         /\ \A k \in 1 .. n : /\ Span(off, count)[k] = (off \div BLKSIZE) + k - 1
                              /\ Span(off, count)[k] \in Nat
                              /\ Span(off, count)[k] < NumBlocks(off + count)
                              /\ FirstWord(off, Span(off, count)[k]) \in Nat
<1>1. off \div BLKSIZE \in Nat /\ NumBlocks(off + count) \in Nat
      /\ off \div BLKSIZE <= NumBlocks(off + count) /\ off % BLKSIZE \in Nat
  BY Sizing, Quotient
<1> DEFINE first == off \div BLKSIZE
           last == NumBlocks(off + count)
<1>2. Span(off, count) = [k \in 1 .. last - first |-> first + k - 1]
  BY DEF Span
<1>3. first \in Nat /\ last \in Nat /\ first <= last
  BY <1>1
<1>4. \A k : FirstWord(off, k) \in Nat
  BY <1>1 DEF FirstWord
<1> HIDE DEF first, last
<1>5. last - first \in Nat /\ \A k \in 1 .. last - first : first + k - 1 \in Nat /\ first + k - 1 < last
  BY <1>3
<1>6. /\ DOMAIN Span(off, count) = 1 .. last - first
      /\ \A k \in 1 .. last - first : Span(off, count)[k] = first + k - 1
  BY <1>2
<1> QED BY <1>4, <1>5, <1>6 DEF first, last

-----------------------------------------------------------------------------
(***************************************************************************)
(* file_read                                                               *)
(***************************************************************************)

LEMMA Initial ==
  /\ 1 .. 0 = {}
  /\ \A k \in Nat \ {0} : /\ 1 .. k # {} /\ Max(1 .. k) = k /\ (1 .. k) \ {k} = 1 .. (k - 1)
                          /\ \A n \in Nat : k <= n => 1 .. k \in SUBSET (1 .. n)
<1>1. ASSUME NEW k \in Nat \ {0} PROVE Max(1 .. k) = k
  <2>1. k \in 1 .. k
    OBVIOUS
  <2>2. 1 .. k \in SUBSET (1 .. k) /\ 1 .. k # {}
    BY <2>1
  <2>3. Max(1 .. k) \in 1 .. k /\ Max(1 .. k) >= k
    BY <2>1, <2>2, MostOf
  <2> QED BY <2>3
<1>2. ASSUME NEW k \in Nat \ {0} PROVE 1 .. k # {} /\ (1 .. k) \ {k} = 1 .. (k - 1)
  <2>1. k \in 1 .. k
    OBVIOUS
  <2> QED BY <2>1
<1>3. ASSUME NEW k \in Nat \ {0}, NEW n \in Nat, k <= n PROVE 1 .. k \in SUBSET (1 .. n)
  BY <1>3
<1>4. 1 .. 0 = {}
  OBVIOUS
<1> QED BY <1>1, <1>2, <1>3, <1>4

\* The values that a fold goes through
RunsTo(V, base, n, F, last) ==
  \E x \in [0 .. n -> V] :
    x[0] = base /\ x[n] = last /\ \A k \in 1 .. n : x[k] = F[<<x[k - 1], k>>]

LEMMA FoldRuns ==
  ASSUME NEW V, NEW base \in V, NEW n \in Nat, NEW F \in [V \X (1 .. n) -> V],
         NEW g, g[{}] = base,
         \A S \in SUBSET (1 .. n) : S # {} /\ g[S \ {Max(S)}] \in V =>
           g[S] = F[<<g[S \ {Max(S)}], Max(S)>>]
  PROVE  RunsTo(V, base, n, F, g[1 .. n])
<1> DEFINE t == [k \in 0 .. n |-> g[1 .. k]]
           Q == {k \in 0 .. n : g[1 .. k] \in V}
<1>1. 0 \in Q /\ g[1 .. 0] = base
  BY Initial
<1>2. ASSUME NEW k \in 1 .. n, g[1 .. (k - 1)] \in V PROVE g[1 .. k] = F[<<g[1 .. (k - 1)], k>>]
  <2>1. k \in Nat \ {0} /\ k <= n
    OBVIOUS
  <2>2. /\ 1 .. k # {} /\ Max(1 .. k) = k /\ (1 .. k) \ {k} = 1 .. (k - 1)
        /\ 1 .. k \in SUBSET (1 .. n)
    BY <2>1, Initial
  <2> QED BY <1>2, <2>2
<1>3. ASSUME NEW k \in 1 .. n, k - 1 \in Q PROVE k \in Q
  <2>1. g[1 .. (k - 1)] \in V
    BY <1>3
  <2>2. g[1 .. k] \in V
    BY <1>2, <2>1
  <2> QED BY <2>2
<1>4. \A k \in 0 .. n : k \in Q
  <2> HIDE DEF Q
  <2> QED BY <1>1, <1>3, UpTo
<1>5. t \in [0 .. n -> V]
  BY <1>4
<1>6. t[0] = base /\ t[n] = g[1 .. n]
  BY <1>1
<1>7. ASSUME NEW k \in 1 .. n PROVE t[k] = F[<<t[k - 1], k>>]
  <2>1. k - 1 \in 0 .. n /\ k \in 0 .. n
    OBVIOUS
  <2>2. g[1 .. (k - 1)] \in V
    BY <1>4, <2>1
  <2> QED BY <1>2, <2>1, <2>2
<1> HIDE DEF t
<1> QED BY <1>5, <1>6, <1>7 DEF RunsTo

LEMMA ReadTypes ==
  ASSUME NEW s, Good(s), ~Stopped(s), NEW f \in Files, NEW count \in Nat, NEW off \in Nat,
         NEW t, t = file_read(s, f, count, off)
  PROVE  Outcome(s, t, f)
<1> DEFINE size == Struct(s, f).f_size
           c == Min({count, size - off})
           seq == Span(off, c)
           n == NumBlocks(off + c) - (off \div BLKSIZE)
           Step(u, m) == Reach(u, f, m, FirstWord(off, m))
           V == {u \in States : Outcome(s, u, f)}
           P(h) == h = [S \in SUBSET (DOMAIN seq) |->
                          IF S = {} THEN s ELSE Step(h[S \ {Max(S)}], seq[Max(S)])]
           g == CHOOSE h : P(h)
           F == [x \in V \X (1 .. n) |-> Step(x[1], seq[x[2]])]
<1>1. Typed(s) /\ Tree(s) /\ s.panic = NULL /\ s \in States /\ size \in Nat
  BY NotFull, Structs DEF Good, Stopped, Typed
<1>2. Outcome(s, s, f)
  <2>1. SameBlocks(s, s)
    BY DEF SameBlocks
  <2> QED BY <1>1, <2>1, OutcomeSame
<1>3. CASE off >= size
  <2>1. t = s
    BY <1>3 DEF file_read
  <2> QED BY <1>2, <2>1
<1>4. CASE ~(off >= size)
  <2>1. c \in Nat /\ off + c \in Nat /\ off + c <= size
    <3>1. {count, size - off} \in SUBSET Nat
      BY <1>1, <1>4
    <3>2. c \in {count, size - off} /\ \A x \in {count, size - off} : c <= x
      BY <3>1, LeastOf
    <3>3. c \in Nat /\ c <= size - off
      BY <3>1, <3>2
    <3> HIDE DEF c, size
    <3> QED BY <1>1, <3>3
  <2>2. t = g[DOMAIN seq]
    BY <1>4 DEF file_read, FoldLeft, MapThenFoldSet
  <2>3. /\ n \in Nat /\ DOMAIN seq = 1 .. n
        /\ \A k \in 1 .. n : seq[k] \in Nat /\ seq[k] < NumBlocks(size) /\ FirstWord(off, seq[k]) \in Nat
    <3>1. NumBlocks(off + c) <= NumBlocks(size) /\ NumBlocks(off + c) \in Nat /\ NumBlocks(size) \in Nat
      BY <1>1, <2>1, Sizing
    <3>2. n = NumBlocks(off + c) - (off \div BLKSIZE)
      OBVIOUS
    <3> HIDE DEF c, size, n
    <3>3. /\ n \in Nat /\ DOMAIN seq = 1 .. n
          /\ \A k \in 1 .. n : seq[k] \in Nat /\ seq[k] < NumBlocks(off + c)
                               /\ FirstWord(off, seq[k]) \in Nat
      BY <2>1, <3>2, SpanIs
    <3> HIDE DEF seq
    <3> QED BY <3>1, <3>3
  <2>4. s \in V
    BY <1>1, <1>2
  <2> HIDE DEF c, seq, n
  <2>5. ASSUME NEW u \in V, NEW k \in 1 .. n PROVE Step(u, seq[k]) \in V
    <3> DEFINE v == Step(u, seq[k])
    <3>1. CASE Stopped(u)
      <4>1. v = u
        BY <3>1 DEF Reach, file_get_block, file_block_walk
      <4> QED BY <4>1
    <3>2. CASE ~Stopped(u)
      <4>1. Good(u) /\ u.panic # Full /\ Elsewhere(s, u, f) /\ Grown(s, u, f)
        BY <3>2, NotFull DEF Outcome, Stopped
      <4>2. Struct(u, f).f_size = size
        BY <4>1 DEF Grown
      <4>3. Outcome(u, v, f)
        <5>1. seq[k] \in Nat /\ FirstWord(off, seq[k]) \in Nat /\ seq[k] < NumBlocks(Struct(u, f).f_size)
          BY <2>3, <4>2
        <5> QED BY <3>2, <4>1, <5>1, ReachTypes
      <4> HIDE DEF v
      <4>4. Outcome(s, v, f)
        BY <4>1, <4>3, Transitive DEF Outcome
      <4>5. v \in States
        BY <4>4 DEF Outcome, Good, Typed
      <4> QED BY <4>4, <4>5 DEF v
    <3> QED BY <3>1, <3>2
  <2> HIDE DEF V, Step
  <2>6. F \in [V \X (1 .. n) -> V] /\ \A u \in V, k \in 1 .. n : F[<<u, k>>] = Step(u, seq[k])
    BY <2>5
  <2> HIDE DEF F
  <2>7. \E h : P(h)
    <3>1. PICK h \in [SUBSET (1 .. n) -> V] : FoldsTo(h, 1 .. n, s, F)
      BY <2>3, <2>4, <2>6, FoldExists
    <3>2. ASSUME NEW S \in SUBSET (1 .. n), S # {}
          PROVE  F[<<h[S \ {Max(S)}], Max(S)>>] = Step(h[S \ {Max(S)}], seq[Max(S)])
      <4>1. Max(S) \in 1 .. n /\ h[S \ {Max(S)}] \in V
        BY <2>3, <3>1, <3>2, MostOf
      <4> QED BY <2>6, <4>1
    <3>3. P(h)
      BY <2>3, <3>1, <3>2 DEF FoldsTo
    <3> QED BY <3>3
  <2>8. P(g)
    <3> HIDE DEF P
    <3> QED BY <2>7
  <2> HIDE DEF g
  <2>9. g[{}] = s /\ \A S \in SUBSET (1 .. n) : S # {} => g[S] = Step(g[S \ {Max(S)}], seq[Max(S)])
    BY <2>3, <2>8
  <2> HIDE DEF P
  <2>10. ASSUME NEW S \in SUBSET (1 .. n), S # {}, g[S \ {Max(S)}] \in V
         PROVE  g[S] = F[<<g[S \ {Max(S)}], Max(S)>>]
    <3>1. Max(S) \in 1 .. n
      BY <2>3, <2>10, MostOf
    <3> QED BY <2>6, <2>9, <2>10, <3>1
  <2>11. RunsTo(V, s, n, F, g[1 .. n])
    <3>1. n \in Nat /\ s \in V /\ F \in [V \X (1 .. n) -> V] /\ g[{}] = s
      BY <2>3, <2>4, <2>6, <2>9
    <3>2. \A S \in SUBSET (1 .. n) : S # {} /\ g[S \ {Max(S)}] \in V =>
            g[S] = F[<<g[S \ {Max(S)}], Max(S)>>]
      BY <2>10
    <3> QED BY <3>1, <3>2, FoldRuns
  <2>12. t \in V
    <3>1. n \in 0 .. n
      BY <2>3
    <3> QED BY <2>2, <2>3, <2>11, <3>1 DEF RunsTo
  <2> QED BY <2>12 DEF V
<1> QED BY <1>3, <1>4

-----------------------------------------------------------------------------
(***************************************************************************)
(* file_write                                                              *)
(***************************************************************************)

\* A new size behind which the file has no block
Sized(s, t, f, size) ==
  /\ Typed(t) /\ Tree(t) /\ t.panic = s.panic /\ t.r = s.r
  /\ Elsewhere(s, t, f) /\ Struct(t, f).f_size = size
  /\ \A m \in BlockNumbers : Owned(t, f, m) = Owned(s, f, m)
  /\ \A x \in Blocks \ Reserved : ViewOf(t, x) = ViewOf(s, x)

LEMMA SizeTypes ==
  ASSUME NEW s, Typed(s), Tree(s), NEW f \in Files, NEW size \in Nat, size <= MaxSize,
         \A m \in Places : Owned(s, f, m) # 0 => m < NumBlocks(size),
         NEW t, t = SetStruct(s, f, [Struct(s, f) EXCEPT !.f_size = size])
  PROVE  Sized(s, t, f, size)
<1> DEFINE file == [Struct(s, f) EXCEPT !.f_size = size]
<1>1. Struct(s, f) \in File /\ Inds(s)
  BY Structs, TreeInds
<1>2. /\ file \in File /\ file.f_size = size /\ file.f_direct = Struct(s, f).f_direct
      /\ file.f_indirect = Struct(s, f).f_indirect
  BY <1>1 DEF File
<1>3. StructSet(s, t, f, file)
  <2>1. t = SetStruct(s, f, file) /\ file.f_size <= MaxSize
    BY <1>2
  <2> HIDE DEF file
  <2> QED BY <1>2, <2>1, SetStructTypes
<1> HIDE DEF file
<1>4. DirBlock \in Reserved /\ BitmapBlock \in Reserved /\ BitmapBlock # DirBlock /\ BitmapBlock \in Blocks
  BY Numbers
<1>5. /\ \A x \in Blocks \ Reserved : ViewOf(t, x) = ViewOf(s, x) /\ (x \in t.dirty => x \in s.dirty)
      /\ Bitmap(t) = Bitmap(s)
  BY <1>3, <1>4 DEF StructSet, Bitmap
<1>6. Struct(t, f).f_size = size /\ Struct(t, f).f_direct = Struct(s, f).f_direct
      /\ Struct(t, f).f_indirect = Struct(s, f).f_indirect
  BY <1>2, <1>3 DEF StructSet
<1>7. \A g \in Files : Struct(s, g).f_indirect # 0 =>
        ViewOf(t, Struct(s, g).f_indirect) = ViewOf(s, Struct(s, g).f_indirect)
  BY <1>1, <1>5 DEF Inds
<1>8. \A m \in BlockNumbers : Owned(t, f, m) = Owned(s, f, m)
  BY <1>6, <1>7 DEF Owned
<1>9. \A g \in Files \ {f} : Struct(t, g) = Struct(s, g) /\ (DirOnDisk(s, g) => DirOnDisk(t, g))
  BY <1>3 DEF StructSet
<1>10. \A g \in Files, m \in BlockNumbers : Owned(t, g, m) = Owned(s, g, m)
  <2>1. ASSUME NEW g \in Files \ {f} PROVE \A m \in BlockNumbers : Owned(t, g, m) = Owned(s, g, m)
    BY <1>7, <1>9, OwnedSame
  <2> QED BY <1>8, <2>1
<1>11. Elsewhere(s, t, f)
  <2>1. \A g \in Files, m \in BlockNumbers : Owned(s, g, m) # 0 => Owned(s, g, m) \in Blocks \ Reserved
    BY DEF Tree
  <2>2. t.disk = s.disk
    BY <1>3 DEF StructSet
  <2> QED BY <1>5, <1>9, <1>10, <2>1, <2>2 DEF Elsewhere
<1>12. Tree(t)
  <2>1. ASSUME NEW g \in Files, NEW m \in BlockNumbers, m >= 0, Owned(t, g, m) # 0
        PROVE  m < NumBlocks(Struct(t, g).f_size)
    <3>1. Owned(s, g, m) # 0 /\ m \in Places
      BY <1>10, <2>1, PlacesAre
    <3>2. CASE g = f
      BY <1>6, <3>1, <3>2
    <3>3. CASE g # f
      BY <1>9, <2>1, <3>1, <3>3 DEF Tree
    <3> QED BY <3>2, <3>3
  <2> QED BY <1>5, <1>10, <2>1, TreeStays
<1> QED BY <1>3, <1>5, <1>6, <1>8, <1>11, <1>12 DEF StructSet, Sized

\* The words off .. off + count - 1 of one block become v.
InSpan(n, w, off, count) == n * BLKSIZE + w \in off .. off + count - 1
Stored(s, t, f, n, off, count, v) ==
  /\ Good(t)
  /\ t.panic # Full =>
       /\ Elsewhere(s, t, f) /\ Struct(t, f).f_size = Struct(s, f).f_size
       /\ \A m \in BlockNumbers : Owned(s, f, m) # 0 =>
            /\ Owned(t, f, m) = Owned(s, f, m)
            /\ m >= 0 => \A w \in Words :
                 \/ ViewOf(t, Owned(s, f, m))[w] = ViewOf(s, Owned(s, f, m))[w]
                 \/ InSpan(m, w, off, count) /\ ViewOf(t, Owned(s, f, m))[w] = v
  /\ t.r # NULL => n \notin Places
  /\ ~Stopped(t) => /\ n \in Places /\ Owned(t, f, n) # 0
                    /\ \A w \in Words : InSpan(n, w, off, count) => ViewOf(t, Owned(t, f, n))[w] = v

LEMMA StoreTypes ==
  ASSUME NEW s, Good(s), ~Stopped(s), NEW f \in Files, NEW n \in Nat, NEW word \in Nat,
         n < NumBlocks(Struct(s, f).f_size), NEW off \in Nat, NEW count \in Nat, NEW v \in Nat,
         NEW u, u = Reach(s, f, n, word),
         NEW t, t = IF Stopped(u) THEN u
                    ELSE Modify(u, Slot(u, f, n), [w \in Words |->
                                  IF n * BLKSIZE + w \in off .. off + count - 1
                                  THEN v ELSE u.cache[Slot(u, f, n)][w]])
  PROVE  Stored(s, t, f, n, off, count, v)
<1>1. /\ Outcome(s, u, f) /\ (u.r # NULL => n \notin Places)
      /\ ~Stopped(u) => /\ n \in Places /\ Owned(u, f, n) \in Blocks \ Reserved
                        /\ Slot(u, f, n) = Owned(u, f, n) /\ u.cache[Owned(u, f, n)] # NULL
  BY ReachTypes
<1>2. CASE Stopped(u)
  <2>1. t = u
    BY <1>2
  <2> QED BY <1>1, <1>2, <2>1 DEF Outcome, Grown, Stored
<1>3. CASE ~Stopped(u)
  <2> DEFINE b == Owned(u, f, n)
             c == [w \in Words |-> IF n * BLKSIZE + w \in off .. off + count - 1
                                   THEN v ELSE u.cache[b][w]]
  <2>1. Typed(u) /\ Tree(u) /\ u.panic = NULL /\ u.r = NULL /\ Elsewhere(s, u, f) /\ Grown(s, u, f)
    BY <1>1, <1>3, NotFull DEF Outcome, Good, Stopped
  <2>2. b \in Blocks \ Reserved /\ u.cache[b] # NULL /\ n \in Places /\ n \in BlockNumbers /\ n # -1
    BY <1>1, <1>3, PlacesAre
  <2>3. b \in Blocks \ {0, SuperBlock} /\ b \notin {1, 2, 3} /\ b # DirBlock /\ b # BitmapBlock
    BY <2>2, Numbers
  <2>4. u.cache[b] = ViewOf(u, b) /\ u.cache[b] \in [Words -> Nat]
    BY <2>1, <2>2, ViewTypes DEF ViewOf
  <2>5. t = Modify(u, b, c)
    BY <1>1, <1>3
  <2> HIDE DEF b
  <2>6. c \in Content(b)
    <3>1. c \in [Words -> Nat]
      BY <2>4
    <3> HIDE DEF c
    <3> QED BY <2>3, <3>1, Contents
  <2>7. \A w \in Words : c[w] = IF InSpan(n, w, off, count) THEN v ELSE ViewOf(u, b)[w]
    BY <2>4 DEF InSpan
  <2> HIDE DEF c
  <2>8. Modified(u, t, b, c)
    BY <2>1, <2>3, <2>5, <2>6, ModifyTypes
  <2>9. \A g \in Files : Struct(t, g) = Struct(u, g)
    BY <2>3, <2>8, Numbers DEF Modified, Struct
  <2>10. \A g \in Files, m \in BlockNumbers : Owned(u, g, m) # 0 =>
           /\ Owned(u, g, m) \in Blocks \ Reserved /\ (g # f \/ m # n => Owned(u, g, m) # b)
    BY <2>1, <2>2 DEF Tree, b
  <2>11. \A g \in Files, m \in BlockNumbers : Owned(t, g, m) = Owned(u, g, m)
    <3>1. -1 \in BlockNumbers /\ \A g \in Files : Owned(u, g, -1) = Struct(u, g).f_indirect
      BY PlacesAre DEF Owned
    <3>2. ASSUME NEW g \in Files, Struct(u, g).f_indirect # 0
          PROVE  ViewOf(t, Struct(u, g).f_indirect) = ViewOf(u, Struct(u, g).f_indirect)
      <4>1. Struct(u, g).f_indirect \in Blocks \ {b}
        BY <2>2, <2>10, <3>1, <3>2
      <4> QED BY <2>8, <4>1 DEF Modified
    <3> QED BY <2>9, <3>2, OwnedSame
  <2>12. Bitmap(t) = Bitmap(u) /\ t.panic = NULL /\ t.r = NULL /\ Typed(t) /\ t.disk = u.disk
         /\ t.writes = u.writes
    BY <2>1, <2>3, <2>8, Numbers DEF Modified, Bitmap
  <2>13. Tree(t)
    <3>1. \A g \in Files, m \in BlockNumbers :
            m >= 0 /\ Owned(t, g, m) # 0 => m < NumBlocks(Struct(t, g).f_size)
      BY <2>1, <2>9, <2>11 DEF Tree
    <3> QED BY <2>1, <2>11, <2>12, <3>1, TreeStays
  <2>14. Elsewhere(u, t, f)
    <3>1. \A g \in Files : DirOnDisk(u, g) => DirOnDisk(t, g)
      BY <2>9, <2>12, DirStays
    <3>2. \A x \in Blocks \ {b} : ViewOf(t, x) = ViewOf(u, x) /\ (x \in t.dirty => x \in u.dirty)
      BY <2>8 DEF Modified
    <3> QED BY <2>9, <2>10, <2>11, <2>12, <3>1, <3>2 DEF Elsewhere
  <2>15. Elsewhere(s, t, f) /\ Struct(t, f).f_size = Struct(s, f).f_size
    BY <2>1, <2>9, <2>14, Transitive DEF Grown
  <2>16. ASSUME NEW m \in BlockNumbers, Owned(s, f, m) # 0
         PROVE  /\ Owned(t, f, m) = Owned(s, f, m)
                /\ m >= 0 => \A w \in Words :
                     \/ ViewOf(t, Owned(s, f, m))[w] = ViewOf(s, Owned(s, f, m))[w]
                     \/ InSpan(m, w, off, count) /\ ViewOf(t, Owned(s, f, m))[w] = v
    <3>1. /\ Owned(u, f, m) = Owned(s, f, m) /\ Owned(u, f, m) # 0
          /\ m >= 0 => ViewOf(u, Owned(s, f, m)) = ViewOf(s, Owned(s, f, m))
      BY <2>1, <2>16 DEF Grown
    <3>2. CASE m # n
      <4>1. Owned(u, f, m) \in Blocks \ {b}
        BY <2>10, <3>1, <3>2
      <4>2. ViewOf(t, Owned(u, f, m)) = ViewOf(u, Owned(u, f, m))
        BY <2>8, <4>1 DEF Modified
      <4> QED BY <2>11, <3>1, <4>2
    <3>3. CASE m = n
      <4>1. Owned(u, f, m) = b /\ ViewOf(t, b) = c
        BY <2>8, <3>3 DEF Modified, b
      <4> QED BY <2>7, <2>11, <3>1, <3>3, <4>1
    <3> QED BY <3>2, <3>3
  <2>17. n \in Places /\ Owned(t, f, n) = b /\ b # 0 /\ ViewOf(t, b) = c
    BY <2>2, <2>3, <2>8, <2>11 DEF Modified, b
  <2>18. Good(t)
    BY <2>12, <2>13, NotFull DEF Good
  <2> QED BY <2>7, <2>12, <2>15, <2>16, <2>17, <2>18 DEF Stored
<1> QED BY <1>2, <1>3

\* What a write leaves, and what it stores
Kept(s, t, f, off, count) ==
  \A m \in BlockNumbers : Owned(s, f, m) # 0 =>
    /\ Owned(t, f, m) = Owned(s, f, m)
    /\ m >= 0 => \A w \in Words : ~InSpan(m, w, off, count) =>
         ViewOf(t, Owned(s, f, m))[w] = ViewOf(s, Owned(s, f, m))[w]
Within(s, t, f, size, off, count) ==
  /\ Good(t)
  /\ t.panic # Full => /\ Elsewhere(s, t, f) /\ Kept(s, t, f, off, count)
                       /\ Struct(t, f).f_size = size
Filled(t, f, first, last, off, count, v) ==
  \A m \in Places : first <= m /\ m < last =>
    /\ Owned(t, f, m) # 0
    /\ \A w \in Words : InSpan(m, w, off, count) => ViewOf(t, Owned(t, f, m))[w] = v
Written(s, t, f, off, count, v) ==
  /\ Good(t)
  /\ t.panic # Full => /\ Elsewhere(s, t, f) /\ Kept(s, t, f, off, count)
                       /\ Struct(s, f).f_size <= Struct(t, f).f_size
                       /\ off + count <= Struct(t, f).f_size
  /\ t.panic = NULL => Filled(t, f, off \div BLKSIZE, NumBlocks(off + count), off, count, v)

LEMMA WriteTypes ==
  ASSUME NEW s, Good(s), ~Stopped(s), NEW f \in Files, NEW count \in Nat, NEW off \in Nat,
         off + count <= MaxSize, NEW v \in Nat, NEW t, t = file_write(s, f, count, off, v)
  PROVE  Written(s, t, f, off, count, v)
<1> DEFINE size == Struct(s, f).f_size
           grows == off + count > size
           base == IF grows
                   THEN SetStruct(s, f, [Struct(s, f) EXCEPT !.f_size = off + count])
                   ELSE s
           max == IF grows THEN off + count ELSE size
           seq == Span(off, count)
           first == off \div BLKSIZE
           last == NumBlocks(off + count)
           n == NumBlocks(off + count) - (off \div BLKSIZE)
           Step(x, m) ==
             LET u == Reach(x, f, m, FirstWord(off, m))
                 b == Slot(u, f, m)
             IN  IF Stopped(u) THEN u
                 ELSE Modify(u, b, [w \in Words |->
                                      IF m * BLKSIZE + w \in off .. off + count - 1
                                      THEN v ELSE u.cache[b][w]])
           V == {u \in States : Within(s, u, f, max, off, count)}
           P(h) == h = [S \in SUBSET (DOMAIN seq) |->
                          IF S = {} THEN base ELSE Step(h[S \ {Max(S)}], seq[Max(S)])]
           g == CHOOSE h : P(h)
           F == [x \in V \X (1 .. n) |-> Step(x[1], seq[x[2]])]
<1>1. /\ Typed(s) /\ Tree(s) /\ s.panic = NULL /\ s.r = NULL /\ s \in States /\ size \in Nat
      /\ size <= MaxSize
  BY NotFull, Structs DEF Good, Stopped, Typed
<1>2. max \in Nat /\ size <= max /\ off + count <= max /\ max <= MaxSize
  <2> HIDE DEF size
  <2> QED BY <1>1
<1>3. Sized(s, base, f, max)
  <2>1. CASE grows
    <3>1. base = SetStruct(s, f, [Struct(s, f) EXCEPT !.f_size = max])
      BY <2>1
    <3>2. \A m \in Places : Owned(s, f, m) # 0 => m < NumBlocks(max)
      <4>1. NumBlocks(size) <= NumBlocks(max) /\ NumBlocks(size) \in Nat /\ NumBlocks(max) \in Nat
        <5> HIDE DEF max, size
        <5> QED BY <1>1, <1>2, Sizing
      <4>2. \A m \in Places : Owned(s, f, m) # 0 => m < NumBlocks(size)
        BY <1>1, PlacesAre DEF Tree
      <4> HIDE DEF max, size
      <4> QED BY <4>1, <4>2, PlacesAre
    <3> HIDE DEF max, base
    <3> QED BY <1>1, <1>2, <3>1, <3>2, SizeTypes
  <2>2. CASE ~grows
    <3>1. base = s /\ max = size
      BY <2>2
    <3>2. SameBlocks(s, s)
      BY DEF SameBlocks
    <3>3. Elsewhere(s, s, f)
      BY <1>1, <3>2, SameTree
    <3> QED BY <1>1, <3>1, <3>3 DEF Sized
  <2> QED BY <2>1, <2>2
<1>4. t = g[DOMAIN seq]
  BY DEF file_write, FoldLeft, MapThenFoldSet
<1>5. /\ n \in Nat /\ n = last - first /\ first \in Nat /\ last \in Nat /\ DOMAIN seq = 1 .. n
      /\ \A k \in 1 .. n : /\ seq[k] \in Nat /\ seq[k] < NumBlocks(max) /\ FirstWord(off, seq[k]) \in Nat
                           /\ seq[k] = first + k - 1
  <2>1. NumBlocks(off + count) <= NumBlocks(max) /\ NumBlocks(off + count) \in Nat
        /\ NumBlocks(max) \in Nat /\ first \in Nat
    <3>1. first \in Nat
      BY Quotient
    <3> HIDE DEF max, first
    <3>2. off + count \in Nat
      OBVIOUS
    <3> QED BY <1>2, <3>1, <3>2, Sizing
  <2>2. n = NumBlocks(off + count) - (off \div BLKSIZE) /\ n = last - first
    OBVIOUS
  <2> HIDE DEF max, n
  <2>3. /\ n \in Nat /\ DOMAIN seq = 1 .. n
        /\ \A k \in 1 .. n : /\ seq[k] \in Nat /\ seq[k] < NumBlocks(off + count)
                             /\ FirstWord(off, seq[k]) \in Nat /\ seq[k] = first + k - 1
    BY <2>2, SpanIs
  <2> HIDE DEF seq, first
  <2>4. \A k \in 1 .. n : seq[k] < NumBlocks(max)
    BY <2>1, <2>3
  <2> HIDE DEF last
  <2>5. last \in Nat
    BY <2>1 DEF last
  <2> QED BY <2>1, <2>2, <2>3, <2>4, <2>5
<1>6. base \in V
  <2>1. Good(base)
    BY <1>1, <1>3, NotFull DEF Sized, Good
  <2>2. Kept(s, base, f, off, count)
    <3>1. \A m \in BlockNumbers : Owned(s, f, m) # 0 => Owned(s, f, m) \in Blocks \ Reserved
      BY <1>1 DEF Tree
    <3> HIDE DEF base, max
    <3> QED BY <1>3, <3>1 DEF Sized, Kept
  <2> HIDE DEF base, max
  <2> QED BY <1>3, <2>1, <2>2 DEF Sized, Typed, Within
<1>7. ~Stopped(base)
  BY <1>1, <1>3 DEF Sized, Stopped
<1> HIDE DEF seq, n, max, base, first, last
\* One step
<1>8. ASSUME NEW u \in V, NEW k \in 1 .. n
      PROVE  /\ Stopped(u) => Step(u, seq[k]) = u
             /\ ~Stopped(u) => Stored(u, Step(u, seq[k]), f, seq[k], off, count, v)
             /\ Step(u, seq[k]) \in V
  <2> DEFINE z == Step(u, seq[k])
             y == Reach(u, f, seq[k], FirstWord(off, seq[k]))
  <2>1. CASE Stopped(u)
    <3>1. y = u
      BY <2>1 DEF Reach, file_get_block, file_block_walk
    <3>2. z = u
      BY <2>1, <3>1
    <3> QED BY <2>1, <3>2
  <2>2. CASE ~Stopped(u)
    <3>1. Good(u) /\ u.panic # Full /\ Elsewhere(s, u, f) /\ Kept(s, u, f, off, count)
          /\ Struct(u, f).f_size = max
      BY <2>2, NotFull DEF Within, Stopped
    <3>2. Stored(u, z, f, seq[k], off, count, v)
      <4>1. seq[k] \in Nat /\ FirstWord(off, seq[k]) \in Nat /\ seq[k] < NumBlocks(Struct(u, f).f_size)
        BY <1>5, <3>1
      <4> DEFINE i == seq[k]
                 word == FirstWord(off, seq[k])
      <4>2. z = IF Stopped(y) THEN y
                ELSE Modify(y, Slot(y, f, i), [w \in Words |->
                              IF i * BLKSIZE + w \in off .. off + count - 1
                              THEN v ELSE y.cache[Slot(y, f, i)][w]])
        OBVIOUS
      <4>3. y = Reach(u, f, i, word)
        OBVIOUS
      <4> HIDE DEF z, y, word
      <4>4. word \in Nat /\ i \in Nat /\ i < NumBlocks(Struct(u, f).f_size)
        BY <4>1 DEF word
      <4> HIDE DEF i
      <4>5. Stored(u, z, f, i, off, count, v)
        BY <2>2, <3>1, <4>2, <4>3, <4>4, StoreTypes
      <4> QED BY <4>5 DEF i
    <3> HIDE DEF z
    <3>3. ASSUME z.panic # Full
          PROVE  Elsewhere(s, z, f) /\ Struct(z, f).f_size = max /\ Kept(s, z, f, off, count)
      <4>1. Elsewhere(s, z, f) /\ Struct(z, f).f_size = max
        BY <3>1, <3>2, <3>3, Transitive DEF Stored
      <4>2. ASSUME NEW m \in BlockNumbers, Owned(s, f, m) # 0
            PROVE  /\ Owned(z, f, m) = Owned(s, f, m)
                   /\ m >= 0 => \A w \in Words : ~InSpan(m, w, off, count) =>
                        ViewOf(z, Owned(s, f, m))[w] = ViewOf(s, Owned(s, f, m))[w]
        <5>1. /\ Owned(u, f, m) = Owned(s, f, m)
              /\ m >= 0 => \A w \in Words : ~InSpan(m, w, off, count) =>
                   ViewOf(u, Owned(s, f, m))[w] = ViewOf(s, Owned(s, f, m))[w]
          BY <3>1, <4>2 DEF Kept
        <5>2. /\ Owned(z, f, m) = Owned(u, f, m)
              /\ m >= 0 => \A w \in Words :
                   \/ ViewOf(z, Owned(u, f, m))[w] = ViewOf(u, Owned(u, f, m))[w]
                   \/ InSpan(m, w, off, count)
          BY <3>2, <3>3, <4>2, <5>1 DEF Stored
        <5> QED BY <5>1, <5>2
      <4> QED BY <4>1, <4>2 DEF Kept
    <3>4. Good(z) /\ z \in States
      BY <3>2 DEF Stored, Good, Typed
    <3>5. z \in V
      BY <3>3, <3>4 DEF Within
    <3> HIDE DEF V
    <3> QED BY <2>2, <3>2, <3>5 DEF z
  <2> QED BY <2>1, <2>2
<1> HIDE DEF Step
\* The steps
<1>9. \E x \in [0 .. n -> V] :
        x[0] = base /\ x[n] = t /\ \A k \in 1 .. n : x[k] = Step(x[k - 1], seq[k])
  <2> HIDE DEF V
  <2>1. F \in [V \X (1 .. n) -> V] /\ \A u \in V, k \in 1 .. n : F[<<u, k>>] = Step(u, seq[k])
    BY <1>8
  <2> HIDE DEF F
  <2>2. \E h : P(h)
    <3>1. PICK h \in [SUBSET (1 .. n) -> V] : FoldsTo(h, 1 .. n, base, F)
      BY <1>5, <1>6, <2>1, FoldExists
    <3>2. ASSUME NEW S \in SUBSET (1 .. n), S # {}
          PROVE  F[<<h[S \ {Max(S)}], Max(S)>>] = Step(h[S \ {Max(S)}], seq[Max(S)])
      <4>1. Max(S) \in 1 .. n /\ h[S \ {Max(S)}] \in V
        BY <1>5, <3>1, <3>2, MostOf
      <4> QED BY <2>1, <4>1
    <3>3. P(h)
      BY <1>5, <3>1, <3>2 DEF FoldsTo
    <3> QED BY <3>3
  <2>3. P(g)
    <3> HIDE DEF P
    <3> QED BY <2>2
  <2> HIDE DEF g
  <2>4. g[{}] = base /\ \A S \in SUBSET (1 .. n) : S # {} => g[S] = Step(g[S \ {Max(S)}], seq[Max(S)])
    BY <1>5, <2>3
  <2> HIDE DEF P
  <2>5. \A S \in SUBSET (1 .. n) : S # {} /\ g[S \ {Max(S)}] \in V =>
          g[S] = F[<<g[S \ {Max(S)}], Max(S)>>]
    <3>1. \A S \in SUBSET (1 .. n) : S # {} => Max(S) \in 1 .. n
      BY <1>5, MostOf
    <3> QED BY <2>1, <2>4, <3>1
  <2>6. RunsTo(V, base, n, F, g[1 .. n])
    <3>1. n \in Nat /\ base \in V /\ F \in [V \X (1 .. n) -> V] /\ g[{}] = base
      BY <1>5, <1>6, <2>1, <2>4
    <3> QED BY <2>5, <3>1, FoldRuns
  <2>7. PICK x \in [0 .. n -> V] :
          x[0] = base /\ x[n] = g[1 .. n] /\ \A k \in 1 .. n : x[k] = F[<<x[k - 1], k>>]
    BY <2>6 DEF RunsTo
  <2>8. \A k \in 1 .. n : k - 1 \in 0 .. n /\ x[k - 1] \in V
    BY <1>5
  <2>9. \A k \in 1 .. n : x[k] = Step(x[k - 1], seq[k])
    BY <2>1, <2>7, <2>8
  <2>10. x[n] = t
    BY <1>4, <1>5, <2>7
  <2> QED BY <2>7, <2>9, <2>10
<1>10. PICK x \in [0 .. n -> V] :
         x[0] = base /\ x[n] = t /\ \A k \in 1 .. n : x[k] = Step(x[k - 1], seq[k])
  BY <1>9
<1> DEFINE Done(k) ==
             /\ x[k].r # NULL => first + k > NDIRECT + NINDIRECT
             /\ x[k].panic = NULL => Filled(x[k], f, first, first + k, off, count, v)
           Q == {k \in 0 .. n : Done(k)}
<1>a. NDIRECT \in Nat /\ NINDIRECT \in Nat /\ \A m \in Places : m \in Nat /\ m < NDIRECT + NINDIRECT /\ m \in BlockNumbers
      /\ m >= 0
  BY PlacesAre, LayoutAssumption DEF Places, NINDIRECT
<1>11. 0 \in Q
  <2>1. x[0].r = NULL
    BY <1>7, <1>10 DEF Stopped
  <2>2. \A m \in Places : ~(first <= m /\ m < first + 0)
    BY <1>5, <1>a
  <2>3. 0 \in 0 .. n
    BY <1>5
  <2> QED BY <2>1, <2>2, <2>3 DEF Filled
<1>12. ASSUME NEW k \in 1 .. n, k - 1 \in Q PROVE k \in Q
  <2> DEFINE u == x[k - 1]
             z == x[k]
             j == k - 1
  <2>1. j \in 0 .. n /\ k \in 0 .. n /\ first \in Nat /\ j \in Nat /\ first + j \in Nat
        /\ first + k = (first + j) + 1 /\ first + k > first + j
    BY <1>5
  <2>2. u \in V /\ z = Step(u, seq[k])
    BY <1>10, <2>1
  <2>3. /\ u.r # NULL => first + j > NDIRECT + NINDIRECT
        /\ u.panic = NULL => Filled(u, f, first, first + j, off, count, v)
    BY <1>12
  <2>4. /\ Stopped(u) => z = u
        /\ ~Stopped(u) => Stored(u, z, f, seq[k], off, count, v)
    BY <1>8, <2>2
  <2>5. seq[k] = first + j /\ seq[k] \in Nat
    BY <1>5, <2>1
  <2> HIDE DEF u, z, j, V
  <2>6. CASE Stopped(u)
    <3>1. z = u
      BY <2>4, <2>6
    <3>2. z.r # NULL => first + k > NDIRECT + NINDIRECT
      BY <1>5, <1>a, <2>1, <2>3, <3>1
    <3>3. ASSUME z.panic = NULL PROVE Filled(z, f, first, first + k, off, count, v)
      <4>1. first + j > NDIRECT + NINDIRECT
        BY <2>3, <2>6, <3>1, <3>3 DEF Stopped
      <4>2. \A m \in Places : m < first + j
        BY <1>5, <1>a, <2>1, <4>1
      <4> QED BY <2>3, <3>1, <3>3, <4>2 DEF Filled
    <3> QED BY <2>1, <3>2, <3>3 DEF z
  <2>7. CASE ~Stopped(u)
    <3>1. Stored(u, z, f, first + j, off, count, v) /\ u.panic = NULL
      BY <2>4, <2>5, <2>7 DEF Stopped
    <3>2. ASSUME z.r # NULL PROVE first + k > NDIRECT + NINDIRECT
      <4>1. first + j \notin Places
        BY <3>1, <3>2 DEF Stored
      <4>2. ~(first + j <= NDIRECT + NINDIRECT - 1)
        BY <1>5, <1>a, <2>1, <4>1 DEF Places
      <4> QED BY <1>a, <2>1, <4>2
    <3>3. ASSUME z.panic = NULL, NEW m \in Places, first <= m, m < first + k
          PROVE  /\ Owned(z, f, m) # 0
                 /\ \A w \in Words : InSpan(m, w, off, count) => ViewOf(z, Owned(z, f, m))[w] = v
      <4>1. CASE m < first + j
        <5>1. /\ Owned(u, f, m) # 0
              /\ \A w \in Words : InSpan(m, w, off, count) => ViewOf(u, Owned(u, f, m))[w] = v
          BY <2>3, <3>1, <3>3, <4>1 DEF Filled
        <5>2. /\ Owned(z, f, m) = Owned(u, f, m)
              /\ \A w \in Words :
                   \/ ViewOf(z, Owned(u, f, m))[w] = ViewOf(u, Owned(u, f, m))[w]
                   \/ ViewOf(z, Owned(u, f, m))[w] = v
          BY <1>a, <3>1, <3>3, <5>1, NotFull DEF Stored
        <5> QED BY <5>1, <5>2
      <4>2. CASE ~(m < first + j)
        <5>1. m = first + j
          BY <1>a, <2>1, <3>3, <4>2
        <5>2. z.r = NULL
          BY <3>1, <5>1 DEF Stored
        <5>3. ~Stopped(z)
          BY <3>3, <5>2 DEF Stopped
        <5> QED BY <3>1, <5>1, <5>3 DEF Stored
      <4> QED BY <4>1, <4>2
    <3>4. z.panic = NULL => Filled(z, f, first, first + k, off, count, v)
      BY <3>3 DEF Filled
    <3> QED BY <2>1, <3>2, <3>4 DEF z
  <2> QED BY <2>6, <2>7
<1>13. n \in Q
  <2>1. n \in 0 .. n
    BY <1>5
  <2> HIDE DEF Q
  <2> QED BY <1>5, <1>11, <1>12, <2>1, UpTo
<1>14. t.panic = NULL => Filled(t, f, first, last, off, count, v)
  <2>1. first + n = last
    BY <1>5
  <2> QED BY <1>10, <1>13, <2>1
<1>15. t \in V
  <2> HIDE DEF V
  <2>1. n \in 0 .. n
    BY <1>5
  <2> QED BY <1>10, <2>1
<1> QED BY <1>2, <1>14, <1>15 DEF Within, Written, first, last

-----------------------------------------------------------------------------
(***************************************************************************)
(* file_truncate_blocks and file_set_size                                  *)
(***************************************************************************)

LEMMA SameTransitive ==
  ASSUME NEW s, NEW t, NEW u, SameBlocks(s, t), SameBlocks(t, u)
  PROVE  SameBlocks(s, u)
<1> QED BY DEF SameBlocks

\* file_block_walk, which finds the place of a block number, or does not
WalkFound(s, t, f, n) ==
  /\ Typed(t) /\ SameBlocks(s, t) /\ t.panic \in {NULL, NotAtStart}
  /\ t.r # NULL => t.panic = NULL /\ (n \notin Places \/ Owned(s, f, n) = 0)
  /\ t.panic = NULL /\ t.r = NULL => n \in Places /\ Walked(t, f, n)

LEMMA WalkFails ==
  ASSUME NEW s, Typed(s), ~Stopped(s), NEW f, NEW n, NEW e \in Errors, NEW t, t = Fail(s, e),
         n \notin Places \/ Owned(s, f, n) = 0
  PROVE  WalkFound(s, t, f, n)
<1>1. e \in Errors \cup {NULL} /\ e # NULL /\ s.panic = NULL
  BY NotFull DEF Stopped
<1>2. Typed(t) /\ SameBlocks(s, t) /\ t.panic = s.panic /\ t.r = e
  BY <1>1, FailTypes
<1> QED BY <1>1, <1>2 DEF WalkFound

LEMMA WalkTypes ==
  ASSUME NEW s, Typed(s), Tree(s), ~Stopped(s), NEW f \in Files, NEW n \in Nat,
         NEW t, t = file_block_walk(s, f, n, FALSE)
  PROVE  WalkFound(s, t, f, n)
<1> DEFINE ind == Struct(s, f).f_indirect
<1>1. s.panic = NULL /\ s.r = NULL
  BY DEF Stopped
<1>2. ind # 0 => ind \in Blocks \ {0} /\ ind \notin Bitmap(s)
  <2>1. Owned(s, f, -1) = ind /\ -1 \in BlockNumbers
    BY PlacesAre DEF Owned
  <2> QED BY <2>1, Numbers DEF Tree
<1>3. ASSUME NEW e \in Errors, t = Fail(s, e), n \notin Places \/ Owned(s, f, n) = 0
      PROVE  WalkFound(s, t, f, n)
  BY <1>3, WalkFails
<1>4. "E_INVAL" \in Errors /\ "E_NOT_FOUND" \in Errors
  BY DEF Errors
<1>5. CASE n < NDIRECT
  <2>1. t = s
    BY <1>5 DEF file_block_walk
  <2>2. SameBlocks(s, s)
    BY DEF SameBlocks
  <2>3. n \in Places
    BY <1>5, LayoutAssumption DEF Places, NINDIRECT
  <2> QED BY <1>1, <1>5, <2>1, <2>2, <2>3 DEF Walked, WalkFound
<1>6. CASE n >= NDIRECT + NINDIRECT
  <2>1. t = Fail(s, "E_INVAL")
    BY <1>6, LayoutAssumption DEF file_block_walk, NINDIRECT
  <2>2. n \notin Places
    BY <1>6, LayoutAssumption DEF Places, NINDIRECT
  <2> QED BY <1>3, <1>4, <2>1, <2>2
<1>7. CASE n >= NDIRECT /\ n < NDIRECT + NINDIRECT /\ ind # 0
  <2>1. t = Touch(s, ind, n - NDIRECT)
    BY <1>7, LayoutAssumption DEF file_block_walk, NINDIRECT
  <2>2. n - NDIRECT \in Nat /\ n \in Places
    BY <1>7, LayoutAssumption DEF Places, NINDIRECT
  <2>3. Touched(s, t, ind, n - NDIRECT)
    BY <1>2, <1>7, <2>1, <2>2, TouchTypes
  <2>4. SameBlocks(s, t)
    BY <2>3, TouchedSame
  <2>5. t.panic = NULL => Walked(t, f, n)
    <3>1. Struct(t, f) = Struct(s, f)
      BY <2>4 DEF SameBlocks, Struct
    <3> QED BY <1>7, <2>3, <3>1 DEF Walked, Touched
  <2> QED BY <2>2, <2>3, <2>4, <2>5 DEF Touched, WalkFound
<1>8. CASE n >= NDIRECT /\ n < NDIRECT + NINDIRECT /\ ind = 0
  <2>1. t = Fail(s, "E_NOT_FOUND")
    BY <1>8, LayoutAssumption, <1>1 DEF file_block_walk, NINDIRECT, Stopped
  <2>2. Owned(s, f, n) = 0
    <3>1. n # -1 /\ ~(n < NDIRECT)
      BY <1>8, LayoutAssumption
    <3> QED BY <1>8, <3>1 DEF Owned
  <2> QED BY <1>3, <1>4, <2>1, <2>2
<1>9. n < NDIRECT \/ n >= NDIRECT + NINDIRECT \/ (n >= NDIRECT /\ n < NDIRECT + NINDIRECT)
  BY LayoutAssumption DEF NINDIRECT
<1> QED BY <1>5, <1>6, <1>7, <1>8, <1>9

\* A block of a file, or none, is given back.
Less(s, t, f, n) ==
  /\ Typed(t) /\ Tree(t) /\ t.r = NULL /\ t.panic \in {NULL, NotAtStart}
  /\ Elsewhere(s, t, f) /\ Struct(t, f).f_size = Struct(s, f).f_size
  /\ \A m \in Places : m # n =>
       /\ Owned(t, f, m) = Owned(s, f, m)
       /\ Owned(s, f, m) # 0 => ViewOf(t, Owned(s, f, m)) = ViewOf(s, Owned(s, f, m))
  /\ t.panic = NULL /\ n \in Places => Owned(t, f, n) = 0

LEMMA LessSame ==
  ASSUME NEW s, NEW t, Typed(s), Tree(s), NEW f \in Files, NEW n, Typed(t), SameBlocks(s, t),
         t.r = NULL, t.panic \in {NULL, NotAtStart},
         t.panic = NULL /\ n \in Places => Owned(s, f, n) = 0
  PROVE  Less(s, t, f, n)
<1>1. /\ Tree(t) /\ \A g \in Files, m \in BlockNumbers : Owned(t, g, m) = Owned(s, g, m)
      /\ Struct(t, f) = Struct(s, f) /\ Elsewhere(s, t, f) /\ Grown(s, t, f)
  BY SameTree
<1>2. \A m \in Places : m \in BlockNumbers /\ m >= 0
  BY PlacesAre
<1> QED BY <1>1, <1>2 DEF Less, Grown

LEMMA LessTransitive ==
  ASSUME NEW s, NEW t, NEW f, NEW n, SameBlocks(s, t), Typed(s), Tree(s), f \in Files,
         NEW u, Less(t, u, f, n)
  PROVE  Less(s, u, f, n)
<1>1. /\ \A g \in Files, m \in BlockNumbers : Owned(t, g, m) = Owned(s, g, m)
      /\ Struct(t, f) = Struct(s, f) /\ Elsewhere(s, t, f) /\ Grown(s, t, f)
  BY SameTree
<1>2. \A m \in Places : m \in BlockNumbers /\ m >= 0
  BY PlacesAre
<1>3. Elsewhere(s, u, f)
  BY <1>1, Transitive DEF Less
<1> QED BY <1>1, <1>2, <1>3 DEF Less, Grown

LEMMA FreeSlot ==
  ASSUME NEW s, Typed(s), Tree(s), ~Stopped(s), NEW f \in Files, NEW n \in Places, Walked(s, f, n),
         Owned(s, f, n) # 0, NEW t, t = SetSlot(free_block(s, Owned(s, f, n)), f, n, 0)
  PROVE  Less(s, t, f, n)
<1> DEFINE b == Owned(s, f, n)
           a == free_block(s, b)
           ind == Struct(s, f).f_indirect
<1>1. Inds(s) /\ n \in BlockNumbers /\ n # -1 /\ 0 \in 0 .. NBLOCKS
  BY TreeInds, PlacesAre, LayoutAssumption
<1>2. b \in Blocks \ Reserved /\ b \in Blocks \ {0}
  BY <1>1, Numbers DEF Tree
<1>3. Freed(s, a, b)
  <2> HIDE DEF b
  <2> QED BY <1>2, FreeTypes
<1>4. t = SetSlot(a, f, n, 0)
  OBVIOUS
<1> HIDE DEF a
<1>5. Inds(a) /\ Walked(a, f, n) /\ \A g \in Files : Struct(a, g) = Struct(s, g)
  <2>1. \A g \in Files : Struct(a, g) = Struct(s, g)
    BY <1>3 DEF Freed
  <2>2. Inds(a)
    BY <1>1, <2>1 DEF Inds
  <2>3. ind # 0 => ind \in Blocks \ {BitmapBlock}
    BY <1>1, Numbers DEF Inds
  <2> QED BY <1>3, <2>1, <2>2, <2>3 DEF Freed, Walked
<1>6. SlotChanged(a, t, f, n, 0)
  BY <1>1, <1>3, <1>4, <1>5, SetSlotTypes DEF Freed
<1>7. \A g \in Files, m \in BlockNumbers : Owned(a, g, m) = Owned(s, g, m)
  <2>1. \A g \in Files : Struct(s, g).f_indirect # 0 =>
          ViewOf(a, Struct(s, g).f_indirect) = ViewOf(s, Struct(s, g).f_indirect)
    BY <1>1, <1>3, Numbers DEF Inds, Freed
  <2> QED BY <1>5, <2>1, OwnedSame
<1>8. \A g \in Files, m \in BlockNumbers : ~(g = f /\ m = n) => Owned(t, g, m) = Owned(s, g, m)
  BY <1>6, <1>7 DEF SlotChanged
<1>9. /\ Owned(t, f, n) = 0 /\ Bitmap(t) = Bitmap(s) \cup {b} /\ t.panic = NULL /\ t.r = NULL
      /\ Typed(t) /\ t.disk = s.disk
      /\ \A g \in Files : Struct(t, g).f_size = Struct(s, g).f_size
  BY <1>3, <1>5, <1>6 DEF SlotChanged, Freed, Stopped
<1>10. Tree(t)
  BY <1>1, <1>2, <1>8, <1>9, TreeShrinks
<1>11. \A x \in Blocks \ Reserved : x # ind => ViewOf(t, x) = ViewOf(s, x) /\ (x \in t.dirty => x \in s.dirty)
  <2>1. BitmapBlock \in Reserved /\ DirBlock \in Reserved
    BY Numbers
  <2> QED BY <1>3, <1>5, <1>6, <2>1 DEF SlotChanged, Freed
<1>12. \A g \in Files, m \in BlockNumbers : Owned(s, g, m) # 0 =>
         Owned(s, g, m) \in Blocks \ Reserved /\ (g # f \/ m # -1 => Owned(s, g, m) # ind)
  <2>1. -1 \in BlockNumbers /\ Owned(s, f, -1) = ind
    BY PlacesAre DEF Owned
  <2> QED BY <2>1 DEF Tree
<1>13. \A g \in Files \ {f} : Struct(t, g) = Struct(s, g) /\ (DirOnDisk(s, g) => DirOnDisk(t, g))
  BY <1>3, <1>5, <1>6 DEF SlotChanged, Freed
<1>14. Elsewhere(s, t, f)
  BY <1>8, <1>9, <1>11, <1>12, <1>13 DEF Elsewhere
<1>15. \A m \in Places : m # n =>
         /\ Owned(t, f, m) = Owned(s, f, m)
         /\ Owned(s, f, m) # 0 => ViewOf(t, Owned(s, f, m)) = ViewOf(s, Owned(s, f, m))
  <2>1. \A m \in Places : m \in BlockNumbers /\ m # -1
    BY PlacesAre
  <2> QED BY <1>8, <1>11, <1>12, <2>1
<1> QED BY <1>9, <1>10, <1>14, <1>15 DEF Less

LEMMA FreeTypesOfFile ==
  ASSUME NEW s, Typed(s), Tree(s), ~Stopped(s), NEW f \in Files, NEW n \in Nat,
         NEW t, t = file_free_block(s, f, n)
  PROVE  Less(s, t, f, n)
<1> DEFINE u == file_block_walk(s, f, n, FALSE)
<1>1. WalkFound(s, u, f, n)
  BY WalkTypes
<1> HIDE DEF u
<1>2. Typed(u) /\ SameBlocks(s, u) /\ u.panic \in {NULL, NotAtStart}
  BY <1>1 DEF WalkFound
<1>3. Tree(u) /\ \A g \in Files, m \in BlockNumbers : Owned(u, g, m) = Owned(s, g, m)
  BY <1>2, SameTree
<1>4. \A m \in Places : m \in BlockNumbers
  BY PlacesAre
<1>5. CASE u.panic # NULL
  <2>1. t = u
    BY <1>5 DEF file_free_block, u
  <2>2. u.r = NULL
    BY <1>1, <1>5 DEF WalkFound
  <2> QED BY <1>2, <1>5, <2>1, <2>2, LessSame
<1>6. CASE u.panic = NULL /\ (u.r # NULL \/ Slot(u, f, n) = 0)
  <2>1. t = Fail(u, NULL)
    BY <1>6 DEF file_free_block, Fail, u
  <2>2. Typed(t) /\ SameBlocks(u, t) /\ t.panic = NULL /\ t.r = NULL
    BY <1>2, <1>6, <2>1, FailTypes
  <2>3. SameBlocks(s, t)
    BY <1>2, <2>2, SameTransitive
  <2>4. n \in Places => Owned(s, f, n) = 0
    <3>1. u.r = NULL => n \in Places /\ Walked(u, f, n)
      BY <1>1, <1>6 DEF WalkFound
    <3>2. u.r = NULL => Slot(u, f, n) = Owned(u, f, n)
      BY <3>1, SlotIsOwned
    <3> QED BY <1>1, <1>3, <1>4, <1>6, <3>1, <3>2 DEF WalkFound
  <2> QED BY <2>2, <2>3, <2>4, LessSame
<1>7. CASE u.panic = NULL /\ u.r = NULL /\ Slot(u, f, n) # 0
  <2>1. n \in Places /\ Walked(u, f, n) /\ ~Stopped(u)
    BY <1>1, <1>7 DEF WalkFound, Stopped
  <2>2. Slot(u, f, n) = Owned(u, f, n)
    BY <2>1, SlotIsOwned
  <2>3. t = SetSlot(free_block(u, Owned(u, f, n)), f, n, 0)
    BY <1>7, <2>2 DEF file_free_block, u
  <2>4. Less(u, t, f, n)
    BY <1>2, <1>3, <1>7, <2>1, <2>2, <2>3, FreeSlot
  <2> QED BY <1>2, <2>4, LessTransitive
<1> QED BY <1>5, <1>6, <1>7

\* What lies before block number new stays.
Cut(s, t, f, new) ==
  /\ Typed(t) /\ Tree(t) /\ t.r = NULL /\ t.panic \in {NULL, NotAtStart}
  /\ Elsewhere(s, t, f) /\ Struct(t, f).f_size = Struct(s, f).f_size
  /\ \A m \in Places : m < new =>
       /\ Owned(t, f, m) = Owned(s, f, m)
       /\ Owned(s, f, m) # 0 => ViewOf(t, Owned(s, f, m)) = ViewOf(s, Owned(s, f, m))

LEMMA FreeIndirect ==
  ASSUME NEW s, Typed(s), Tree(s), ~Stopped(s), NEW f \in Files, NEW ind,
         ind = Struct(s, f).f_indirect, ind # 0,
         \A m \in Places : m >= NDIRECT => Owned(s, f, m) = 0,
         NEW t, t = SetStruct(free_block(s, ind), f, [Struct(s, f) EXCEPT !.f_indirect = 0])
  PROVE  /\ Typed(t) /\ Tree(t) /\ t.r = NULL /\ t.panic = NULL
         /\ Elsewhere(s, t, f) /\ Struct(t, f).f_size = Struct(s, f).f_size
         /\ \A m \in Places :
              /\ Owned(t, f, m) = Owned(s, f, m)
              /\ Owned(s, f, m) # 0 => ViewOf(t, Owned(s, f, m)) = ViewOf(s, Owned(s, f, m))
<1> DEFINE a == free_block(s, ind)
           file == [Struct(s, f) EXCEPT !.f_indirect = 0]
<1>1. /\ Inds(s) /\ -1 \in BlockNumbers /\ 0 \in 0 .. NBLOCKS /\ Struct(s, f) \in File
      /\ Struct(s, f).f_size <= MaxSize /\ Owned(s, f, -1) = ind
  BY TreeInds, PlacesAre, LayoutAssumption, Structs DEF Owned
<1>2. ind \in Blocks \ Reserved /\ ind \in Blocks \ {0}
  BY <1>1, Numbers DEF Inds
<1>3. Freed(s, a, ind)
  BY <1>2, FreeTypes
<1>4. t = SetStruct(a, f, file)
  OBVIOUS
<1>5. /\ file \in File /\ file.f_size = Struct(s, f).f_size /\ file.f_direct = Struct(s, f).f_direct
      /\ file.f_indirect = 0
  BY <1>1 DEF File
<1> HIDE DEF a, file
<1>6. StructSet(a, t, f, file)
  <2>1. Typed(a) /\ file.f_size <= MaxSize
    BY <1>1, <1>3, <1>5 DEF Freed
  <2> QED BY <1>4, <1>5, <2>1, SetStructTypes
<1>7. \A g \in Files \ {f} : Struct(t, g) = Struct(s, g) /\ (DirOnDisk(s, g) => DirOnDisk(t, g))
  BY <1>3, <1>6 DEF StructSet, Freed
<1>8. Struct(t, f) = file
  BY <1>6 DEF StructSet
<1>9. \A x \in Blocks \ Reserved : ViewOf(t, x) = ViewOf(s, x) /\ (x \in t.dirty => x \in s.dirty)
  <2>1. BitmapBlock \in Reserved /\ DirBlock \in Reserved
    BY Numbers
  <2> QED BY <1>3, <1>6, <2>1 DEF StructSet, Freed
<1>10. \A g \in Files \ {f}, m \in BlockNumbers : Owned(t, g, m) = Owned(s, g, m)
  <2>1. \A g \in Files : Struct(s, g).f_indirect # 0 =>
          ViewOf(t, Struct(s, g).f_indirect) = ViewOf(s, Struct(s, g).f_indirect)
    BY <1>1, <1>9 DEF Inds
  <2> QED BY <1>7, <2>1, OwnedSame
<1>11. Owned(t, f, -1) = 0
  BY <1>5, <1>8 DEF Owned
<1>12. \A m \in Places : Owned(t, f, m) = Owned(s, f, m)
  <2>1. ASSUME NEW m \in Places, m < NDIRECT PROVE Owned(t, f, m) = Owned(s, f, m)
    <3>1. m # -1
      BY PlacesAre
    <3> QED BY <1>5, <1>8, <2>1, <3>1 DEF Owned
  <2>2. ASSUME NEW m \in Places, ~(m < NDIRECT) PROVE Owned(t, f, m) = Owned(s, f, m)
    <3>1. m # -1 /\ m >= NDIRECT
      BY <2>2, PlacesAre
    <3> QED BY <1>5, <1>8, <2>2, <3>1 DEF Owned
  <2> QED BY <2>1, <2>2
<1>13. \A g \in Files, m \in BlockNumbers : ~(g = f /\ m = -1) => Owned(t, g, m) = Owned(s, g, m)
  BY <1>10, <1>12, PlacesAre
<1>14. /\ Bitmap(t) = Bitmap(s) \cup {ind} /\ t.panic = NULL /\ t.r = NULL /\ t.disk = s.disk
       /\ Typed(t)
  <2>1. Bitmap(t) = Bitmap(a)
    BY <1>6, Numbers DEF StructSet, Bitmap
  <2> QED BY <1>3, <1>6, <2>1 DEF StructSet, Freed, Stopped
<1>15. \A g \in Files : Struct(t, g).f_size = Struct(s, g).f_size
  BY <1>5, <1>7, <1>8
<1>16. Tree(t)
  <2>1. Owned(s, f, -1) # 0 /\ Bitmap(t) = Bitmap(s) \cup {Owned(s, f, -1)}
    BY <1>1, <1>14
  <2> QED BY <1>1, <1>11, <1>13, <1>15, <2>1, TreeShrinks
<1>17. \A g \in Files, m \in BlockNumbers : Owned(s, g, m) # 0 => Owned(s, g, m) \in Blocks \ Reserved
  BY DEF Tree
<1>18. Elsewhere(s, t, f)
  BY <1>7, <1>9, <1>10, <1>14, <1>17 DEF Elsewhere
<1> QED BY <1>9, <1>12, <1>14, <1>15, <1>16, <1>17, <1>18, PlacesAre

LEMMA TruncateTypes ==
  ASSUME NEW s, Typed(s), Tree(s), ~Stopped(s), NEW f \in Files, NEW size \in Nat,
         size <= Struct(s, f).f_size, NEW t, t = file_truncate_blocks(s, f, size)
  PROVE  /\ Cut(s, t, f, NumBlocks(size))
         /\ t.panic = NULL => \A m \in Places : Owned(t, f, m) # 0 => m < NumBlocks(size)
<1> DEFINE old == NumBlocks(Struct(s, f).f_size)
           new == NumBlocks(size)
           n == old - new
           seq == [k \in 1 .. old - new |-> new + k - 1]
           Step(u, m) == IF Stopped(u) THEN u ELSE file_free_block(u, f, m)
           y == FoldLeft(Step, s, seq)
           ind == Struct(y, f).f_indirect
           V == {u \in States : Cut(s, u, f, new)}
           P(h) == h = [S \in SUBSET (DOMAIN seq) |->
                          IF S = {} THEN s ELSE Step(h[S \ {Max(S)}], seq[Max(S)])]
           g == CHOOSE h : P(h)
           F == [x \in V \X (1 .. n) |-> Step(x[1], seq[x[2]])]
<1>1. s.panic = NULL /\ s.r = NULL /\ s \in States /\ Struct(s, f).f_size \in Nat
  BY Structs DEF Stopped, Typed
<1>2. /\ old \in Nat /\ new \in Nat /\ n \in Nat /\ DOMAIN seq = 1 .. n
      /\ \A k \in 1 .. n : seq[k] = new + k - 1 /\ seq[k] \in Nat
  <2>1. new <= old /\ old \in Nat /\ new \in Nat
    BY <1>1, Sizing
  <2>2. n = old - new
    OBVIOUS
  <2> HIDE DEF old, new, n
  <2>3. n \in Nat
    BY <2>1, <2>2
  <2>4. seq = [k \in 1 .. n |-> new + k - 1]
    BY <2>2
  <2> HIDE DEF seq
  <2>5. \A k \in 1 .. n : new + k - 1 \in Nat
    BY <2>1, <2>3
  <2> QED BY <2>1, <2>3, <2>4, <2>5
<1>3. t = IF Stopped(y) \/ new > NDIRECT \/ ind = 0
          THEN y
          ELSE SetStruct(free_block(y, ind), f, [Struct(y, f) EXCEPT !.f_indirect = 0])
  BY DEF file_truncate_blocks
<1>4. y = g[DOMAIN seq]
  BY DEF FoldLeft, MapThenFoldSet
<1>a. old = new + n
  <2>1. n = old - new
    OBVIOUS
  <2> HIDE DEF n, old, new
  <2> QED BY <1>2, <2>1
<1>b. old = NumBlocks(Struct(s, f).f_size)
  OBVIOUS
<1> HIDE DEF y, seq, n, old
<1>5. s \in V
  <2>1. SameBlocks(s, s)
    BY DEF SameBlocks
  <2>2. Elsewhere(s, s, f)
    BY <2>1, SameTree
  <2> HIDE DEF new
  <2> QED BY <1>1, <2>2 DEF Cut
<1>6. ASSUME NEW u \in V, NEW k \in 1 .. n
      PROVE  /\ Stopped(u) => Step(u, seq[k]) = u
             /\ ~Stopped(u) => Less(u, Step(u, seq[k]), f, seq[k])
             /\ Step(u, seq[k]) \in V
  <2> HIDE DEF new
  <2>1. CASE Stopped(u)
    BY <2>1
  <2>2. CASE ~Stopped(u)
    <3> DEFINE z == Step(u, seq[k])
               i == seq[k]
    <3>1. z = file_free_block(u, f, i) /\ i \in Nat
      BY <1>2, <2>2
    <3>2. i = new + k - 1
      BY <1>2
    <3> HIDE DEF z, i
    <3>3. Cut(s, u, f, new)
      OBVIOUS
    <3>4. Less(u, z, f, i)
      BY <2>2, <3>1, <3>3, FreeTypesOfFile DEF Cut
    <3>5. \A m \in Places : m < new => m # i
      BY <1>2, <3>2, PlacesAre
    <3>6. Elsewhere(s, z, f)
      BY <3>3, <3>4, Transitive DEF Cut, Less
    <3>7. Cut(s, z, f, new)
      BY <3>3, <3>4, <3>5, <3>6 DEF Cut, Less
    <3>8. z \in V
      BY <3>7 DEF Cut, Typed
    <3> HIDE DEF V
    <3> QED BY <2>2, <3>4, <3>8 DEF z, i
  <2> QED BY <2>1, <2>2
<1> HIDE DEF Step
<1>7. \E x \in [0 .. n -> V] :
        x[0] = s /\ x[n] = y /\ \A k \in 1 .. n : x[k] = Step(x[k - 1], seq[k])
  <2> HIDE DEF V
  <2>1. F \in [V \X (1 .. n) -> V] /\ \A u \in V, k \in 1 .. n : F[<<u, k>>] = Step(u, seq[k])
    BY <1>6
  <2> HIDE DEF F
  <2>2. \E h : P(h)
    <3>1. PICK h \in [SUBSET (1 .. n) -> V] : FoldsTo(h, 1 .. n, s, F)
      BY <1>2, <1>5, <2>1, FoldExists
    <3>2. ASSUME NEW S \in SUBSET (1 .. n), S # {}
          PROVE  F[<<h[S \ {Max(S)}], Max(S)>>] = Step(h[S \ {Max(S)}], seq[Max(S)])
      <4>1. Max(S) \in 1 .. n /\ h[S \ {Max(S)}] \in V
        BY <1>2, <3>1, <3>2, MostOf
      <4> QED BY <2>1, <4>1
    <3>3. P(h)
      BY <1>2, <3>1, <3>2, ZenonT(30) DEF FoldsTo
    <3> QED BY <3>3
  <2>3. P(g)
    <3> HIDE DEF P
    <3> QED BY <2>2
  <2> HIDE DEF g
  <2>4. g[{}] = s /\ \A S \in SUBSET (1 .. n) : S # {} => g[S] = Step(g[S \ {Max(S)}], seq[Max(S)])
    BY <1>2, <2>3
  <2> HIDE DEF P
  <2>5. \A S \in SUBSET (1 .. n) : S # {} /\ g[S \ {Max(S)}] \in V =>
          g[S] = F[<<g[S \ {Max(S)}], Max(S)>>]
    <3>1. \A S \in SUBSET (1 .. n) : S # {} => Max(S) \in 1 .. n
      BY <1>2, MostOf
    <3> QED BY <2>1, <2>4, <3>1
  <2>6. RunsTo(V, s, n, F, g[1 .. n])
    <3>1. n \in Nat /\ s \in V /\ F \in [V \X (1 .. n) -> V] /\ g[{}] = s
      BY <1>2, <1>5, <2>1, <2>4
    <3> QED BY <2>5, <3>1, FoldRuns
  <2>7. PICK x \in [0 .. n -> V] :
          x[0] = s /\ x[n] = g[1 .. n] /\ \A k \in 1 .. n : x[k] = F[<<x[k - 1], k>>]
    BY <2>6 DEF RunsTo
  <2>8. \A k \in 1 .. n : k - 1 \in 0 .. n /\ x[k - 1] \in V
    BY <1>2
  <2>9. \A k \in 1 .. n : x[k] = Step(x[k - 1], seq[k])
    BY <2>1, <2>7, <2>8
  <2>10. x[n] = y
    BY <1>2, <1>4, <2>7
  <2> QED BY <2>7, <2>9, <2>10
<1>8. PICK x \in [0 .. n -> V] :
        x[0] = s /\ x[n] = y /\ \A k \in 1 .. n : x[k] = Step(x[k - 1], seq[k])
  BY <1>7
<1> DEFINE Done(k) == x[k].panic = NULL =>
                        \A m \in Places : new <= m /\ m < new + k => Owned(x[k], f, m) = 0
           Q == {k \in 0 .. n : Done(k)}
<1> HIDE DEF new
<1>9. 0 \in Q
  <2>1. \A m \in Places : ~(new <= m /\ m < new + 0)
    BY <1>2, PlacesAre
  <2> QED BY <1>2, <2>1
<1>10. ASSUME NEW k \in 1 .. n, k - 1 \in Q PROVE k \in Q
  <2> DEFINE u == x[k - 1]
             z == x[k]
             j == k - 1
  <2>1. j \in 0 .. n /\ k \in 0 .. n /\ new \in Nat /\ j \in Nat /\ new + j \in Nat
        /\ new + k = (new + j) + 1
    BY <1>2
  <2>2. u \in V /\ z = Step(u, seq[k])
    BY <1>8, <2>1
  <2>3. u.panic = NULL => \A m \in Places : new <= m /\ m < new + j => Owned(u, f, m) = 0
    BY <1>10
  <2>4. /\ Stopped(u) => z = u
        /\ ~Stopped(u) => Less(u, z, f, seq[k])
    BY <1>6, <2>2
  <2>5. seq[k] = new + j
    BY <1>2, <2>1
  <2>6. u.r = NULL
    BY <2>2 DEF Cut
  <2> HIDE DEF u, z, j, V
  <2>7. ASSUME z.panic = NULL, NEW m \in Places, new <= m, m < new + k
        PROVE  Owned(z, f, m) = 0
    <3>1. ~Stopped(u) /\ u.panic = NULL
      BY <2>4, <2>6, <2>7 DEF Stopped
    <3>2. Less(u, z, f, new + j)
      BY <2>4, <2>5, <3>1
    <3>3. m \in Nat
      BY PlacesAre
    <3>4. m < new + j \/ m = new + j
      BY <2>1, <2>7, <3>3
    <3>5. CASE m = new + j
      BY <2>7, <3>2, <3>5 DEF Less
    <3>6. CASE m < new + j
      <4>1. Owned(u, f, m) = 0 /\ m # new + j
        BY <2>1, <2>3, <2>7, <3>1, <3>3, <3>6
      <4> QED BY <3>2, <4>1 DEF Less
    <3> QED BY <3>4, <3>5, <3>6
  <2> QED BY <2>1, <2>7 DEF z
<1>11. n \in Q
  <2>1. n \in 0 .. n
    BY <1>2
  <2> HIDE DEF Q
  <2> QED BY <1>2, <1>9, <1>10, <2>1, UpTo
<1>12. Cut(s, y, f, new)
  <2>1. n \in 0 .. n
    BY <1>2
  <2>2. y \in V
    BY <1>8, <2>1
  <2> QED BY <2>2
<1>13. y.panic = NULL => \A m \in Places : Owned(y, f, m) # 0 => m < new
  <2>1. ASSUME y.panic = NULL, NEW m \in Places, Owned(y, f, m) # 0 PROVE m < new
    <3>1. m \in Nat /\ m \in BlockNumbers
      BY PlacesAre
    <3>2. m < old
      BY <1>b, <1>12, <2>1, <3>1 DEF Cut, Tree
    <3>3. ~(new <= m /\ m < new + n)
      BY <1>8, <1>11, <2>1
    <3> QED BY <1>2, <1>a, <3>1, <3>2, <3>3
  <2> QED BY <2>1
<1>14. CASE Stopped(y) \/ new > NDIRECT \/ ind = 0
  <2>1. t = y
    BY <1>3, <1>14
  <2> QED BY <1>12, <1>13, <2>1 DEF new
<1>15. CASE ~(Stopped(y) \/ new > NDIRECT \/ ind = 0)
  <2>1. t = SetStruct(free_block(y, ind), f, [Struct(y, f) EXCEPT !.f_indirect = 0])
    BY <1>3, <1>15
  <2>2. Typed(y) /\ Tree(y) /\ ~Stopped(y) /\ ind # 0 /\ y.panic = NULL
    BY <1>12, <1>15 DEF Cut, Stopped
  <2>3. \A m \in Places : m >= NDIRECT => Owned(y, f, m) = 0
    <3>1. NDIRECT \in Nat /\ new <= NDIRECT
      BY <1>2, <1>15, LayoutAssumption
    <3> QED BY <1>2, <1>13, <2>2, <3>1, PlacesAre
  <2>4. ind = Struct(y, f).f_indirect
    OBVIOUS
  <2> HIDE DEF ind
  <2>5. /\ Typed(t) /\ Tree(t) /\ t.r = NULL /\ t.panic = NULL
        /\ Elsewhere(y, t, f) /\ Struct(t, f).f_size = Struct(y, f).f_size
        /\ \A m \in Places :
             /\ Owned(t, f, m) = Owned(y, f, m)
             /\ Owned(y, f, m) # 0 => ViewOf(t, Owned(y, f, m)) = ViewOf(y, Owned(y, f, m))
    BY <2>1, <2>2, <2>3, <2>4, FreeIndirect
  <2>6. Elsewhere(s, t, f)
    BY <1>12, <2>5, Transitive DEF Cut
  <2>7. Cut(s, t, f, new)
    BY <1>12, <2>5, <2>6 DEF Cut
  <2> QED BY <1>13, <2>2, <2>5, <2>7 DEF new
<1> QED BY <1>14, <1>15

LEMMA FlushedSame ==
  ASSUME NEW s, NEW t, NEW b, BlockFlushed(s, t, b)
  PROVE  SameBlocks(s, t)
<1> QED BY DEF BlockFlushed, SameBlocks, Bitmap

\* What lies before the new size stays.
Resized(s, t, f, size) ==
  /\ Typed(t) /\ Tree(t) /\ t.r = NULL /\ t.panic \in {NULL, NotAtStart}
  /\ Elsewhere(s, t, f) /\ Struct(t, f).f_size >= size
  /\ \A m \in Places : m < NumBlocks(size) =>
       /\ Owned(t, f, m) = Owned(s, f, m)
       /\ Owned(s, f, m) # 0 => ViewOf(t, Owned(s, f, m)) = ViewOf(s, Owned(s, f, m))

LEMMA SetSizeTypes ==
  ASSUME NEW s, Typed(s), Tree(s), ~Stopped(s), NEW f \in Files, NEW size \in Nat, size <= MaxSize,
         NEW t, t = file_set_size(s, f, size)
  PROVE  Resized(s, t, f, size)
<1> DEFINE old == Struct(s, f).f_size
           u == IF old > size THEN file_truncate_blocks(s, f, size) ELSE s
           v == SetStruct(u, f, [Struct(u, f) EXCEPT !.f_size = size])
<1>1. old \in Nat /\ s.panic = NULL /\ s.r = NULL
  BY Structs DEF Stopped
<1>2. t = IF Stopped(u) THEN u ELSE flush_block(v, DirBlock)
  BY DEF file_set_size
<1>3. /\ Cut(s, u, f, NumBlocks(size))
      /\ u.panic = NULL => \A m \in Places : Owned(u, f, m) # 0 => m < NumBlocks(size)
  <2>1. CASE old > size
    <3>1. u = file_truncate_blocks(s, f, size) /\ size <= old
      BY <1>1, <2>1
    <3> HIDE DEF u
    <3> QED BY <3>1, TruncateTypes
  <2>2. CASE ~(old > size)
    <3>1. u = s
      BY <2>2
    <3>2. SameBlocks(s, s)
      BY DEF SameBlocks
    <3>3. Elsewhere(s, s, f)
      BY <3>2, SameTree
    <3>4. NumBlocks(old) <= NumBlocks(size) /\ NumBlocks(old) \in Nat /\ NumBlocks(size) \in Nat
      <4> HIDE DEF old
      <4> QED BY <1>1, <2>2, Sizing
    <3>5. \A m \in Places : Owned(s, f, m) # 0 => m < NumBlocks(old)
      BY PlacesAre DEF Tree
    <3>6. \A m \in Places : m \in Nat
      BY PlacesAre
    <3> HIDE DEF u, old
    <3> QED BY <1>1, <3>1, <3>3, <3>4, <3>5, <3>6 DEF Cut
  <2> QED BY <2>1, <2>2
<1> HIDE DEF u
<1>4. CASE Stopped(u)
  <2>1. t = u
    BY <1>2, <1>4
  <2>2. old >= size
    <3>1. ASSUME ~(old > size) PROVE FALSE
      BY <1>1, <1>4, <3>1 DEF u, Stopped
    <3> HIDE DEF old
    <3> QED BY <1>1, <3>1
  <2> QED BY <1>3, <2>1, <2>2 DEF Cut, Resized
<1>5. CASE ~Stopped(u)
  <2>1. t = flush_block(v, DirBlock) /\ u.panic = NULL
    BY <1>2, <1>5 DEF Stopped
  <2>2. Sized(u, v, f, size)
    BY <1>3, <2>1, SizeTypes DEF Cut
  <2> HIDE DEF v
  <2>3. Typed(v) /\ Tree(v) /\ ~Stopped(v)
    BY <1>5, <2>2 DEF Sized, Stopped
  <2>4. BlockFlushed(v, t, DirBlock)
    <3>1. DirBlock \in Blocks \ {0}
      BY Numbers
    <3> QED BY <2>1, <2>3, <3>1, FlushTypes
  <2>5. SameBlocks(v, t) /\ Typed(t) /\ t.r = NULL /\ t.panic = NULL
    BY <2>4, FlushedSame DEF BlockFlushed
  <2>6. /\ Tree(t) /\ \A g \in Files, m \in BlockNumbers : Owned(t, g, m) = Owned(v, g, m)
        /\ Struct(t, f) = Struct(v, f) /\ Elsewhere(v, t, f)
    BY <2>3, <2>5, SameTree
  <2>7. Elsewhere(s, t, f)
    BY <1>3, <2>2, <2>6, Transitive DEF Cut, Sized
  <2>8. Struct(t, f).f_size >= size
    BY <2>2, <2>6 DEF Sized
  <2>9. ASSUME NEW m \in Places, m < NumBlocks(size)
        PROVE  /\ Owned(t, f, m) = Owned(s, f, m)
               /\ Owned(s, f, m) # 0 => ViewOf(t, Owned(s, f, m)) = ViewOf(s, Owned(s, f, m))
    <3>1. m \in BlockNumbers
      BY PlacesAre
    <3>2. Owned(t, f, m) = Owned(u, f, m) /\ Owned(u, f, m) = Owned(s, f, m)
      BY <1>3, <2>2, <2>6, <2>9, <3>1 DEF Cut, Sized
    <3>3. ASSUME Owned(s, f, m) # 0
          PROVE  ViewOf(t, Owned(s, f, m)) = ViewOf(s, Owned(s, f, m))
      <4>1. ViewOf(u, Owned(s, f, m)) = ViewOf(s, Owned(s, f, m))
        BY <1>3, <2>9, <3>3 DEF Cut
      <4>2. Owned(s, f, m) \in Blocks \ Reserved
        BY <3>1, <3>3 DEF Tree
      <4> QED BY <2>2, <2>5, <4>1, <4>2 DEF Sized, SameBlocks
    <3> QED BY <3>2, <3>3
  <2> QED BY <2>5, <2>6, <2>7, <2>8, <2>9 DEF Resized
<1> QED BY <1>4, <1>5

-----------------------------------------------------------------------------
(***************************************************************************)
(* file_flush and fs_sync                                                  *)
(***************************************************************************)

\* Blocks leave the cache's set of dirty blocks, and nothing else happens.
Pushed(s, t) ==
  Typed(t) /\ SameBlocks(s, t) /\ t.r = NULL /\ t.panic \in {NULL, NotAtStart}

LEMMA PushTransitive ==
  ASSUME NEW s, NEW t, NEW u, Pushed(s, t), Pushed(t, u)
  PROVE  Pushed(s, u)
<1> QED BY SameTransitive DEF Pushed

LEMMA PushBlock ==
  ASSUME NEW s, Typed(s), s.r = NULL, s.panic \in {NULL, NotAtStart}, NEW b \in Blocks \ {0},
         NEW t, t = flush_block(s, b)
  PROVE  /\ Pushed(s, t)
         /\ t.panic = NULL => /\ s.panic = NULL /\ b \notin t.dirty
                              /\ b = DirBlock => \A f \in Files : DirOnDisk(t, f)
<1>1. CASE Stopped(s)
  <2>1. t = s /\ s.panic # NULL
    BY <1>1 DEF flush_block, Stopped
  <2>2. SameBlocks(s, s)
    BY DEF SameBlocks
  <2> QED BY <2>1, <2>2 DEF Pushed
<1>2. CASE ~Stopped(s)
  <2>1. BlockFlushed(s, t, b)
    BY <1>2, FlushTypes
  <2>2. SameBlocks(s, t)
    BY <2>1, FlushedSame
  <2> QED BY <1>2, <2>1, <2>2 DEF Pushed, BlockFlushed, Stopped
<1> QED BY <1>1, <1>2

\* One block of a file
SlotPushed(s, t, f, n) ==
  /\ Pushed(s, t)
  /\ t.panic = NULL => /\ s.panic = NULL
                       /\ n \in Places /\ Owned(s, f, n) # 0 => Owned(s, f, n) \notin t.dirty

LEMMA PushWalked ==
  ASSUME NEW s, Typed(s), Tree(s), s.panic = NULL, NEW f \in Files, NEW n \in Nat,
         NEW u, WalkFound(s, u, f, n),
         NEW t, t = IF u.panic # NULL THEN u
                    ELSE IF u.r # NULL \/ Slot(u, f, n) = 0 THEN Fail(u, NULL)
                    ELSE flush_block(u, Slot(u, f, n))
  PROVE  SlotPushed(s, t, f, n)
<1>1. WalkFound(s, u, f, n) /\ s.panic = NULL
  OBVIOUS
<1>2. Typed(u) /\ SameBlocks(s, u) /\ u.panic \in {NULL, NotAtStart}
  BY <1>1 DEF WalkFound
<1>3. Tree(u) /\ \A m \in Places : Owned(u, f, m) = Owned(s, f, m)
  BY <1>2, SameTree, PlacesAre
<1>4. CASE u.panic # NULL
  <2>1. t = u /\ u.r = NULL
    BY <1>1, <1>4 DEF WalkFound
  <2> QED BY <1>2, <1>4, <2>1 DEF Pushed, SlotPushed
<1>5. CASE u.panic = NULL /\ (u.r # NULL \/ Slot(u, f, n) = 0)
  <2>1. t = Fail(u, NULL)
    BY <1>5
  <2>2. Typed(t) /\ SameBlocks(u, t) /\ t.panic = NULL /\ t.r = NULL
    BY <1>2, <1>5, <2>1, FailTypes
  <2>3. SameBlocks(s, t)
    BY <1>2, <2>2, SameTransitive
  <2>4. ~(n \in Places /\ Owned(s, f, n) # 0)
    <3>1. u.r = NULL => Slot(u, f, n) = Owned(u, f, n) /\ n \in Places
      BY <1>1, <1>5, SlotIsOwned DEF WalkFound
    <3> QED BY <1>1, <1>3, <1>5, <3>1 DEF WalkFound
  <2> QED BY <1>1, <2>2, <2>3, <2>4 DEF Pushed, SlotPushed
<1>6. CASE u.panic = NULL /\ u.r = NULL /\ Slot(u, f, n) # 0
  <2>1. n \in Places /\ Slot(u, f, n) = Owned(u, f, n)
    BY <1>1, <1>6, SlotIsOwned DEF WalkFound
  <2> DEFINE b == Owned(u, f, n)
  <2>2. b \in Blocks \ {0} /\ b = Owned(s, f, n)
    <3>1. b \in Blocks \ Reserved
      BY <1>3, <1>6, <2>1, PlacesAre DEF Tree
    <3> QED BY <1>3, <2>1, <3>1, Numbers
  <2>3. t = flush_block(u, b)
    BY <1>6, <2>1
  <2> HIDE DEF b
  <2>4. Pushed(u, t) /\ (t.panic = NULL => b \notin t.dirty)
    BY <1>2, <1>6, <2>2, <2>3, PushBlock
  <2>5. Pushed(s, t)
    BY <1>2, <2>4, SameTransitive DEF Pushed
  <2> QED BY <1>1, <2>2, <2>4, <2>5 DEF SlotPushed
<1> QED BY <1>4, <1>5, <1>6

LEMMA PushSlot ==
  ASSUME NEW s, Typed(s), Tree(s), s.r = NULL, s.panic \in {NULL, NotAtStart}, NEW f \in Files,
         NEW n \in Nat, NEW u, u = file_block_walk(s, f, n, FALSE),
         NEW t, t = IF u.panic # NULL THEN u
                    ELSE IF u.r # NULL \/ Slot(u, f, n) = 0 THEN Fail(u, NULL)
                    ELSE flush_block(u, Slot(u, f, n))
  PROVE  SlotPushed(s, t, f, n)
<1>1. CASE Stopped(s)
  <2>1. s.panic # NULL
    BY <1>1 DEF Stopped
  <2>2. u = s
    BY <1>1 DEF file_block_walk
  <2>3. t = s /\ SameBlocks(s, s)
    BY <2>1, <2>2 DEF SameBlocks
  <2> QED BY <2>1, <2>3 DEF Pushed, SlotPushed
<1>2. CASE ~Stopped(s)
  <2>1. WalkFound(s, u, f, n) /\ s.panic = NULL
    BY <1>2, WalkTypes DEF Stopped
  <2> QED BY <2>1, PushWalked
<1> QED BY <1>1, <1>2

LEMMA PushData ==
  ASSUME NEW s, Typed(s), Tree(s), ~Stopped(s), NEW f \in Files, NEW t, t = FlushData(s, f)
  PROVE  /\ Pushed(s, t)
         /\ t.panic = NULL => \A m \in Places : Owned(s, f, m) # 0 => Owned(s, f, m) \notin t.dirty
<1> DEFINE size == Struct(s, f).f_size
           seq == Span(0, size)
           n == NumBlocks(0 + size) - (0 \div BLKSIZE)
           Step(x, m) ==
             LET u == file_block_walk(x, f, m, FALSE)
             IN  IF u.panic # NULL THEN u
                 ELSE IF u.r # NULL \/ Slot(u, f, m) = 0 THEN [u EXCEPT !.r = NULL]
                 ELSE flush_block(u, Slot(u, f, m))
           V == {u \in States : Pushed(s, u)}
           P(h) == h = [S \in SUBSET (DOMAIN seq) |->
                          IF S = {} THEN s ELSE Step(h[S \ {Max(S)}], seq[Max(S)])]
           g == CHOOSE h : P(h)
           F == [x \in V \X (1 .. n) |-> Step(x[1], seq[x[2]])]
<1>1. s.panic = NULL /\ s.r = NULL /\ s \in States /\ size \in Nat
  BY Structs DEF Stopped, Typed
<1>2. /\ n \in Nat /\ n = NumBlocks(size) /\ DOMAIN seq = 1 .. n
      /\ \A k \in 1 .. n : seq[k] = k - 1 /\ seq[k] \in Nat
  <2>1. 0 \div BLKSIZE = 0
    <3>1. BLKSIZE \in Nat /\ BLKSIZE > 0 /\ 0 < BLKSIZE * 1 /\ 0 \in Nat /\ 1 \in Nat
      BY LayoutAssumption
    <3>2. 0 \div BLKSIZE < 1 /\ 0 \div BLKSIZE \in Nat
      BY <3>1, Quotients, Quotient
    <3> DEFINE q == 0 \div BLKSIZE
    <3> HIDE DEF q
    <3>3. q < 1 /\ q \in Nat
      BY <3>2 DEF q
    <3>4. q = 0
      BY <3>3
    <3> QED BY <3>4 DEF q
  <2>2. n = NumBlocks(0 + size) - (0 \div BLKSIZE) /\ 0 \in Nat
    OBVIOUS
  <2> HIDE DEF n, size
  <2>3. /\ n \in Nat /\ DOMAIN seq = 1 .. n
        /\ \A k \in 1 .. n : seq[k] \in Nat /\ seq[k] = (0 \div BLKSIZE) + k - 1
    BY <1>1, <2>2, SpanIs
  <2> HIDE DEF seq
  <2>4. NumBlocks(size) \in Nat /\ 0 + size = size
    BY <1>1, Sizing
  <2>5. n = NumBlocks(size)
    BY <2>1, <2>2, <2>4
  <2>6. \A k \in 1 .. n : seq[k] = k - 1
    BY <2>1, <2>3
  <2> QED BY <2>3, <2>5, <2>6
<1>3. t = g[DOMAIN seq]
  BY DEF FlushData, FoldLeft, MapThenFoldSet
<1>a. n = NumBlocks(Struct(s, f).f_size)
  BY <1>2
<1> HIDE DEF seq, n
<1>4. s \in V
  <2>1. SameBlocks(s, s)
    BY DEF SameBlocks
  <2> QED BY <1>1, <2>1 DEF Pushed
<1>5. ASSUME NEW u \in V, NEW k \in 1 .. n
      PROVE  LET z == Step(u, seq[k])
             IN  /\ z \in V
                 /\ \A x \in z.dirty : x \in u.dirty
                 /\ z.panic = NULL =>
                      /\ u.panic = NULL
                      /\ seq[k] \in Places /\ Owned(s, f, seq[k]) # 0 => Owned(s, f, seq[k]) \notin z.dirty
  <2> DEFINE z == Step(u, seq[k])
             i == seq[k]
             y == file_block_walk(u, f, i, FALSE)
  <2>1. i \in Nat
    BY <1>2
  <2>2. Pushed(s, u)
    OBVIOUS
  <2>3. /\ Typed(u) /\ u.r = NULL /\ u.panic \in {NULL, NotAtStart} /\ SameBlocks(s, u)
        /\ Tree(u) /\ \A m \in Places : Owned(u, f, m) = Owned(s, f, m)
    BY <2>2, SameTree, PlacesAre DEF Pushed
  <2>4. z = IF y.panic # NULL THEN y
            ELSE IF y.r # NULL \/ Slot(y, f, i) = 0 THEN Fail(y, NULL)
            ELSE flush_block(y, Slot(y, f, i))
    BY DEF Fail
  <2>5. y = file_block_walk(u, f, i, FALSE)
    OBVIOUS
  <2> HIDE DEF z, i, y
  <2> HIDE DEF Step
  <2>a. SlotPushed(u, z, f, i)
    BY <2>1, <2>3, <2>4, <2>5, PushSlot
  <2>6. /\ Pushed(u, z)
        /\ z.panic = NULL => /\ u.panic = NULL
                             /\ i \in Places /\ Owned(u, f, i) # 0 => Owned(u, f, i) \notin z.dirty
    BY <2>a DEF SlotPushed
  <2>7. Pushed(s, z)
    BY <2>2, <2>6, PushTransitive
  <2>8. z \in V
    BY <2>7 DEF Pushed, Typed
  <2>9. \A x \in z.dirty : x \in u.dirty
    BY <2>6 DEF Pushed, SameBlocks
  <2> HIDE DEF V
  <2> QED BY <2>3, <2>6, <2>8, <2>9 DEF z, i
<1> HIDE DEF Step
<1>6. \E x \in [0 .. n -> V] :
        x[0] = s /\ x[n] = t /\ \A k \in 1 .. n : x[k] = Step(x[k - 1], seq[k])
  <2> HIDE DEF V
  <2>1. F \in [V \X (1 .. n) -> V] /\ \A u \in V, k \in 1 .. n : F[<<u, k>>] = Step(u, seq[k])
    BY <1>5
  <2> HIDE DEF F
  <2>2. \E h : P(h)
    <3>1. PICK h \in [SUBSET (1 .. n) -> V] : FoldsTo(h, 1 .. n, s, F)
      BY <1>2, <1>4, <2>1, FoldExists
    <3>2. ASSUME NEW S \in SUBSET (1 .. n), S # {}
          PROVE  F[<<h[S \ {Max(S)}], Max(S)>>] = Step(h[S \ {Max(S)}], seq[Max(S)])
      <4>1. Max(S) \in 1 .. n /\ h[S \ {Max(S)}] \in V
        BY <1>2, <3>1, <3>2, MostOf
      <4> QED BY <2>1, <4>1
    <3>3. P(h)
      BY <1>2, <3>1, <3>2, ZenonT(30) DEF FoldsTo
    <3> QED BY <3>3
  <2>3. P(g)
    <3> HIDE DEF P
    <3> QED BY <2>2
  <2> HIDE DEF g
  <2>4. g[{}] = s /\ \A S \in SUBSET (1 .. n) : S # {} => g[S] = Step(g[S \ {Max(S)}], seq[Max(S)])
    BY <1>2, <2>3
  <2> HIDE DEF P
  <2>5. \A S \in SUBSET (1 .. n) : S # {} /\ g[S \ {Max(S)}] \in V =>
          g[S] = F[<<g[S \ {Max(S)}], Max(S)>>]
    <3>1. \A S \in SUBSET (1 .. n) : S # {} => Max(S) \in 1 .. n
      BY <1>2, MostOf
    <3> QED BY <2>1, <2>4, <3>1
  <2>6. RunsTo(V, s, n, F, g[1 .. n])
    <3>1. n \in Nat /\ s \in V /\ F \in [V \X (1 .. n) -> V] /\ g[{}] = s
      BY <1>2, <1>4, <2>1, <2>4
    <3> QED BY <2>5, <3>1, FoldRuns
  <2>7. PICK x \in [0 .. n -> V] :
          x[0] = s /\ x[n] = g[1 .. n] /\ \A k \in 1 .. n : x[k] = F[<<x[k - 1], k>>]
    BY <2>6 DEF RunsTo
  <2>8. \A k \in 1 .. n : k - 1 \in 0 .. n /\ x[k - 1] \in V
    BY <1>2
  <2>9. \A k \in 1 .. n : x[k] = Step(x[k - 1], seq[k])
    BY <2>1, <2>7, <2>8
  <2>10. x[n] = t
    BY <1>2, <1>3, <2>7
  <2> QED BY <2>7, <2>9, <2>10
<1>7. PICK x \in [0 .. n -> V] :
        x[0] = s /\ x[n] = t /\ \A k \in 1 .. n : x[k] = Step(x[k - 1], seq[k])
  BY <1>6
<1> DEFINE Done(k) == x[k].panic = NULL =>
                        \A m \in Places : m < k /\ Owned(s, f, m) # 0 => Owned(s, f, m) \notin x[k].dirty
           Q == {k \in 0 .. n : Done(k)}
<1>8. 0 \in Q
  <2>1. \A m \in Places : ~(m < 0)
    BY PlacesAre
  <2> QED BY <1>2, <2>1
<1>9. ASSUME NEW k \in 1 .. n, k - 1 \in Q PROVE k \in Q
  <2> DEFINE u == x[k - 1]
             z == x[k]
             j == k - 1
  <2>1. j \in 0 .. n /\ k \in 0 .. n /\ j \in Nat /\ k = j + 1
    BY <1>2
  <2>2. u \in V /\ z = Step(u, seq[k])
    BY <1>7, <2>1
  <2>3. u.panic = NULL =>
          \A m \in Places : m < j /\ Owned(s, f, m) # 0 => Owned(s, f, m) \notin u.dirty
    BY <1>9
  <2>4. seq[k] = j
    BY <1>2
  <2>5. /\ \A y \in z.dirty : y \in u.dirty
        /\ z.panic = NULL => /\ u.panic = NULL
                             /\ j \in Places /\ Owned(s, f, j) # 0 => Owned(s, f, j) \notin z.dirty
    <3> HIDE DEF V, u, z, j
    <3> QED BY <1>5, <2>2, <2>4
  <2> HIDE DEF u, z, j, V
  <2>6. ASSUME z.panic = NULL, NEW m \in Places, m < k, Owned(s, f, m) # 0
        PROVE  Owned(s, f, m) \notin z.dirty
    <3>1. m \in Nat /\ (m < j \/ m = j)
      BY <2>1, <2>6, PlacesAre
    <3> QED BY <2>3, <2>5, <2>6, <3>1
  <2> QED BY <2>1, <2>6 DEF z
<1>10. n \in Q
  <2>1. n \in 0 .. n
    BY <1>2
  <2> HIDE DEF Q
  <2> QED BY <1>2, <1>8, <1>9, <2>1, UpTo
<1>11. Pushed(s, t)
  <2>1. n \in 0 .. n
    BY <1>2
  <2>2. t \in V
    BY <1>7, <2>1
  <2> QED BY <2>2
<1>12. \A m \in Places : Owned(s, f, m) # 0 => m < n
  BY <1>a, PlacesAre DEF Tree
<1> QED BY <1>7, <1>10, <1>11, <1>12

LEMMA FlushFileTypes ==
  ASSUME NEW s, Typed(s), Tree(s), ~Stopped(s), NEW f \in Files, NEW t, t = file_flush(s, f)
  PROVE  Pushed(s, t) /\ (t.panic = NULL => OnDisk(t, f))
<1> DEFINE u == FlushData(s, f)
           v == flush_block(u, DirBlock)
           ind == Struct(v, f).f_indirect
<1>1. t = IF ind = 0 THEN v ELSE flush_block(v, ind)
  BY DEF file_flush
<1>2. /\ Pushed(s, u)
      /\ u.panic = NULL => \A m \in Places : Owned(s, f, m) # 0 => Owned(s, f, m) \notin u.dirty
  BY PushData
<1> HIDE DEF u
<1>3. /\ Pushed(u, v)
      /\ v.panic = NULL => u.panic = NULL /\ \A g \in Files : DirOnDisk(v, g)
  BY <1>2, PushBlock, Numbers DEF Pushed
<1> HIDE DEF v
<1>4. Pushed(s, v) /\ \A x \in v.dirty : x \in u.dirty
  BY <1>2, <1>3, PushTransitive DEF Pushed, SameBlocks
<1>5. /\ Tree(v) /\ \A m \in BlockNumbers : Owned(v, f, m) = Owned(s, f, m)
      /\ Owned(v, f, -1) = ind
  BY <1>4, SameTree DEF Pushed, Owned
<1>6. /\ Pushed(v, t) /\ \A x \in t.dirty : x \in v.dirty
      /\ t.panic = NULL => /\ v.panic = NULL
                           /\ ind # 0 => ind \notin t.dirty
  <2>1. CASE ind = 0
    <3>1. t = v
      BY <1>1, <2>1
    <3>2. SameBlocks(v, v)
      BY DEF SameBlocks
    <3> QED BY <1>3, <2>1, <3>1, <3>2 DEF Pushed
  <2>2. CASE ind # 0
    <3>1. ind \in Blocks \ {0}
      BY <1>5, <2>2, PlacesAre, Numbers DEF Tree
    <3>2. t = flush_block(v, ind)
      BY <1>1, <2>2
    <3> HIDE DEF ind
    <3>3. Pushed(v, t) /\ (t.panic = NULL => v.panic = NULL /\ ind \notin t.dirty)
      BY <1>3, <3>1, <3>2, PushBlock DEF Pushed
    <3> QED BY <3>3 DEF Pushed, SameBlocks
  <2> QED BY <2>1, <2>2
<1>7. /\ Pushed(s, t) /\ \A m \in BlockNumbers : Owned(t, f, m) = Owned(s, f, m)
      /\ \A g \in Files : DirOnDisk(v, g) => DirOnDisk(t, g)
  BY <1>4, <1>6, PushTransitive, SameTree DEF Pushed, SameBlocks
<1>8. ASSUME t.panic = NULL PROVE OnDisk(t, f)
  <2>1. DirOnDisk(t, f)
    BY <1>3, <1>6, <1>7, <1>8
  <2>2. ASSUME NEW m \in BlockNumbers, Owned(t, f, m) # 0 PROVE Owned(t, f, m) \notin t.dirty
    <3>1. CASE m = -1
      BY <1>5, <1>6, <1>7, <1>8, <2>2, <3>1, PlacesAre
    <3>2. CASE m \in Places
      BY <1>2, <1>3, <1>4, <1>6, <1>7, <1>8, <2>2, <3>2
    <3> QED BY <3>1, <3>2, PlacesAre
  <2> QED BY <2>1, <2>2 DEF OnDisk
<1> QED BY <1>7, <1>8

LEMMA SyncTypes ==
  ASSUME NEW s, Typed(s), Tree(s), ~Stopped(s), NEW t, t = fs_sync(s)
  PROVE  Pushed(s, t) /\ t.panic = NULL /\ \A f \in Files : OnDisk(t, f)
<1> DEFINE n == NBLOCKS - 1
           seq == [b \in 1 .. NBLOCKS - 1 |-> b]
           V == {u \in States : Pushed(s, u) /\ u.panic = NULL}
           P(h) == h = [S \in SUBSET (DOMAIN seq) |->
                          IF S = {} THEN s ELSE flush_block(h[S \ {Max(S)}], seq[Max(S)])]
           g == CHOOSE h : P(h)
           F == [x \in V \X (1 .. n) |-> flush_block(x[1], seq[x[2]])]
<1>1. s.panic = NULL /\ s.r = NULL /\ s \in States
  BY DEF Stopped, Typed
<1>2. /\ n \in Nat /\ DOMAIN seq = 1 .. n /\ DirBlock \in 1 .. n
      /\ \A k \in 1 .. n : seq[k] = k /\ k \in Blocks \ {0}
      /\ \A b \in Blocks \ {0} : b \in 1 .. n
  BY LayoutAssumption DEF Blocks, DirBlock
<1>3. t = g[DOMAIN seq]
  BY DEF fs_sync, FoldLeft, MapThenFoldSet
<1> HIDE DEF seq, n
<1>4. s \in V
  <2>1. SameBlocks(s, s)
    BY DEF SameBlocks
  <2> QED BY <1>1, <2>1 DEF Pushed
<1>5. ASSUME NEW u \in V, NEW k \in 1 .. n
      PROVE  LET z == flush_block(u, seq[k])
             IN  /\ z \in V /\ Pushed(u, z) /\ k \notin z.dirty
                 /\ k = DirBlock => \A f \in Files : DirOnDisk(z, f)
  <2> DEFINE z == flush_block(u, seq[k])
  <2>1. Pushed(s, u) /\ u.panic = NULL /\ Typed(u) /\ u.r = NULL /\ ~Stopped(u)
    BY DEF Pushed, Stopped
  <2>2. z = flush_block(u, k) /\ k \in Blocks \ {0}
    BY <1>2
  <2> HIDE DEF z
  <2>3. /\ Pushed(u, z) /\ k \notin z.dirty /\ z.panic = NULL
        /\ k = DirBlock => \A f \in Files : DirOnDisk(z, f)
    <3>1. BlockFlushed(u, z, k)
      BY <2>1, <2>2, FlushTypes
    <3>2. SameBlocks(u, z)
      BY <3>1, FlushedSame
    <3> QED BY <3>1, <3>2 DEF BlockFlushed, Pushed
  <2>4. z \in V
    BY <2>1, <2>3, PushTransitive DEF Pushed, Typed
  <2> HIDE DEF V
  <2> QED BY <2>3, <2>4 DEF z
<1>6. \E x \in [0 .. n -> V] :
        x[0] = s /\ x[n] = t /\ \A k \in 1 .. n : x[k] = flush_block(x[k - 1], seq[k])
  <2> HIDE DEF V
  <2>1. F \in [V \X (1 .. n) -> V] /\ \A u \in V, k \in 1 .. n : F[<<u, k>>] = flush_block(u, seq[k])
    BY <1>5
  <2> HIDE DEF F
  <2>2. \E h : P(h)
    <3>1. PICK h \in [SUBSET (1 .. n) -> V] : FoldsTo(h, 1 .. n, s, F)
      BY <1>2, <1>4, <2>1, FoldExists
    <3>2. ASSUME NEW S \in SUBSET (1 .. n), S # {}
          PROVE  F[<<h[S \ {Max(S)}], Max(S)>>] = flush_block(h[S \ {Max(S)}], seq[Max(S)])
      <4>1. Max(S) \in 1 .. n /\ h[S \ {Max(S)}] \in V
        BY <1>2, <3>1, <3>2, MostOf
      <4> QED BY <2>1, <4>1
    <3>3. P(h)
      BY <1>2, <3>1, <3>2, ZenonT(30) DEF FoldsTo
    <3> QED BY <3>3
  <2>3. P(g)
    <3> HIDE DEF P
    <3> QED BY <2>2
  <2> HIDE DEF g
  <2>4. /\ g[{}] = s
        /\ \A S \in SUBSET (1 .. n) : S # {} => g[S] = flush_block(g[S \ {Max(S)}], seq[Max(S)])
    BY <1>2, <2>3
  <2> HIDE DEF P
  <2>5. \A S \in SUBSET (1 .. n) : S # {} /\ g[S \ {Max(S)}] \in V =>
          g[S] = F[<<g[S \ {Max(S)}], Max(S)>>]
    <3>1. \A S \in SUBSET (1 .. n) : S # {} => Max(S) \in 1 .. n
      BY <1>2, MostOf
    <3> QED BY <2>1, <2>4, <3>1
  <2>6. RunsTo(V, s, n, F, g[1 .. n])
    <3>1. n \in Nat /\ s \in V /\ F \in [V \X (1 .. n) -> V] /\ g[{}] = s
      BY <1>2, <1>4, <2>1, <2>4
    <3> QED BY <2>5, <3>1, FoldRuns
  <2>7. PICK x \in [0 .. n -> V] :
          x[0] = s /\ x[n] = g[1 .. n] /\ \A k \in 1 .. n : x[k] = F[<<x[k - 1], k>>]
    BY <2>6 DEF RunsTo
  <2>8. \A k \in 1 .. n : k - 1 \in 0 .. n /\ x[k - 1] \in V
    BY <1>2
  <2>9. \A k \in 1 .. n : x[k] = flush_block(x[k - 1], seq[k])
    BY <2>1, <2>7, <2>8
  <2>10. x[n] = t
    BY <1>2, <1>3, <2>7
  <2> QED BY <2>7, <2>9, <2>10
<1>7. PICK x \in [0 .. n -> V] :
        x[0] = s /\ x[n] = t /\ \A k \in 1 .. n : x[k] = flush_block(x[k - 1], seq[k])
  BY <1>6
<1> DEFINE Done(k) == /\ \A b \in 1 .. k : b \notin x[k].dirty
                      /\ DirBlock <= k => \A f \in Files : DirOnDisk(x[k], f)
           Q == {k \in 0 .. n : Done(k)}
<1>8. 0 \in Q
  <2>1. ~(DirBlock <= 0) /\ 1 .. 0 = {} /\ 0 \in 0 .. n
    BY <1>2, Numbers
  <2> QED BY <2>1
<1>9. ASSUME NEW k \in 1 .. n, k - 1 \in Q PROVE k \in Q
  <2> DEFINE u == x[k - 1]
             z == x[k]
             j == k - 1
  <2>1. j \in 0 .. n /\ k \in 0 .. n /\ j \in Nat /\ k = j + 1 /\ k \in Nat
    BY <1>2
  <2>2. u \in V /\ z = flush_block(u, seq[k])
    BY <1>7, <2>1
  <2>3. /\ \A b \in 1 .. j : b \notin u.dirty
        /\ DirBlock <= j => \A f \in Files : DirOnDisk(u, f)
    BY <1>9
  <2>4. /\ Pushed(u, z) /\ k \notin z.dirty
        /\ k = DirBlock => \A f \in Files : DirOnDisk(z, f)
    <3> HIDE DEF V, u, z, j
    <3> QED BY <1>5, <2>2
  <2> HIDE DEF u, z, j, V
  <2>5. \A y \in z.dirty : y \in u.dirty
    BY <2>4 DEF Pushed, SameBlocks
  <2>6. \A b \in 1 .. k : b \notin z.dirty
    <3>1. \A b \in 1 .. k : b = k \/ b \in 1 .. j
      BY <2>1
    <3> QED BY <2>3, <2>4, <2>5, <3>1
  <2>7. DirBlock <= k => \A f \in Files : DirOnDisk(z, f)
    <3>1. DirBlock <= k => DirBlock = k \/ DirBlock <= j
      BY <2>1, Numbers
    <3> QED BY <2>3, <2>4, <3>1 DEF Pushed, SameBlocks
  <2> QED BY <2>1, <2>6, <2>7 DEF z
<1>10. n \in Q
  <2>1. n \in 0 .. n
    BY <1>2
  <2> HIDE DEF Q
  <2> QED BY <1>2, <1>8, <1>9, <2>1, UpTo
<1>11. Pushed(s, t) /\ t.panic = NULL
  <2>1. n \in 0 .. n
    BY <1>2
  <2>2. t \in V
    BY <1>7, <2>1
  <2> QED BY <2>2
<1>12. Tree(t)
  BY <1>11, SameTree DEF Pushed
<1>13. ASSUME NEW f \in Files PROVE OnDisk(t, f)
  <2>1. DirOnDisk(t, f)
    <3>1. DirBlock <= n
      BY <1>2
    <3> QED BY <1>7, <1>10, <3>1
  <2>2. \A b \in 1 .. n : b \notin t.dirty
    BY <1>7, <1>10
  <2>3. \A m \in BlockNumbers : Owned(t, f, m) # 0 => Owned(t, f, m) \in Blocks \ {0}
    BY <1>12, Numbers DEF Tree
  <2> QED BY <1>2, <2>1, <2>2, <2>3 DEF OnDisk
<1> QED BY <1>11, <1>13

-----------------------------------------------------------------------------
(***************************************************************************)
(* The requests keep the invariant                                         *)
(***************************************************************************)

\* A place within a file, and the block and the word where it is
LEMMA PlaceOf ==
  ASSUME NEW i \in 0 .. MaxSize - 1, i < Capacity
  PROVE  /\ i \in Nat /\ i \div BLKSIZE \in Places /\ i \div BLKSIZE \in BlockNumbers
         /\ i \div BLKSIZE >= 0 /\ i % BLKSIZE \in Words
         /\ (i \div BLKSIZE) * BLKSIZE + (i % BLKSIZE) = i
         /\ \A size \in Nat : i < size => i \div BLKSIZE < NumBlocks(size)
         /\ \A off \in Nat : off <= i => off \div BLKSIZE <= i \div BLKSIZE
<1>1. i \in Nat
  BY LayoutAssumption
<1>2. i \div BLKSIZE \in Places /\ i \div BLKSIZE \in Nat
  BY <1>1, Sizing, Quotient
<1>3. i \div BLKSIZE \in BlockNumbers /\ i \div BLKSIZE >= 0
  BY <1>2, PlacesAre
<1> QED BY <1>1, <1>2, <1>3, Sizing, Quotient, Quotients

LEMMA OthersStay ==
  ASSUME NEW s, NEW t, NEW f \in Files, NEW g \in Files \ {f}, Elsewhere(s, t, f)
  PROVE  /\ OnDisk(s, g) => OnDisk(t, g)
         /\ \A v : \A i \in 0 .. MaxSize - 1 :
              i < Capacity /\ IsThere(s, g, i, v) => IsThere(t, g, i, v)
<1>1. Struct(t, g) = Struct(s, g) /\ (DirOnDisk(s, g) => DirOnDisk(t, g))
  BY DEF Elsewhere
<1>2. \A n \in BlockNumbers :
        /\ Owned(t, g, n) = Owned(s, g, n)
        /\ Owned(s, g, n) # 0 =>
             /\ ViewOf(t, Owned(s, g, n)) = ViewOf(s, Owned(s, g, n))
             /\ Owned(s, g, n) \in t.dirty => Owned(s, g, n) \in s.dirty
  BY DEF Elsewhere
<1>3. ASSUME NEW i \in 0 .. MaxSize - 1, NEW v, i < Capacity, IsThere(s, g, i, v)
      PROVE  IsThere(t, g, i, v)
  <2>1. i \div BLKSIZE \in BlockNumbers
    BY <1>3, PlaceOf
  <2> DEFINE m == i \div BLKSIZE
             w == i % BLKSIZE
  <2>2. i < Struct(s, g).f_size /\ Owned(s, g, m) # 0 /\ ViewOf(s, Owned(s, g, m))[w] = v
    BY <1>3 DEF IsThere
  <2> HIDE DEF w
  <2>3. i < Struct(t, g).f_size /\ Owned(t, g, m) # 0 /\ ViewOf(t, Owned(t, g, m))[w] = v
    BY <1>1, <1>2, <2>1, <2>2
  <2> QED BY <2>3 DEF IsThere, w
<1>4. OnDisk(s, g) => OnDisk(t, g)
  BY <1>1, <1>2 DEF OnDisk
<1> QED BY <1>3, <1>4

\* A step that the server does not see
Unseen(s, t) ==
  /\ \A x \in Blocks : ViewOf(t, x) = ViewOf(s, x)
  /\ t.cache[DirBlock] = s.cache[DirBlock] /\ Bitmap(t) = Bitmap(s)
  /\ \A x \in t.dirty : x \in s.dirty
  /\ \A f \in Files : DirOnDisk(s, f) => DirOnDisk(t, f)

LEMMA AllStay ==
  ASSUME NEW s, NEW t, Tree(s), Unseen(s, t)
  PROVE  /\ Tree(t)
         /\ \A g \in Files : OnDisk(s, g) => OnDisk(t, g)
         /\ \A v : \A g \in Files, i \in 0 .. MaxSize - 1 :
              i < Capacity /\ IsThere(s, g, i, v) => IsThere(t, g, i, v)
<1>1. \A g \in Files : Struct(t, g) = Struct(s, g)
  BY DEF Unseen, Struct
<1>2. \A g \in Files : Struct(s, g).f_indirect # 0 =>
        ViewOf(t, Struct(s, g).f_indirect) = ViewOf(s, Struct(s, g).f_indirect)
  BY TreeInds DEF Inds, Unseen
<1>3. \A g \in Files, n \in BlockNumbers : Owned(t, g, n) = Owned(s, g, n)
  BY <1>1, <1>2, OwnedSame
<1>4. Tree(t)
  BY <1>1, <1>3, TreeStays DEF Unseen, Tree
<1>5. \A g \in Files, n \in BlockNumbers : Owned(s, g, n) # 0 => Owned(s, g, n) \in Blocks
  BY DEF Tree
<1>6. \A x \in Blocks : ViewOf(t, x) = ViewOf(s, x) /\ (x \in t.dirty => x \in s.dirty)
  BY DEF Unseen
<1>7. ASSUME NEW g \in Files, NEW i \in 0 .. MaxSize - 1, NEW v, i < Capacity, IsThere(s, g, i, v)
      PROVE  IsThere(t, g, i, v)
  <2>1. i \div BLKSIZE \in BlockNumbers
    BY <1>7, PlaceOf
  <2> DEFINE m == i \div BLKSIZE
             w == i % BLKSIZE
  <2>2. i < Struct(s, g).f_size /\ Owned(s, g, m) # 0 /\ ViewOf(s, Owned(s, g, m))[w] = v
    BY <1>7 DEF IsThere
  <2> HIDE DEF w
  <2>3. i < Struct(t, g).f_size /\ Owned(t, g, m) # 0 /\ ViewOf(t, Owned(t, g, m))[w] = v
    BY <1>1, <1>3, <1>5, <1>6, <2>1, <2>2
  <2> QED BY <2>3 DEF IsThere, w
<1>8. ASSUME NEW g \in Files, OnDisk(s, g) PROVE OnDisk(t, g)
  <2>1. DirOnDisk(t, g)
    BY <1>8 DEF OnDisk, Unseen
  <2>2. \A n \in BlockNumbers : Owned(s, g, n) # 0 => Owned(s, g, n) \notin s.dirty
    BY <1>8 DEF OnDisk
  <2> QED BY <1>3, <1>5, <1>6, <2>1, <2>2 DEF OnDisk
<1> QED BY <1>4, <1>7, <1>8

LEMMA NotSeen ==
  ASSUME NEW s, NEW t, SameBlocks(s, t)
  PROVE  Unseen(s, t)
<1> QED BY DEF SameBlocks, Unseen

\* The answer to a request
LEMMA Answered ==
  ASSUME NEW s, Good(s), NEW t, t = Fail(s, NULL), NEW w, Shown(s, w),
         w \in [Files -> [0 .. MaxSize - 1 -> Values \cup {NULL}]],
         NEW D \in SUBSET Files, s.panic = NULL => \A f \in D : OnDisk(s, f)
  PROVE  Intact(t, w, D)
<1>1. Typed(t) /\ SameBlocks(s, t) /\ t.panic = s.panic /\ t.dirty = s.dirty /\ t.r = NULL
  BY FailTypes DEF Good
<1>2. ASSUME s.panic # Full
      PROVE  /\ Tree(t)
             /\ \A g \in Files : OnDisk(s, g) => OnDisk(t, g)
             /\ \A v : \A g \in Files, i \in 0 .. MaxSize - 1 :
                  i < Capacity /\ IsThere(s, g, i, v) => IsThere(t, g, i, v)
  <2>1. Tree(s)
    BY <1>2 DEF Good
  <2> QED BY <1>1, <2>1, NotSeen, AllStay
<1>3. Good(t)
  BY <1>1, <1>2 DEF Good, SameBlocks
<1>4. Shown(t, w)
  BY <1>1, <1>2 DEF Shown
<1> QED BY <1>1, <1>2, <1>3, <1>4, NotFull DEF Intact

\* A request, from its effects on the server and on what was written
LEMMA ServedWell ==
  ASSUME NEW s, Serve(s), Good(s), Shown(s, written'),
         written' \in [Files -> [0 .. MaxSize - 1 -> Values \cup {NULL}]],
         flushed' \in SUBSET Files, s.panic = NULL => \A f \in flushed' : OnDisk(s, f)
  PROVE  BlocksInv'
<1> DEFINE t == fs'
           w == written'
           D == flushed'
<1>1. t = Fail(s, NULL)
  BY DEF Serve, Fail
<1>2. Shown(s, w) /\ w \in [Files -> [0 .. MaxSize - 1 -> Values \cup {NULL}]] /\ D \in SUBSET Files
      /\ (s.panic = NULL => \A f \in D : OnDisk(s, f))
  OBVIOUS
<1> HIDE DEF t, w, D
<1>3. Intact(t, w, D)
  BY <1>1, <1>2, Answered
<1> QED BY <1>3 DEF BlocksInv, t, w, D

\* What was written, after a request for f
LEMMA ShownAfter ==
  ASSUME NEW s, NEW t, NEW f \in Files, s.panic # Full, NEW w, Shown(s, w), NEW w2,
         \A g \in Files \ {f} : w2[g] = w[g],
         t.panic # Full => Elsewhere(s, t, f),
         t.panic # Full => \A i \in 0 .. MaxSize - 1 :
           w2[f][i] # NULL => i < Capacity /\ IsThere(t, f, i, w2[f][i])
  PROVE  Shown(t, w2)
<1> SUFFICES ASSUME t.panic # Full, NEW g \in Files, NEW i \in 0 .. MaxSize - 1, w2[g][i] # NULL
             PROVE  i < Capacity /\ IsThere(t, g, i, w2[g][i])
  BY DEF Shown
<1>1. CASE g = f
  BY <1>1
<1>2. CASE g # f
  <2>1. g \in Files \ {f} /\ w2[g][i] = w[g][i]
    BY <1>2
  <2>2. i < Capacity /\ IsThere(s, g, i, w[g][i])
    BY <2>1 DEF Shown
  <2> QED BY <2>1, <2>2, OthersStay
<1> QED BY <1>1, <1>2

\* What is at a place stays there when its block stays.
LEMMA PlaceStays ==
  ASSUME NEW s, NEW t, NEW f \in Files, NEW i \in 0 .. MaxSize - 1, i < Capacity,
         NEW v, IsThere(s, f, i, v), i < Struct(t, f).f_size,
         Owned(t, f, i \div BLKSIZE) = Owned(s, f, i \div BLKSIZE),
         ViewOf(t, Owned(s, f, i \div BLKSIZE))[i % BLKSIZE]
           = ViewOf(s, Owned(s, f, i \div BLKSIZE))[i % BLKSIZE]
  PROVE  IsThere(t, f, i, v)
<1> QED BY DEF IsThere

LEMMA Serving ==
  ASSUME BlocksInv, NEW s, Serve(s)
  PROVE  /\ Good(fs) /\ Typed(fs) /\ Tree(fs) /\ ~Stopped(fs) /\ fs.panic # Full /\ Shown(fs, written)
         /\ written \in [Files -> [0 .. MaxSize - 1 -> Values \cup {NULL}]]
         /\ flushed \in SUBSET Files /\ \A f \in flushed : OnDisk(fs, f)
<1>1. fs.panic = NULL /\ fs.panic # Full
  BY NotFull DEF Serve
<1> QED BY <1>1 DEF BlocksInv, Intact, Good, Stopped

LEMMA SetSizeWell ==
  ASSUME BlocksInv, NEW f \in Files, NEW size \in Sizes, SetSize(f, size)
  PROVE  BlocksInv'
<1> DEFINE t == file_set_size(fs, f, size)
<1>1. Serve(t)
  BY DEF SetSize
<1>2. size \in Nat /\ size <= MaxSize
  BY BoundsAssumption, LayoutAssumption
<1> HIDE DEF t
<1>3. Resized(fs, t, f, size)
  BY <1>1, <1>2, Serving, SetSizeTypes DEF t
<1>4. Good(t) /\ t.panic # Full
  BY <1>3, NotFull DEF Resized, Good
<1>5. /\ written' \in [Files -> [0 .. MaxSize - 1 -> Values \cup {NULL}]]
      /\ \A g \in Files \ {f} : written'[g] = written[g]
      /\ \A i \in 0 .. MaxSize - 1 : written'[f][i] # NULL => i < size /\ written'[f][i] = written[f][i]
  BY <1>1, Serving DEF SetSize
<1>6. ASSUME NEW i \in 0 .. MaxSize - 1, written'[f][i] # NULL
      PROVE  i < Capacity /\ IsThere(t, f, i, written'[f][i])
  <2>1. i < size /\ written'[f][i] = written[f][i]
    BY <1>5, <1>6
  <2>2. i < Capacity /\ IsThere(fs, f, i, written[f][i])
    BY <1>1, <1>6, <2>1, Serving DEF Shown
  <2>3. i \div BLKSIZE \in Places /\ i \div BLKSIZE < NumBlocks(size)
    BY <1>2, <2>1, <2>2, PlaceOf
  <2>4. i < Struct(t, f).f_size
    <3>1. Struct(t, f).f_size \in Nat /\ Struct(t, f).f_size >= size /\ i \in Nat
      BY <1>3, <2>2, PlaceOf, Structs DEF Resized
    <3> QED BY <1>2, <2>1, <3>1
  <2>5. Owned(fs, f, i \div BLKSIZE) # 0
    BY <2>2 DEF IsThere
  <2>6. /\ Owned(t, f, i \div BLKSIZE) = Owned(fs, f, i \div BLKSIZE)
        /\ ViewOf(t, Owned(fs, f, i \div BLKSIZE)) = ViewOf(fs, Owned(fs, f, i \div BLKSIZE))
    BY <1>3, <2>3, <2>5 DEF Resized
  <2> QED BY <2>1, <2>2, <2>4, <2>6, PlaceStays
<1>7. Shown(t, written')
  BY <1>1, <1>3, <1>5, <1>6, Serving, ShownAfter DEF Resized
<1>8. flushed' \in SUBSET Files /\ \A g \in flushed' : OnDisk(t, g)
  <2>1. flushed' = flushed \ {f}
    BY DEF SetSize
  <2> QED BY <1>1, <1>3, <2>1, Serving, OthersStay DEF Resized
<1> QED BY <1>1, <1>4, <1>5, <1>7, <1>8, ServedWell

LEMMA ReadWell ==
  ASSUME BlocksInv, NEW f \in Files, NEW x \in Reads, Read(f, x[2], x[1])
  PROVE  BlocksInv'
<1> DEFINE t == file_read(fs, f, x[2], x[1])
<1>1. Serve(t) /\ written' = written /\ flushed' = flushed \ {f}
  BY DEF Read
<1>2. x[1] \in Nat /\ x[2] \in Nat
  BY BoundsAssumption
<1> HIDE DEF t
<1>3. Outcome(fs, t, f)
  BY <1>1, <1>2, Serving, ReadTypes DEF t
<1>4. Good(t) /\ (t.panic # Full => Elsewhere(fs, t, f) /\ Grown(fs, t, f))
  BY <1>3 DEF Outcome
<1>5. ASSUME t.panic # Full, NEW i \in 0 .. MaxSize - 1, written[f][i] # NULL
      PROVE  i < Capacity /\ IsThere(t, f, i, written[f][i])
  <2>1. i < Capacity /\ IsThere(fs, f, i, written[f][i])
    BY <1>1, <1>5, Serving DEF Shown
  <2>2. i \div BLKSIZE \in BlockNumbers /\ i \div BLKSIZE >= 0
    BY <2>1, PlaceOf
  <2>3. i < Struct(t, f).f_size /\ Owned(fs, f, i \div BLKSIZE) # 0
    BY <1>4, <1>5, <2>1 DEF Grown, IsThere
  <2>4. /\ Owned(t, f, i \div BLKSIZE) = Owned(fs, f, i \div BLKSIZE)
        /\ ViewOf(t, Owned(fs, f, i \div BLKSIZE)) = ViewOf(fs, Owned(fs, f, i \div BLKSIZE))
    BY <1>4, <1>5, <2>2, <2>3 DEF Grown
  <2> QED BY <2>1, <2>3, <2>4, PlaceStays
<1>6. Shown(t, written)
  BY <1>1, <1>4, <1>5, Serving, ShownAfter
<1>7. flushed' \in SUBSET Files /\ (t.panic = NULL => \A g \in flushed' : OnDisk(t, g))
  BY <1>1, <1>4, Serving, OthersStay, NotFull
<1>8. /\ Shown(t, written')
      /\ written' \in [Files -> [0 .. MaxSize - 1 -> Values \cup {NULL}]]
  BY <1>1, <1>6, Serving
<1> QED BY <1>1, <1>4, <1>7, <1>8, ServedWell

LEMMA FlushWell ==
  ASSUME BlocksInv, NEW f \in Files, Flush(f)
  PROVE  BlocksInv'
<1> DEFINE t == file_flush(fs, f)
<1>1. Serve(t) /\ written' = written /\ flushed' = flushed \cup {f}
  BY DEF Flush
<1> HIDE DEF t
<1>2. Pushed(fs, t) /\ (t.panic = NULL => OnDisk(t, f))
  BY <1>1, Serving, FlushFileTypes DEF t
<1>3. Typed(t) /\ t.panic \in {NULL, NotAtStart} /\ Unseen(fs, t)
  BY <1>2, NotSeen DEF Pushed
<1>4. /\ Tree(t)
      /\ \A g \in Files : OnDisk(fs, g) => OnDisk(t, g)
      /\ \A v : \A g \in Files, i \in 0 .. MaxSize - 1 :
           i < Capacity /\ IsThere(fs, g, i, v) => IsThere(t, g, i, v)
  BY <1>1, <1>3, Serving, AllStay
<1>5. Good(t)
  BY <1>3, <1>4, NotFull DEF Good
<1>6. Shown(t, written)
  BY <1>1, <1>4, Serving DEF Shown
<1>7. flushed' \in SUBSET Files /\ (t.panic = NULL => \A g \in flushed' : OnDisk(t, g))
  BY <1>1, <1>2, <1>4, Serving
<1>8. /\ Shown(t, written')
      /\ written' \in [Files -> [0 .. MaxSize - 1 -> Values \cup {NULL}]]
  BY <1>1, <1>6, Serving
<1> QED BY <1>1, <1>5, <1>7, <1>8, ServedWell

LEMMA SyncWell ==
  ASSUME BlocksInv, Sync
  PROVE  BlocksInv'
<1> DEFINE t == fs_sync(fs)
<1>1. Serve(t) /\ written' = written /\ flushed' = Files
  BY DEF Sync
<1> HIDE DEF t
<1>2. Pushed(fs, t) /\ \A g \in Files : OnDisk(t, g)
  BY <1>1, Serving, SyncTypes DEF t
<1>3. Typed(t) /\ t.panic \in {NULL, NotAtStart} /\ Unseen(fs, t)
  BY <1>2, NotSeen DEF Pushed
<1>4. /\ Tree(t)
      /\ \A v : \A g \in Files, i \in 0 .. MaxSize - 1 :
           i < Capacity /\ IsThere(fs, g, i, v) => IsThere(t, g, i, v)
  BY <1>1, <1>3, Serving, AllStay
<1>5. Good(t)
  BY <1>3, <1>4, NotFull DEF Good
<1>6. Shown(t, written)
  BY <1>1, <1>4, Serving DEF Shown
<1>7. flushed' \in SUBSET Files /\ (t.panic = NULL => \A g \in flushed' : OnDisk(t, g))
  BY <1>1, <1>2
<1>8. /\ Shown(t, written')
      /\ written' \in [Files -> [0 .. MaxSize - 1 -> Values \cup {NULL}]]
  BY <1>1, <1>6, Serving
<1> QED BY <1>1, <1>5, <1>7, <1>8, ServedWell

LEMMA WriteWell ==
  ASSUME BlocksInv, NEW f \in Files, NEW x \in Writes, NEW v \in Values, Write(f, x[2], x[1], v)
  PROVE  BlocksInv'
<1> DEFINE off == x[1]
           count == x[2]
           t == file_write(fs, f, count, off, v)
<1>1. /\ Serve(t) /\ flushed' = flushed \ {f}
      /\ written' = [written EXCEPT ![f] = [i \in 0 .. MaxSize - 1 |->
                       IF i \in off .. off + count - 1 /\ i < Capacity
                       THEN IF fs'.panic = NULL THEN v ELSE NULL
                       ELSE @[i]]]
  BY DEF Write
<1>2. off \in Nat /\ count \in Nat /\ off + count <= MaxSize /\ v \in Nat /\ v # NULL
  BY BoundsAssumption, ValuesAssumption, LayoutAssumption
<1> HIDE DEF t, off, count
<1>3. Written(fs, t, f, off, count, v)
  BY <1>1, <1>2, Serving, WriteTypes DEF t
<1>4. Good(t) /\ (t.panic # Full => Elsewhere(fs, t, f))
  BY <1>3 DEF Written
<1>5. fs'.panic = t.panic
  <2>1. t \in States
    BY <1>4 DEF Good, Typed
  <2>2. fs' = Fail(t, NULL)
    BY <1>1 DEF Serve, Fail
  <2> DEFINE z == fs'
  <2>3. z = Fail(t, NULL)
    BY <2>2
  <2> HIDE DEF z
  <2>4. z.panic = t.panic
    BY <1>4, <2>3, FailTypes DEF Good
  <2> QED BY <2>4 DEF z
<1>6. /\ written' \in [Files -> [0 .. MaxSize - 1 -> Values \cup {NULL}]]
      /\ \A g \in Files \ {f} : written'[g] = written[g]
      /\ \A i \in 0 .. MaxSize - 1 : written'[f][i] # NULL =>
           \/ i \in off .. off + count - 1 /\ i < Capacity /\ t.panic = NULL /\ written'[f][i] = v
           \/ ~(i \in off .. off + count - 1 /\ i < Capacity) /\ written'[f][i] = written[f][i]
  BY <1>1, <1>5, Serving
<1>7. ASSUME t.panic # Full, NEW i \in 0 .. MaxSize - 1, written'[f][i] # NULL
      PROVE  i < Capacity /\ IsThere(t, f, i, written'[f][i])
  <2> DEFINE m == i \div BLKSIZE
             w == i % BLKSIZE
  <2>1. CASE i \in off .. off + count - 1 /\ i < Capacity /\ t.panic = NULL /\ written'[f][i] = v
    <3>1. /\ i \in Nat /\ m \in Places /\ w \in Words /\ m * BLKSIZE + w = i
          /\ \A size \in Nat : i < size => m < NumBlocks(size)
          /\ \A o \in Nat : o <= i => o \div BLKSIZE <= m
      BY <2>1, PlaceOf
    <3>2. off <= i /\ i < off + count /\ off + count \in Nat
      BY <1>2, <2>1, <3>1
    <3>3. off \div BLKSIZE <= m /\ m < NumBlocks(off + count)
      BY <1>2, <3>1, <3>2
    <3>4. InSpan(m, w, off, count)
      BY <2>1, <3>1 DEF InSpan
    <3>5. i < Struct(t, f).f_size
      <4>1. off + count <= Struct(t, f).f_size /\ Struct(t, f).f_size \in Nat
        BY <1>3, <1>4, <1>7, Structs DEF Written, Good
      <4> QED BY <3>1, <3>2, <4>1
    <3>6. Filled(t, f, off \div BLKSIZE, NumBlocks(off + count), off, count, v)
      BY <1>3, <2>1 DEF Written
    <3> HIDE DEF m, w
    <3>7. Owned(t, f, m) # 0 /\ ViewOf(t, Owned(t, f, m))[w] = v
      BY <3>1, <3>3, <3>4, <3>6 DEF Filled
    <3>8. IsThere(t, f, i, v)
      BY <3>5, <3>7 DEF IsThere, m, w
    <3> QED BY <2>1, <3>8
  <2>2. CASE ~(i \in off .. off + count - 1 /\ i < Capacity) /\ written'[f][i] = written[f][i]
    <3>1. i < Capacity /\ IsThere(fs, f, i, written[f][i])
      BY <1>1, <1>7, <2>2, Serving DEF Shown
    <3>2. i \in Nat /\ m \in BlockNumbers /\ m >= 0 /\ w \in Words /\ m * BLKSIZE + w = i
      BY <3>1, PlaceOf
    <3>3. ~InSpan(m, w, off, count)
      BY <2>2, <3>1, <3>2 DEF InSpan
    <3>4. Kept(fs, t, f, off, count) /\ Struct(fs, f).f_size <= Struct(t, f).f_size
      BY <1>3, <1>7 DEF Written
    <3>5. i < Struct(t, f).f_size
      <4>1. i < Struct(fs, f).f_size
        BY <3>1 DEF IsThere
      <4>2. Struct(fs, f).f_size \in Nat /\ Struct(t, f).f_size \in Nat
        BY <1>1, <1>4, Serving, Structs DEF Good
      <4> QED BY <3>2, <3>4, <4>1, <4>2
    <3>6. Owned(fs, f, m) # 0
      BY <3>1 DEF IsThere
    <3> HIDE DEF m, w
    <3>7. /\ Owned(t, f, m) = Owned(fs, f, m)
          /\ ViewOf(t, Owned(fs, f, m))[w] = ViewOf(fs, Owned(fs, f, m))[w]
      BY <3>2, <3>3, <3>4, <3>6 DEF Kept
    <3>8. IsThere(t, f, i, written[f][i])
      BY <3>1, <3>5, <3>7, PlaceStays DEF m, w
    <3> QED BY <2>2, <3>1, <3>8
  <2> QED BY <1>6, <1>7, <2>1, <2>2
<1>8. Shown(t, written')
  <2>1. Shown(fs, written) /\ fs.panic # Full
    BY <1>1, Serving
  <2> DEFINE z == written'
  <2>2. /\ \A g \in Files \ {f} : z[g] = written[g]
        /\ t.panic # Full => \A i \in 0 .. MaxSize - 1 :
             z[f][i] # NULL => i < Capacity /\ IsThere(t, f, i, z[f][i])
    BY <1>6, <1>7
  <2> HIDE DEF z
  <2>3. Shown(t, z)
    BY <1>4, <2>1, <2>2, ShownAfter
  <2> QED BY <2>3 DEF z
<1>9. flushed' \in SUBSET Files /\ (t.panic = NULL => \A g \in flushed' : OnDisk(t, g))
  BY <1>1, <1>4, Serving, OthersStay, NotFull
<1> QED BY <1>1, <1>4, <1>6, <1>8, <1>9, ServedWell

-----------------------------------------------------------------------------
(***************************************************************************)
(* The disk                                                                *)
(***************************************************************************)

\* A step that only brings the disk nearer to what the server sees
LEMMA UnseenWell ==
  ASSUME NEW s, NEW t, NEW w, NEW D, Intact(s, w, D), Typed(t), t.panic = s.panic, t.r = s.r,
         t.dirty = s.dirty, Unseen(s, t)
  PROVE  Intact(t, w, D)
<1>1. ASSUME s.panic # Full
      PROVE  /\ Tree(t)
             /\ \A g \in Files : OnDisk(s, g) => OnDisk(t, g)
             /\ \A v : \A g \in Files, i \in 0 .. MaxSize - 1 :
                  i < Capacity /\ IsThere(s, g, i, v) => IsThere(t, g, i, v)
  <2>1. Tree(s)
    BY <1>1 DEF Intact, Good
  <2> QED BY <2>1, AllStay
<1>2. Good(t)
  BY <1>1 DEF Intact, Good, Unseen
<1>3. Shown(t, w)
  BY <1>1 DEF Intact, Shown
<1>4. t.panic = NULL => \A f \in D : OnDisk(t, f)
  BY <1>1, NotFull DEF Intact
<1> QED BY <1>2, <1>3, <1>4 DEF Intact

\* ide_write, on the first of the blocks to be written
WroteFirst(s, t) ==
  /\ s.writes # <<>>
  /\ t = [s EXCEPT !.disk[Head(s.writes)[1]] = Head(s.writes)[2], !.writes = Tail(s.writes)]

LEMMA WroteTypes ==
  ASSUME NEW s, Typed(s), NEW t, WroteFirst(s, t)
  PROVE  /\ Typed(t) /\ Unseen(s, t)
         /\ t.panic = s.panic /\ t.r = s.r /\ t.dirty = s.dirty
<1> DEFINE b0 == Head(s.writes)[1]
           c0 == Head(s.writes)[2]
<1>1. s \in States /\ s.writes \in Seq(Blocks \X AllContent) /\ s.writes # <<>>
  BY DEF Typed, States, WroteFirst
<1>2. /\ Head(s.writes) = s.writes[1] /\ 1 \in DOMAIN s.writes
      /\ Head(s.writes) \in Blocks \X AllContent
      /\ Tail(s.writes) \in Seq(Blocks \X AllContent)
  BY <1>1, HeadTailProperties, EmptySeq
<1>3. /\ b0 \in Blocks /\ c0 \in AllContent /\ Head(s.writes) = <<b0, c0>>
      /\ c0 \in Content(b0) /\ s.cache[b0] # NULL
  BY <1>2 DEF Typed
<1>4. t = [s EXCEPT !.disk[b0] = c0, !.writes = Tail(s.writes)]
  BY DEF WroteFirst
<1> HIDE DEF b0, c0
<1>5. /\ t \in States /\ t.cache = s.cache /\ t.dirty = s.dirty /\ t.panic = s.panic /\ t.r = s.r
      /\ t.writes = Tail(s.writes) /\ t.disk = [s.disk EXCEPT ![b0] = c0]
  <2> DEFINE w == Tail(s.writes)
  <2>1. w \in Seq(Blocks \X AllContent) /\ t = [s EXCEPT !.disk[b0] = c0, !.writes = w]
    BY <1>2, <1>4
  <2> HIDE DEF w
  <2>2. /\ t \in States /\ t.cache = s.cache /\ t.dirty = s.dirty /\ t.panic = s.panic /\ t.r = s.r
        /\ t.writes = w /\ t.disk = [s.disk EXCEPT ![b0] = c0]
    BY <1>1, <1>3, <2>1 DEF States
  <2> QED BY <2>2 DEF w
<1>6. t.disk[b0] = c0 /\ \A x \in Blocks \ {b0} : t.disk[x] = s.disk[x]
  BY <1>1, <1>3, <1>5 DEF States
<1>7. \A x \in Blocks : ViewOf(t, x) = ViewOf(s, x)
  BY <1>3, <1>5, <1>6 DEF ViewOf
<1>8. FirstDone(s, t, b0, c0)
  <2>1. t \in States /\ t.writes = Tail(s.writes) /\ Head(s.writes) = <<b0, c0>> /\ b0 \in Blocks
    BY <1>3, <1>5
  <2>2. s \in States /\ s.writes # <<>>
    BY <1>1
  <2> QED BY <2>1, <2>2, FirstWrite
<1>9. ASSUME NEW x \in Blocks, NEW c, Arrives(s, x, c) PROVE Arrives(t, x, c)
  <2>1. \A k \in DOMAIN t.writes : IsLast(t, k, x) => t.writes[k][2] = c
    BY <1>8, <1>9 DEF FirstDone, Arrives
  <2>2. ASSUME ~Pending(t, x) PROVE t.disk[x] = c
    <3>1. CASE x = b0
      BY <1>6, <1>8, <1>9, <2>2, <3>1 DEF FirstDone, Arrives
    <3>2. CASE x # b0
      BY <1>6, <1>8, <1>9, <2>2, <3>2 DEF FirstDone, Arrives
    <3> QED BY <3>1, <3>2
  <2> QED BY <2>1, <2>2 DEF Arrives
<1>10. ASSUME NEW f \in Files, DirOnDisk(s, f) PROVE DirOnDisk(t, f)
  <2>1. Struct(t, f) = Struct(s, f)
    BY <1>5 DEF Struct
  <2>2. \A k \in DOMAIN t.writes : IsLast(t, k, DirBlock) => t.writes[k][2][f] = Struct(t, f)
    BY <1>8, <1>10, <2>1 DEF FirstDone, DirOnDisk
  <2>3. ASSUME ~Pending(t, DirBlock) PROVE t.disk[DirBlock][f] = Struct(t, f)
    <3>1. CASE DirBlock = b0
      BY <1>6, <1>8, <1>10, <2>1, <2>3, <3>1 DEF FirstDone, DirOnDisk
    <3>2. CASE DirBlock # b0
      BY <1>6, <1>8, <1>10, <2>1, <2>3, <3>2, Numbers DEF FirstDone, DirOnDisk
    <3> QED BY <3>1, <3>2
  <2> QED BY <2>2, <2>3 DEF DirOnDisk
<1>11. Typed(t)
  <2>1. \A b \in Blocks : t.disk[b] \in Content(b) /\ t.cache[b] \in Content(b) \cup {NULL}
    BY <1>3, <1>5, <1>6 DEF Typed
  <2>2. t.cache[SuperBlock] = "super" /\ t.cache[BitmapBlock] # NULL /\ t.cache[DirBlock] # NULL
    BY <1>5 DEF Typed
  <2>3. \A f \in Files : Struct(t, f).f_size <= MaxSize
    BY <1>5 DEF Typed, Struct
  <2>4. \A b \in t.dirty : t.cache[b] # NULL
    BY <1>5 DEF Typed
  <2>5. \A k \in DOMAIN t.writes :
          t.writes[k][2] \in Content(t.writes[k][1]) /\ t.cache[t.writes[k][1]] # NULL
    BY <1>5, <1>8 DEF FirstDone, Typed
  <2>6. ASSUME NEW b \in Blocks \ t.dirty, t.cache[b] # NULL PROVE Arrives(t, b, t.cache[b])
    <3>1. Arrives(s, b, s.cache[b])
      BY <1>5, <2>6 DEF Typed
    <3> QED BY <1>5, <1>9, <3>1
  <2> QED BY <1>5, <2>1, <2>2, <2>3, <2>4, <2>5, <2>6 DEF Typed
<1>12. Unseen(s, t)
  BY <1>5, <1>7, <1>10 DEF Unseen, Bitmap
<1> QED BY <1>5, <1>11, <1>12

LEMMA WriteBlockWell ==
  ASSUME BlocksInv, WriteBlock
  PROVE  BlocksInv'
<1> DEFINE t == fs'
           w == written'
           D == flushed'
<1>1. WroteFirst(fs, t) /\ w = written /\ D = flushed
  BY DEF WriteBlock, WroteFirst
<1> HIDE DEF t, w, D
<1>2. Intact(fs, w, D) /\ Typed(fs)
  BY <1>1 DEF BlocksInv, Intact, Good
<1>3. Intact(t, w, D)
  BY <1>1, <1>2, WroteTypes, UnseenWell
<1> QED BY <1>3 DEF BlocksInv, t, w, D

\* The server after a boot, before or after it has tried its block cache
BootWrites == <<<<SuperBlock, "OOPS!">>, <<SuperBlock, "super">>>>
Booted(t, disk) ==
  /\ t.disk = disk /\ t.dirty = {} /\ t.panic = NULL /\ t.r = NULL
  /\ t.cache = [b \in Blocks |-> IF b \in Reserved \ {0} THEN disk[b] ELSE NULL]
  /\ t.writes \in {<<>>, BootWrites} /\ t \in States
Sane(disk) ==
  /\ disk \in [Blocks -> AllContent] /\ \A b \in Blocks : disk[b] \in Content(b)
  /\ disk[SuperBlock] = "super" /\ disk[BitmapBlock] \cap Reserved = {}
  /\ \A f \in Files : disk[DirBlock][f].f_size <= MaxSize

LEMMA BootGives ==
  ASSUME NEW disk, Sane(disk)
  PROVE  Booted(Boot(disk), disk) /\ Booted([Boot(disk) EXCEPT !.writes = <<>>], disk)
<1>1. disk[SuperBlock] = "super" /\ disk[BitmapBlock] \cap {0, SuperBlock, BitmapBlock} = {}
      /\ DirBlock \notin disk[BitmapBlock]
  BY Numbers DEF Sane
<1> DEFINE c == [b \in Blocks |-> IF b \in Reserved \ {0} THEN disk[b] ELSE NULL]
<1>2. Boot(disk) = [disk |-> disk, cache |-> c, dirty |-> {}, writes |-> BootWrites,
                    panic |-> NULL, r |-> NULL]
  BY <1>1 DEF Boot, BootWrites
<1>3. c \in [Blocks -> AllContent \cup {NULL}]
  BY DEF Sane
<1>4. BootWrites \in Seq(Blocks \X AllContent)
  <2>1. SuperBlock \in Blocks /\ "OOPS!" \in AllContent /\ "super" \in AllContent
    BY Numbers DEF AllContent
  <2> DEFINE p == <<SuperBlock, "OOPS!">>
             q == <<SuperBlock, "super">>
  <2>2. p \in Blocks \X AllContent /\ q \in Blocks \X AllContent
    BY <2>1
  <2> HIDE DEF p, q
  <2>3. <<p, q>> \in Seq(Blocks \X AllContent)
    BY <2>2
  <2> QED BY <2>3 DEF BootWrites, p, q
<1> HIDE DEF c
<1> DEFINE z == Boot(disk)
           y == [z EXCEPT !.writes = <<>>]
<1>5. z = [disk |-> disk, cache |-> c, dirty |-> {}, writes |-> BootWrites,
            panic |-> NULL, r |-> NULL]
  BY <1>2
<1> HIDE DEF z
<1>6. /\ z \in States /\ z.disk = disk /\ z.cache = c /\ z.dirty = {} /\ z.writes = BootWrites
      /\ z.panic = NULL /\ z.r = NULL
  <2>1. disk \in [Blocks -> AllContent]
    BY DEF Sane
  <2> QED BY <1>3, <1>4, <1>5, <2>1 DEF States
<1>7. y = [z EXCEPT !.writes = <<>>]
  OBVIOUS
<1> HIDE DEF y
<1>8. /\ y \in States /\ y.disk = z.disk /\ y.cache = z.cache /\ y.dirty = z.dirty
      /\ y.writes = <<>> /\ y.panic = z.panic /\ y.r = z.r
  <2> DEFINE e == <<>>
  <2>1. e \in Seq(Blocks \X AllContent) /\ y = [z EXCEPT !.writes = e]
    BY <1>7
  <2> HIDE DEF e
  <2>2. z \in States
    BY <1>6
  <2>3. /\ y \in States /\ y.disk = z.disk /\ y.cache = z.cache /\ y.dirty = z.dirty
        /\ y.writes = e /\ y.panic = z.panic /\ y.r = z.r
    BY <2>1, <2>2 DEF States
  <2> QED BY <2>3 DEF e
<1>9. Booted(z, disk) /\ Booted(y, disk)
  BY <1>6, <1>8 DEF Booted, c
<1> QED BY <1>9 DEF y, z

LEMMA BootTypes ==
  ASSUME NEW disk, Sane(disk), NEW t, Booted(t, disk)
  PROVE  /\ Typed(t) /\ \A x \in Blocks : ViewOf(t, x) = disk[x]
         /\ t.cache[DirBlock] = disk[DirBlock] /\ Bitmap(t) = disk[BitmapBlock]
         /\ \A f \in Files : DirOnDisk(t, f)
<1>1. /\ {1, 2, 3} \subseteq Blocks /\ Reserved \ {0} = {1, 2, 3}
      /\ SuperBlock = 1 /\ BitmapBlock = 2 /\ DirBlock = 3
  BY Numbers
<1>2. disk \in [Blocks -> AllContent] /\ \A b \in Blocks : disk[b] \in Content(b) /\ disk[b] # NULL
  BY Contents DEF Sane
<1>3. /\ \A b \in {1, 2, 3} : t.cache[b] = disk[b]
      /\ \A b \in Blocks : b \notin {1, 2, 3} => t.cache[b] = NULL
      /\ t.cache \in [Blocks -> AllContent \cup {NULL}]
  BY <1>1, <1>2 DEF Booted
<1>4. /\ DOMAIN t.writes \subseteq {1, 2}
      /\ \A k \in DOMAIN t.writes : t.writes[k][1] = 1 /\ t.writes[k][2] \in {"super", "OOPS!"}
      /\ \A k \in DOMAIN t.writes : ~(\E j \in DOMAIN t.writes : j > k) => t.writes[k][2] = "super"
  <2>1. CASE t.writes = <<>>
    BY <2>1
  <2>2. CASE t.writes = BootWrites
    <3> DEFINE w == <<<<1, "OOPS!">>, <<1, "super">>>>
    <3>1. t.writes = w
      BY <1>1, <2>2 DEF BootWrites
    <3>2. DOMAIN w = {1, 2} /\ w[1] = <<1, "OOPS!">> /\ w[2] = <<1, "super">>
      OBVIOUS
    <3> HIDE DEF w
    <3> QED BY <3>1, <3>2
  <2> QED BY <2>1, <2>2 DEF Booted
<1>5. \A x \in Blocks : ViewOf(t, x) = disk[x]
  <2>1. t.disk = disk
    BY DEF Booted
  <2> QED BY <1>1, <1>2, <1>3, <2>1 DEF ViewOf
<1>6. \A b \in Blocks : t.cache[b] # NULL => Arrives(t, b, t.cache[b])
  <2> SUFFICES ASSUME NEW b \in {1, 2, 3} PROVE Arrives(t, b, t.cache[b])
    BY <1>3
  <2>1. t.disk[b] = t.cache[b]
    BY <1>3 DEF Booted
  <2>2. ASSUME NEW k \in DOMAIN t.writes, IsLast(t, k, b) PROVE t.writes[k][2] = t.cache[b]
    <3>1. b = 1
      BY <1>4, <2>2 DEF IsLast
    <3>2. t.cache[1] = "super"
      BY <1>1, <1>3 DEF Sane
    <3> QED BY <1>4, <2>2, <3>1, <3>2 DEF IsLast
  <2> QED BY <2>1, <2>2 DEF Arrives
<1>7. \A f \in Files : DirOnDisk(t, f)
  BY <1>1, <1>3, <1>4 DEF DirOnDisk, IsLast, Struct, Booted
<1>8. t \in States
  BY DEF Booted
<1>9. Typed(t)
  <2>1. \A b \in Blocks : t.disk[b] \in Content(b) /\ t.cache[b] \in Content(b) \cup {NULL}
    BY <1>2, <1>3 DEF Booted
  <2>2. t.cache[SuperBlock] = "super" /\ t.cache[BitmapBlock] # NULL /\ t.cache[DirBlock] # NULL
    BY <1>1, <1>2, <1>3 DEF Sane
  <2>3. \A f \in Files : Struct(t, f).f_size <= MaxSize
    BY <1>1, <1>3 DEF Sane, Struct
  <2>4. \A b \in t.dirty : t.cache[b] # NULL
    BY DEF Booted
  <2>5. \A k \in DOMAIN t.writes :
          t.writes[k][2] \in Content(t.writes[k][1]) /\ t.cache[t.writes[k][1]] # NULL
    BY <1>1, <1>2, <1>3, <1>4, Contents
  <2> QED BY <1>6, <1>8, <2>1, <2>2, <2>3, <2>4, <2>5 DEF Typed
<1> QED BY <1>1, <1>3, <1>5, <1>7, <1>9 DEF Bitmap

\* When the power fails with everything on the disk, the boot changes nothing.
LEMMA RebootWell ==
  ASSUME NEW s, NEW w, NEW D, Intact(s, w, D), s.dirty = {}, s.writes = <<>>,
         NEW t, t = Boot(s.disk)
  PROVE  Intact(t, w, D)
<1>1. Typed(s) /\ Tree(s) /\ s.panic # Full
  BY DEF Intact, Good
<1>2. ASSUME NEW b \in Blocks PROVE ViewOf(s, b) = s.disk[b]
  <2>1. ~Pending(s, b)
    BY DEF Pending
  <2> QED BY <1>1, <2>1 DEF Typed, Arrives, ViewOf
<1>3. {1, 2, 3} \subseteq Blocks /\ SuperBlock = 1 /\ BitmapBlock = 2 /\ DirBlock = 3
  BY Numbers
<1>4. s.disk[SuperBlock] = "super" /\ s.disk[BitmapBlock] = Bitmap(s) /\ s.disk[DirBlock] = s.cache[DirBlock]
  <2>1. "super" # NULL
    BY NullAssumption
  <2> QED BY <1>1, <1>2, <1>3, <2>1 DEF Typed, ViewOf, Bitmap
<1>5. Sane(s.disk)
  <2>1. s.disk \in [Blocks -> AllContent] /\ \A b \in Blocks : s.disk[b] \in Content(b)
    BY <1>1 DEF Typed, States
  <2>2. \A f \in Files : s.disk[DirBlock][f].f_size <= MaxSize
    BY <1>1, <1>4 DEF Typed, Struct
  <2>3. s.disk[BitmapBlock] \cap Reserved = {}
    BY <1>1, <1>4 DEF Tree
  <2> QED BY <1>4, <2>1, <2>2, <2>3 DEF Sane
<1> DEFINE disk == s.disk
<1>6. Sane(disk) /\ Booted(t, disk)
  BY <1>5, BootGives
<1>7. Typed(t) /\ t.dirty = {} /\ t.panic = NULL /\ t.r = NULL /\ Unseen(s, t)
  BY <1>2, <1>4, <1>6, BootTypes DEF Unseen, Booted
<1>8. /\ Tree(t)
      /\ \A v : \A g \in Files, i \in 0 .. MaxSize - 1 :
           i < Capacity /\ IsThere(s, g, i, v) => IsThere(t, g, i, v)
  BY <1>1, <1>7, AllStay
<1>9. Good(t)
  BY <1>7, <1>8, NotFull DEF Good
<1>10. Shown(t, w)
  BY <1>1, <1>8 DEF Intact, Shown
<1>11. \A f \in Files : OnDisk(t, f)
  BY <1>6, <1>7, BootTypes DEF OnDisk
<1> QED BY <1>7, <1>9, <1>10, <1>11 DEF Intact

LEMMA PowerFailureWell ==
  ASSUME BlocksInv, CleanPowerFailure
  PROVE  BlocksInv'
<1> DEFINE t == fs'
           w == written'
           D == flushed'
<1>1. t = Boot(fs.disk) /\ w = written /\ D = flushed /\ fs.dirty = {} /\ fs.writes = <<>>
  BY DEF CleanPowerFailure, PowerFailure
<1> HIDE DEF t, w, D
<1>2. Intact(fs, w, D)
  BY <1>1 DEF BlocksInv
<1>3. Intact(t, w, D)
  BY <1>1, <1>2, RebootWell
<1> QED BY <1>3 DEF BlocksInv, t, w, D

LEMMA Empty ==
  /\ Sane(Formatted) /\ Formatted[BitmapBlock] = Blocks \ Reserved
  /\ \A f \in Files : /\ Formatted[DirBlock][f].f_size = 0 /\ Formatted[DirBlock][f].f_indirect = 0
                      /\ \A n \in 0 .. NDIRECT - 1 : Formatted[DirBlock][f].f_direct[n] = 0
<1>1. {1, 2, 3} \subseteq Blocks /\ SuperBlock = 1 /\ BitmapBlock = 2 /\ DirBlock = 3
  BY Numbers
<1> DEFINE file == [f_size |-> 0, f_direct |-> [n \in 0 .. NDIRECT - 1 |-> 0], f_indirect |-> 0]
<1>2. /\ Formatted[1] = "super" /\ Formatted[2] = Blocks \ Reserved
      /\ Formatted[3] = [f \in Files |-> file]
      /\ \A b \in Blocks : b \notin {1, 2, 3} => Formatted[b] = [w \in Words |-> 0]
      /\ Formatted = [b \in Blocks |-> Formatted[b]]
  BY <1>1 DEF Formatted
<1>3. file \in File
  BY LayoutAssumption DEF File
<1>4. file.f_size = 0 /\ file.f_indirect = 0 /\ \A n \in 0 .. NDIRECT - 1 : file.f_direct[n] = 0
  OBVIOUS
<1> HIDE DEF file
<1>5. \A b \in Blocks : Formatted[b] \in Content(b)
  BY <1>1, <1>2, <1>3, Contents
<1>6. Formatted \in [Blocks -> AllContent]
  BY <1>2, <1>5, Contents
<1>7. \A f \in Files : Formatted[3][f] = file
  BY <1>2
<1>8. Sane(Formatted)
  BY <1>1, <1>2, <1>4, <1>5, <1>6, <1>7, LayoutAssumption DEF Sane
<1> QED BY <1>1, <1>2, <1>4, <1>7, <1>8

LEMMA InitWell ==
  ASSUME Init
  PROVE  BlocksInv
<1> DEFINE disk == Formatted
<1>1. fs = [Boot(disk) EXCEPT !.writes = <<>>] /\ flushed = Files
      /\ written = [f \in Files |-> [i \in 0 .. MaxSize - 1 |-> NULL]]
  BY DEF Init
<1> HIDE DEF disk
<1>2. Sane(disk) /\ Booted(fs, disk)
  BY <1>1, Empty, BootGives DEF disk
<1>3. /\ Typed(fs) /\ fs.cache[DirBlock] = disk[DirBlock] /\ Bitmap(fs) = disk[BitmapBlock]
      /\ \A f \in Files : DirOnDisk(fs, f)
      /\ fs.panic = NULL /\ fs.r = NULL /\ fs.dirty = {}
  BY <1>2, BootTypes DEF Booted
<1>4. \A f \in Files, n \in BlockNumbers : Owned(fs, f, n) = 0
  <2> SUFFICES ASSUME NEW f \in Files, NEW n \in BlockNumbers PROVE Owned(fs, f, n) = 0
    OBVIOUS
  <2>1. /\ Struct(fs, f).f_indirect = 0
        /\ \A k \in 0 .. NDIRECT - 1 : Struct(fs, f).f_direct[k] = 0
    BY <1>3, Empty DEF Struct, disk
  <2>2. n = -1 \/ ~(n < NDIRECT) \/ n \in 0 .. NDIRECT - 1
    BY PlacesAre
  <2> QED BY <2>1, <2>2 DEF Owned
<1>5. Tree(fs)
  BY <1>3, <1>4, Empty DEF Tree, disk
<1>6. Good(fs)
  BY <1>3, <1>5, NotFull DEF Good
<1>7. \A f \in Files : OnDisk(fs, f)
  BY <1>3 DEF OnDisk
<1>8. Shown(fs, written) /\ written \in [Files -> [0 .. MaxSize - 1 -> Values \cup {NULL}]]
  BY <1>1 DEF Shown
<1> QED BY <1>1, <1>3, <1>6, <1>7, <1>8 DEF BlocksInv, Intact

-----------------------------------------------------------------------------
(***************************************************************************)
(* The theorems                                                            *)
(***************************************************************************)

\* The inductive invariant, under power failures when everything is on the
\* disk: the cache and the disk agree but for the dirty blocks and the writes on
\* their way, every block has one owner, what was written is where it belongs,
\* and no block of a flushed file is dirty.
THEOREM BlocksInvariant == CleanSpec => []BlocksInv
<1>1. Init => BlocksInv
  BY InitWell
<1>2. BlocksInv /\ [CleanNext]_vars => BlocksInv'
  <2> SUFFICES ASSUME BlocksInv, [CleanNext]_vars PROVE BlocksInv'
    OBVIOUS
  <2>1. ASSUME NEW f \in Files, Flush(f) PROVE BlocksInv'
    BY <2>1, FlushWell
  <2>2. ASSUME NEW f \in Files, NEW size \in Sizes, SetSize(f, size) PROVE BlocksInv'
    BY <2>2, SetSizeWell
  <2>3. ASSUME NEW f \in Files, NEW x \in Reads, Read(f, x[2], x[1]) PROVE BlocksInv'
    BY <2>3, ReadWell
  <2>4. ASSUME NEW f \in Files, NEW x \in Writes, NEW v \in Values, Write(f, x[2], x[1], v)
        PROVE  BlocksInv'
    BY <2>4, WriteWell
  <2>5. CASE Sync
    BY <2>5, SyncWell
  <2>6. CASE WriteBlock
    BY <2>6, WriteBlockWell
  <2>7. CASE CleanPowerFailure
    BY <2>7, PowerFailureWell
  <2>8. CASE UNCHANGED vars
    BY <2>8 DEF vars, BlocksInv
  <2>9. CASE Requests
    BY <2>1, <2>2, <2>3, <2>4, <2>5, <2>9 DEF Requests
  <2> QED BY <2>6, <2>7, <2>8, <2>9 DEF CleanNext
<1> QED BY <1>1, <1>2, PTL DEF CleanSpec

\* What the properties call View and BlockOf
LEMMA Views ==
  /\ \A b : View(b) = ViewOf(fs, b)
  /\ \A f, n : BlockOf(f, n) = Owned(fs, f, n)
<1> QED BY DEF View, ViewOf, BlockOf, Owned

LEMMA TypesOK ==
  ASSUME BlocksInv
  PROVE  TypeOK
<1>1. Typed(fs) /\ fs \in States
  BY DEF BlocksInv, Intact, Good, Typed
<1>2. DOMAIN fs.disk = Blocks /\ DOMAIN fs.cache = Blocks /\ fs.dirty \subseteq Blocks
  BY <1>1 DEF States
<1> QED BY <1>1, <1>2 DEF TypeOK, Typed, BlocksInv, Intact

LEMMA OneUseEach ==
  ASSUME BlocksInv
  PROVE  BlocksExact
<1> SUFFICES ASSUME fs.panic = NULL, NEW b \in Blocks \ {0}
             PROVE  Cardinality(Refs(b)) + (IF b \in fs.cache[BitmapBlock] THEN 1 ELSE 0)
                      = IF b \in Reserved THEN 0 ELSE 1
  BY DEF BlocksExact
<1>1. Tree(fs)
  BY NotFull DEF BlocksInv, Intact, Good
<1>2. Refs(b) = {x \in Files \X BlockNumbers : Owned(fs, x[1], x[2]) = b}
  BY Views DEF Refs
<1>3. CASE b \in Reserved \/ b \in Bitmap(fs)
  <2>1. Refs(b) = {}
    BY <1>1, <1>2, <1>3 DEF Tree
  <2>2. Cardinality(Refs(b)) = 0
    BY <2>1, FS_EmptySet
  <2>3. ~(b \in Reserved /\ b \in Bitmap(fs))
    BY <1>1 DEF Tree
  <2> QED BY <1>3, <2>2, <2>3 DEF Bitmap
<1>4. CASE b \notin Reserved /\ b \notin Bitmap(fs)
  <2>1. PICK f \in Files, n \in BlockNumbers : Owned(fs, f, n) = b
    BY <1>1, <1>4 DEF Tree
  <2>2. \A g \in Files, m \in BlockNumbers : Owned(fs, g, m) = b => g = f /\ m = n
    BY <1>1, <2>1 DEF Tree
  <2>3. Refs(b) = {<<f, n>>}
    BY <1>2, <2>1, <2>2
  <2>4. Cardinality(Refs(b)) = 1
    BY <2>3, FS_Singleton
  <2> QED BY <1>4, <2>4 DEF Bitmap
<1> QED BY <1>3, <1>4

LEMMA StopsWhenFull ==
  ASSUME BlocksInv
  PROVE  PanicOnlyWhenFull
<1> QED BY DEF PanicOnlyWhenFull, BlocksInv, Intact, Good, Full, NotAtStart, Bitmap

\* The disk and the cache hold what they should; every block is free or used
\* once; the server stops only when the disk is full or at the first access to a
\* block that is not at its start (fs/fs.c, fs/bc.c:60).
THEOREM DiskIsRight == CleanSpec => []DiskOK
<1>1. BlocksInv => DiskOK
  BY TypesOK, OneUseEach, StopsWhenFull DEF DiskOK
<1> QED BY <1>1, BlocksInvariant, PTL

\* What was written at a place is there until something else is written there
\* or the file is made shorter, for any requests for any files (fs/fs.c,
\* file_write, file_set_size).
THEOREM WritesAreRead == CleanSpec => []ReadsWhatWasWritten
<1>1. BlocksInv => ReadsWhatWasWritten
  <2> SUFFICES ASSUME BlocksInv, fs.panic = NULL, NEW f \in Files, NEW i \in 0 .. MaxSize - 1,
                      written[f][i] # NULL
               PROVE  /\ i < Struct(fs, f).f_size
                      /\ BlockOf(f, i \div BLKSIZE) # 0
                      /\ View(BlockOf(f, i \div BLKSIZE))[i % BLKSIZE] = written[f][i]
    BY DEF ReadsWhatWasWritten
  <2>1. IsThere(fs, f, i, written[f][i])
    BY NotFull DEF BlocksInv, Intact, Shown
  <2>2. BlockOf(f, i \div BLKSIZE) = Owned(fs, f, i \div BLKSIZE)
    BY Views
  <2>3. View(BlockOf(f, i \div BLKSIZE)) = ViewOf(fs, Owned(fs, f, i \div BLKSIZE))
    BY <2>2, Views
  <2> QED BY <2>1, <2>2, <2>3 DEF IsThere
<1> QED BY <1>1, BlocksInvariant, PTL

\* A file that was flushed is on the disk as soon as the disk writes are done,
\* contents and metadata, whatever was done to other files since (fs/fs.c:463).
THEOREM FlushesReachTheDisk == CleanSpec => []FlushedIsOnDisk
<1>1. BlocksInv => FlushedIsOnDisk
  <2> SUFFICES ASSUME BlocksInv, fs.panic = NULL, fs.writes = <<>>, NEW f \in flushed
               PROVE  /\ fs.disk[DirBlock][f] = Struct(fs, f)
                      /\ \A n \in BlockNumbers : BlockOf(f, n) # 0 =>
                           fs.disk[BlockOf(f, n)] = View(BlockOf(f, n))
    BY DEF FlushedIsOnDisk
  <2>1. Typed(fs) /\ Tree(fs) /\ OnDisk(fs, f) /\ f \in Files
    BY NotFull DEF BlocksInv, Intact, Good
  <2>2. \A b : ~Pending(fs, b)
    BY DEF Pending
  <2>3. fs.disk[DirBlock][f] = Struct(fs, f)
    BY <2>1, <2>2 DEF OnDisk, DirOnDisk
  <2>4. ASSUME NEW n \in BlockNumbers, BlockOf(f, n) # 0
        PROVE  fs.disk[BlockOf(f, n)] = View(BlockOf(f, n))
    <3> DEFINE b == BlockOf(f, n)
    <3>1. b = Owned(fs, f, n) /\ View(b) = ViewOf(fs, b) /\ b # 0
      BY <2>4, Views
    <3> HIDE DEF b
    <3>2. b \in Blocks \ fs.dirty
      BY <2>1, <3>1 DEF Tree, OnDisk
    <3>3. fs.disk[b] = ViewOf(fs, b)
      BY <2>1, <2>2, <3>2 DEF Typed, Arrives, ViewOf
    <3>4. fs.disk[b] = View(b)
      BY <3>1, <3>3
    <3> QED BY <3>4 DEF b
  <2> QED BY <2>3, <2>4
<1> QED BY <1>1, BlocksInvariant, PTL

-----------------------------------------------------------------------------
(***************************************************************************)
(* spawn and load_icode                                                    *)
(***************************************************************************)

\* Division by a number that is not known
LEMMA Divided ==
  ASSUME NEW c \in Nat \ {0}, NEW a \in Nat
  PROVE  /\ a \div c \in Nat /\ a % c \in 0 .. c - 1
         /\ a = c * (a \div c) + (a % c)
         /\ c * (a \div c) = (a \div c) * c
<1>1. a \div c \in Nat /\ a % c \in 0 .. c - 1 /\ a = c * (a \div c) + (a % c)
  BY SMT
<1>2. c * (a \div c) = (a \div c) * c
  BY <1>1, SMT
<1> QED BY <1>1, <1>2

\* Numbers from one multiple to the next have the same quotient.
LEMMA SameQuotient ==
  ASSUME NEW c \in Nat \ {0}, NEW a \in Nat, NEW b \in Nat, a % c = 0, a <= b, b < a + c
  PROVE  b \div c = a \div c
<1> DEFINE x == a \div c
           y == b \div c
<1>1. x \in Nat /\ a = c * x
  BY Divided
<1>2. y \in Nat /\ c * y <= b /\ b < c * y + c
  BY Divided
<1> HIDE DEF x, y
<1>3. CASE x < y
  <2>1. c * x + c <= c * y
    BY <1>1, <1>2, <1>3, Multiples
  <2>2. c * x \in Int /\ c * y \in Int
    BY <1>1, <1>2
  <2> QED BY <1>1, <1>2, <2>1, <2>2
<1>4. CASE y < x
  <2>1. c * y + c <= c * x
    BY <1>1, <1>2, <1>4, Multiples
  <2>2. c * x \in Int /\ c * y \in Int
    BY <1>1, <1>2
  <2> QED BY <1>1, <1>2, <2>1, <2>2
<1> QED BY <1>1, <1>2, <1>3, <1>4 DEF x, y

\* What the loop of copy_shared_pages does from each page on
FirstOfGap(mapped, pn) == pn \div NPTENT \notin Tables(mapped) /\ pn % NPTENT = 0
IsCopied(h, mapped, shared) ==
  h = [pn \in Nat |->
         IF pn >= LastPage THEN {}
         ELSE IF pn \div NPTENT \notin Tables(mapped) /\ pn % NPTENT = 0
         THEN h[SkipTable(pn) + 1]
         ELSE (IF pn \in shared THEN {pn} ELSE {}) \cup h[pn + 1]]
Above(shared, pn) == {q \in shared : pn <= q /\ q < LastPage}

\* It misses no page by passing over a table that is not there.
LEMMA GapIsEmpty ==
  ASSUME NEW mapped \in SUBSET Nat, NEW shared \in SUBSET mapped, NEW pn \in Nat,
         FirstOfGap(mapped, pn)
  PROVE  Above(shared, pn) = Above(shared, pn + NPTENT)
<1>1. ASSUME NEW q \in shared, pn <= q, q < pn + NPTENT PROVE FALSE
  <2>1. q \div NPTENT = pn \div NPTENT
    BY <1>1, LoaderAssumption, SameQuotient DEF FirstOfGap
  <2> QED BY <2>1 DEF FirstOfGap, Tables
<1>2. \A q \in shared : q \in Nat
  OBVIOUS
<1>3. NPTENT \in Nat
  BY LoaderAssumption
<1>4. \A q \in shared : pn <= q <=> pn + NPTENT <= q
  BY <1>1, <1>2, <1>3
<1> QED BY <1>4 DEF Above

\* The pages that are copied are the shared ones.
LEMMA CopiesShared ==
  ASSUME NEW mapped \in SUBSET Nat, NEW shared \in SUBSET mapped
  PROVE  CopiedFrom(mapped, shared) = {pn \in shared : pn < LastPage}
<1> DEFINE f == [pn \in Nat |-> Above(shared, pn)]
           g == CHOOSE h : IsCopied(h, mapped, shared)
<1>0. /\ LastPage \in Nat /\ \A q \in shared : q \in Nat
      /\ \A pn \in Nat : f[pn] = Above(shared, pn)
      /\ \A pn \in Nat : SkipTable(pn) + 1 = pn + NPTENT /\ pn + NPTENT \in Nat /\ pn + NPTENT > pn
  <2>1. LastPage \in Nat /\ NPTENT \in Nat \ {0}
    BY LoaderAssumption
  <2>2. \A q \in shared : q \in Nat
    OBVIOUS
  <2>3. \A pn \in Nat : f[pn] = Above(shared, pn)
    OBVIOUS
  <2>4. \A pn \in Nat : SkipTable(pn) + 1 = pn + NPTENT /\ pn + NPTENT \in Nat /\ pn + NPTENT > pn
    BY <2>1 DEF SkipTable
  <2> QED BY <2>1, <2>2, <2>3, <2>4
<1>a. f = [pn \in Nat |-> f[pn]]
  OBVIOUS
<1> HIDE DEF f
<1>1. IsCopied(f, mapped, shared)
  <2> DEFINE Right(pn) == IF pn >= LastPage THEN {}
               ELSE IF pn \div NPTENT \notin Tables(mapped) /\ pn % NPTENT = 0
               THEN f[SkipTable(pn) + 1]
               ELSE (IF pn \in shared THEN {pn} ELSE {}) \cup f[pn + 1]
  <2>1. ASSUME NEW pn \in Nat PROVE f[pn] = Right(pn)
    <3>1. /\ f[pn] = Above(shared, pn) /\ f[pn + 1] = Above(shared, pn + 1)
          /\ f[SkipTable(pn) + 1] = Above(shared, pn + NPTENT)
      BY <1>0
    <3>2. CASE pn >= LastPage
      <4>0. \A q \in shared : ~(pn <= q /\ q < LastPage)
        BY <1>0, <3>2
      <4>1. Above(shared, pn) = {}
        BY <4>0 DEF Above
      <4> QED BY <3>1, <3>2, <4>1
    <3>3. CASE ~(pn >= LastPage) /\ FirstOfGap(mapped, pn)
      <4>1. f[pn] = f[SkipTable(pn) + 1]
        BY <3>1, <3>3, GapIsEmpty
      <4> QED BY <3>3, <4>1 DEF FirstOfGap
    <3>4. CASE ~(pn >= LastPage) /\ ~FirstOfGap(mapped, pn)
      <4>1. \A q \in shared : pn <= q <=> q = pn \/ pn + 1 <= q
        BY <1>0
      <4>2. pn \in shared => pn < LastPage
        BY <1>0, <3>4
      <4>3. Above(shared, pn) = (IF pn \in shared THEN {pn} ELSE {}) \cup Above(shared, pn + 1)
        BY <4>1, <4>2 DEF Above
      <4> QED BY <3>1, <3>4, <4>3 DEF FirstOfGap
    <3> QED BY <3>2, <3>3, <3>4
  <2>2. f = [pn \in Nat |-> Right(pn)]
    <3> HIDE DEF Right
    <3> QED BY <1>a, <2>1
  <2> QED BY <2>2 DEF IsCopied
<1>2. IsCopied(g, mapped, shared)
  BY <1>1
<1>3. CopiedFrom(mapped, shared) = g[0]
  BY DEF CopiedFrom, IsCopied
<1> HIDE DEF g
<1>b. ASSUME NEW h, IsCopied(h, mapped, shared), NEW pn \in Nat
      PROVE  h[pn] = IF pn >= LastPage THEN {}
                     ELSE IF pn \div NPTENT \notin Tables(mapped) /\ pn % NPTENT = 0
                     THEN h[SkipTable(pn) + 1]
                     ELSE (IF pn \in shared THEN {pn} ELSE {}) \cup h[pn + 1]
  BY <1>b DEF IsCopied
<1> DEFINE Q == {k \in 0 .. LastPage : \A pn \in Nat : pn >= LastPage - k => g[pn] = f[pn]}
<1>4. 0 \in Q
  <2>1. ASSUME NEW pn \in Nat, pn >= LastPage PROVE g[pn] = {} /\ f[pn] = {}
    BY <1>1, <1>2, <1>b, <2>1
  <2>2. 0 \in 0 .. LastPage /\ LastPage - 0 = LastPage
    BY <1>0
  <2> QED BY <2>1, <2>2
<1>5. ASSUME NEW k \in 1 .. LastPage, k - 1 \in Q PROVE k \in Q
  <2>1. \A pn \in Nat : pn >= LastPage - (k - 1) => g[pn] = f[pn]
    BY <1>5
  <2> DEFINE pn == LastPage - k
  <2>2. /\ pn \in Nat /\ ~(pn >= LastPage)
        /\ pn + 1 \in Nat /\ pn + 1 >= LastPage - (k - 1)
    BY <1>0
  <2>3. SkipTable(pn) + 1 \in Nat /\ SkipTable(pn) + 1 >= LastPage - (k - 1)
    <3>1. NPTENT \in Nat \ {0} /\ SkipTable(pn) + 1 = pn + NPTENT
      BY <1>0, <2>2, LoaderAssumption
    <3> QED BY <1>0, <3>1
  <2>4. g[pn + 1] = f[pn + 1] /\ g[SkipTable(pn) + 1] = f[SkipTable(pn) + 1]
    BY <2>1, <2>2, <2>3
  <2>5. \A m \in Nat : m >= LastPage - k => m = pn \/ m >= LastPage - (k - 1)
    BY <1>0
  <2>6. k \in 0 .. LastPage /\ pn = LastPage - k
    BY <1>0
  <2> HIDE DEF pn
  <2>7. g[pn] = f[pn]
    <3>1. g[pn] = IF pn \div NPTENT \notin Tables(mapped) /\ pn % NPTENT = 0
                  THEN g[SkipTable(pn) + 1]
                  ELSE (IF pn \in shared THEN {pn} ELSE {}) \cup g[pn + 1]
      BY <1>2, <1>b, <2>2
    <3>2. f[pn] = IF pn \div NPTENT \notin Tables(mapped) /\ pn % NPTENT = 0
                  THEN f[SkipTable(pn) + 1]
                  ELSE (IF pn \in shared THEN {pn} ELSE {}) \cup f[pn + 1]
      BY <1>1, <1>b, <2>2
    <3> QED BY <2>4, <3>1, <3>2
  <2>8. \A m \in Nat : m >= LastPage - k => g[m] = f[m]
    BY <2>1, <2>5, <2>7
  <2> QED BY <2>6, <2>8
<1>6. LastPage \in Q
  <2>1. \A k \in 0 .. LastPage : k \in Q
    <3> HIDE DEF Q
    <3> QED BY <1>0, <1>4, <1>5, UpTo
  <2> QED BY <1>0, <2>1
<1>7. g[0] = f[0]
  BY <1>0, <1>6
<1>8. Above(shared, 0) = {pn \in shared : pn < LastPage}
  <2>1. \A q \in shared : 0 <= q
    BY <1>0
  <2> QED BY <2>1 DEF Above
<1> QED BY <1>0, <1>3, <1>7, <1>8

\* Addresses that are rounded
LEMMA Rounded ==
  ASSUME NEW c \in Nat \ {0}, NEW a \in Nat
  PROVE  /\ RoundDown(a, c) \in Nat /\ RoundDown(a, c) <= a /\ a < RoundDown(a, c) + c
         /\ RoundDown(a, c) = a - (a % c)
         /\ RoundUp(a, c) \in Nat /\ a <= RoundUp(a, c)
<1>1. RoundDown(a, c) = c * (a \div c) /\ a = RoundDown(a, c) + (a % c) /\ a % c \in 0 .. c - 1
      /\ RoundDown(a, c) \in Nat
  <2>1. a \div c \in Nat /\ c \in Nat
    BY Divided
  <2>2. c * (a \div c) \in Nat
    BY <2>1
  <2> QED BY <2>2, Divided DEF RoundDown
<1> DEFINE b == a + c - 1
<1>2. b \in Nat
  OBVIOUS
<1>3. RoundDown(b, c) = c * (b \div c) /\ b = RoundDown(b, c) + (b % c) /\ b % c \in 0 .. c - 1
      /\ RoundDown(b, c) \in Nat
  <2>1. b \div c \in Nat /\ c \in Nat
    BY <1>2, Divided
  <2>2. c * (b \div c) \in Nat
    BY <2>1
  <2> QED BY <1>2, <2>2, Divided DEF RoundDown
<1>4. RoundUp(a, c) = RoundDown(b, c) /\ b = a + c - 1
  BY DEF RoundUp
<1> HIDE DEF b
<1> QED BY <1>1, <1>3, <1>4

\* A multiple below an address lies a whole page below its rounding up.
LEMMA RoundsOver ==
  ASSUME NEW c \in Nat \ {0}, NEW a \in Nat, NEW q \in Int, c * q < a
  PROVE  c * q + c <= RoundUp(a, c)
<1> DEFINE b == a + c - 1
           d == b \div c
<1>1. b \in Nat /\ d \in Nat /\ RoundUp(a, c) = c * d /\ b < c * d + c
  <2>1. b \in Nat
    OBVIOUS
  <2>2. d \in Nat /\ b = c * d + (b % c) /\ b % c \in 0 .. c - 1 /\ c * d = d * c
    BY <2>1, Divided
  <2>3. RoundUp(a, c) = d * c
    BY DEF RoundUp, RoundDown
  <2>4. c * d \in Nat
    BY <2>2
  <2> HIDE DEF b, d
  <2> QED BY <2>1, <2>2, <2>3, <2>4
<1>2. b = a + c - 1
  OBVIOUS
<1> HIDE DEF b, d
<1>3. c * q \in Int /\ c * d \in Int
  BY <1>1
<1>4. CASE d < q + 1
  <2>1. d <= q
    BY <1>1, <1>4
  <2>2. c * d <= c * q
    BY <1>1, <2>1, Multiples
  <2> QED BY <1>1, <1>2, <1>3, <2>2
<1>5. CASE q < d
  BY <1>1, <1>5, Multiples
<1> QED BY <1>1, <1>4, <1>5

\* Memories
Memories == UNION {[D -> Int] : D \in SUBSET Int}

\* A memory is a function on some set of addresses.
LEMMA MemoryIs ==
  /\ \A m \in Memories : DOMAIN m \in SUBSET Int /\ m \in [DOMAIN m -> Int]
  /\ \A D \in SUBSET Int : \A m \in [D -> Int] : m \in Memories
  /\ <<>> \in Memories /\ DOMAIN <<>> = {}
<1>1. <<>> \in [{} -> Int] /\ DOMAIN <<>> = {}
  OBVIOUS
<1>2. \A D \in SUBSET Int : \A m \in [D -> Int] : m \in Memories
  BY DEF Memories
<1>3. <<>> \in Memories
  <2>1. {} \in SUBSET Int
    OBVIOUS
  <2> QED BY <1>1, <1>2, <2>1
<1>4. ASSUME NEW m \in Memories PROVE DOMAIN m \in SUBSET Int /\ m \in [DOMAIN m -> Int]
  <2>1. PICK D \in SUBSET Int : m \in [D -> Int]
    BY DEF Memories
  <2>2. DOMAIN m = D
    BY <2>1
  <2> QED BY <2>1, <2>2
<1> QED BY <1>1, <1>2, <1>3, <1>4

\* What is stored over a memory, and what it leaves alone
LEMMA OverIs ==
  ASSUME NEW f, NEW m
  PROVE  /\ DOMAIN Over(f, m) = DOMAIN f \cup DOMAIN m
         /\ \A b \in DOMAIN f : Over(f, m)[b] = f[b]
         /\ \A b \in DOMAIN m : b \notin DOMAIN f => Over(f, m)[b] = m[b]
         /\ f \in Memories /\ m \in Memories => Over(f, m) \in Memories
<1>1. DOMAIN Over(f, m) = DOMAIN f \cup DOMAIN m
  BY DEF Over
<1>2. \A b \in DOMAIN f : Over(f, m)[b] = f[b]
  BY DEF Over
<1>3. \A b \in DOMAIN m : b \notin DOMAIN f => Over(f, m)[b] = m[b]
  BY DEF Over
<1>4. ASSUME f \in Memories, m \in Memories PROVE Over(f, m) \in Memories
  <2>1. /\ DOMAIN f \in SUBSET Int /\ f \in [DOMAIN f -> Int]
        /\ DOMAIN m \in SUBSET Int /\ m \in [DOMAIN m -> Int]
    BY <1>4, MemoryIs
  <2> DEFINE D == DOMAIN f \cup DOMAIN m
  <2>2. D \in SUBSET Int
    BY <2>1
  <2>3. \A b \in D : (IF b \in DOMAIN f THEN f[b] ELSE m[b]) \in Int
    BY <2>1
  <2>4. Over(f, m) \in [D -> Int]
    BY <2>3 DEF Over
  <2> HIDE DEF D
  <2> QED BY <2>2, <2>4, MemoryIs
<1> QED BY <1>1, <1>2, <1>3, <1>4

\* memset and readn
LEMMA ZeroesAre ==
  ASSUME NEW a \in Int, NEW n \in Int
  PROVE  /\ DOMAIN Zeroes(a, n) = RangeOf(a, n) /\ Zeroes(a, n) \in Memories
         /\ \A b \in RangeOf(a, n) : Zeroes(a, n)[b] = 0
<1>1. RangeOf(a, n) \in SUBSET Int
  BY DEF RangeOf
<1>2. Zeroes(a, n) \in [RangeOf(a, n) -> Int]
  BY DEF Zeroes
<1>3. Zeroes(a, n) \in Memories
  BY <1>1, <1>2, MemoryIs
<1> QED BY <1>2, <1>3 DEF Zeroes

\* The bytes that are read from the file
LEMMA FileBytesAre ==
  ASSUME NEW a \in Int, NEW n \in Int, NEW offset \in Int
  PROVE  /\ DOMAIN FileBytes(a, offset, n) = RangeOf(a, n) /\ FileBytes(a, offset, n) \in Memories
         /\ \A b \in RangeOf(a, n) : FileBytes(a, offset, n)[b] = offset + (b - a) + 1
<1>1. RangeOf(a, n) \in SUBSET Int
  BY DEF RangeOf
<1>2. FileBytes(a, offset, n) \in [RangeOf(a, n) -> Int]
  <2>1. \A b \in RangeOf(a, n) : offset + (b - a) + 1 \in Int
    BY <1>1
  <2> QED BY <2>1 DEF FileBytes
<1>3. FileBytes(a, offset, n) \in Memories
  BY <1>1, <1>2, MemoryIs
<1> QED BY <1>2, <1>3 DEF FileBytes

\* The bytes of a segment lie in its pages.
LEMMA InExtent ==
  ASSUME NEW seg \in Segment
  PROVE  /\ seg.va \in Nat /\ seg.memsz \in Nat /\ seg.filesz \in Nat /\ seg.offset \in Nat
         /\ \A k \in 0 .. seg.memsz - 1 : seg.va + k \in Extent(seg) /\ seg.va + k \in Nat
         /\ Extent(seg) \in SUBSET Int
<1>1. seg.va \in Nat /\ seg.memsz \in Nat /\ seg.filesz \in Nat /\ seg.offset \in Nat
  BY DEF Segment
<1>2. PAGE \in Nat \ {0} /\ seg.va + seg.memsz \in Nat
  BY <1>1, LoaderAssumption
<1> DEFINE lo == RoundDown(seg.va, PAGE)
           hi == RoundUp(seg.va + seg.memsz, PAGE)
<1>3. lo \in Nat /\ lo <= seg.va
  BY <1>1, <1>2, Rounded
<1>4. hi \in Nat /\ seg.va + seg.memsz <= hi
  BY <1>2, Rounded
<1>5. Extent(seg) = lo .. hi - 1
  BY DEF Extent
<1> HIDE DEF lo, hi
<1> QED BY <1>1, <1>3, <1>4, <1>5

\* load_icode loads one segment and writes nowhere else.
LEMMA LoadsOne ==
  ASSUME NEW m \in Memories, NEW seg \in Segment, seg.filesz <= seg.memsz
  PROVE  /\ LoadSegment(m, seg) \in Memories
         /\ DOMAIN LoadSegment(m, seg) = Extent(seg) \cup DOMAIN m
         /\ \A b \in DOMAIN m \ Extent(seg) : LoadSegment(m, seg)[b] = m[b]
         /\ IsLoaded(LoadSegment(m, seg), seg, seg.filesz)
<1> DEFINE a == seg.va
           n == seg.memsz
           f == seg.filesz
           o == seg.offset
           E == Extent(seg)
           alloc == region_alloc(a, n)
           file == FileBytes(a, o, f)
           zero == Zeroes(a + f, n - f)
           mapped == Over(alloc, m)
           copied == Over(file, mapped)
           cleared == Over(zero, copied)
           t == LoadSegment(m, seg)
<1>1. /\ a \in Nat /\ n \in Nat /\ f \in Nat /\ o \in Nat /\ f <= n
      /\ \A k \in 0 .. n - 1 : a + k \in E /\ a + k \in Nat
      /\ E \in SUBSET Int
  BY InExtent
<1>2. alloc = [b \in E |-> Stale]
  BY DEF region_alloc, RegionEnd, Extent
<1>3. t = [b \in DOMAIN mapped |-> cleared[b]]
  <2>1. ~(seg.filesz > seg.memsz)
    BY <1>1
  <2> QED BY <2>1 DEF LoadSegment
<1>4. /\ DOMAIN file = RangeOf(a, f) /\ file \in Memories
      /\ \A b \in RangeOf(a, f) : file[b] = o + (b - a) + 1
  BY <1>1, FileBytesAre
<1>5. /\ DOMAIN zero = RangeOf(a + f, n - f) /\ zero \in Memories
      /\ \A b \in RangeOf(a + f, n - f) : zero[b] = 0
  <2>1. a + f \in Int /\ n - f \in Int
    BY <1>1
  <2> HIDE DEF a, n, f
  <2> QED BY <2>1, ZeroesAre
<1> HIDE DEF a, n, f, o, E, alloc, file, zero, t
<1>6. alloc \in Memories /\ DOMAIN alloc = E
  <2>1. alloc \in [E -> Int]
    BY <1>2 DEF Stale
  <2> QED BY <1>1, <2>1, MemoryIs
<1>7. DOMAIN mapped = E \cup DOMAIN m /\ mapped \in Memories
      /\ \A b \in DOMAIN m \ E : mapped[b] = m[b]
  <2>1. /\ DOMAIN Over(alloc, m) = DOMAIN alloc \cup DOMAIN m
        /\ \A b \in DOMAIN alloc : Over(alloc, m)[b] = alloc[b]
        /\ \A b \in DOMAIN m : b \notin DOMAIN alloc => Over(alloc, m)[b] = m[b]
        /\ alloc \in Memories /\ m \in Memories => Over(alloc, m) \in Memories
    BY OverIs
  <2>2. mapped = Over(alloc, m)
    OBVIOUS
  <2> HIDE DEF mapped
  <2> QED BY <2>1, <2>2, <1>6
<1>8. RangeOf(a, f) \subseteq E
  <2>1. ASSUME NEW b \in RangeOf(a, f) PROVE b \in E
    <3>1. b - a \in 0 .. n - 1 /\ a + (b - a) = b
      BY <1>1 DEF RangeOf
    <3> QED BY <1>1, <3>1
  <2> QED BY <2>1
<1>9. RangeOf(a + f, n - f) \subseteq E
  <2>1. ASSUME NEW b \in RangeOf(a + f, n - f) PROVE b \in E
    <3>1. b - a \in 0 .. n - 1 /\ a + (b - a) = b
      BY <1>1 DEF RangeOf
    <3> QED BY <1>1, <3>1
  <2> QED BY <2>1
<1> HIDE DEF mapped
<1>10. /\ DOMAIN copied = E \cup DOMAIN m /\ copied \in Memories
       /\ \A b \in RangeOf(a, f) : copied[b] = file[b]
       /\ \A b \in DOMAIN m \ E : copied[b] = m[b]
  <2>1. /\ DOMAIN Over(file, mapped) = DOMAIN file \cup DOMAIN mapped
        /\ \A b \in DOMAIN file : Over(file, mapped)[b] = file[b]
        /\ \A b \in DOMAIN mapped : b \notin DOMAIN file => Over(file, mapped)[b] = mapped[b]
        /\ file \in Memories /\ mapped \in Memories => Over(file, mapped) \in Memories
    BY OverIs
  <2>2. copied = Over(file, mapped)
    OBVIOUS
  <2> HIDE DEF copied
  <2> QED BY <2>1, <2>2, <1>4, <1>7, <1>8
<1> HIDE DEF copied
<1>11. /\ DOMAIN cleared = E \cup DOMAIN m /\ cleared \in Memories
       /\ \A b \in RangeOf(a + f, n - f) : cleared[b] = 0
       /\ \A b \in RangeOf(a, f) : b \notin RangeOf(a + f, n - f) => cleared[b] = file[b]
       /\ \A b \in DOMAIN m \ E : cleared[b] = m[b]
  <2>1. /\ DOMAIN Over(zero, copied) = DOMAIN zero \cup DOMAIN copied
        /\ \A b \in DOMAIN zero : Over(zero, copied)[b] = zero[b]
        /\ \A b \in DOMAIN copied : b \notin DOMAIN zero => Over(zero, copied)[b] = copied[b]
        /\ zero \in Memories /\ copied \in Memories => Over(zero, copied) \in Memories
    BY OverIs
  <2>2. cleared = Over(zero, copied)
    OBVIOUS
  <2> HIDE DEF cleared
  <2> QED BY <2>1, <2>2, <1>5, <1>8, <1>9, <1>10
<1> HIDE DEF cleared
<1>12. t = cleared
  <2>1. t = [b \in DOMAIN cleared |-> cleared[b]]
    BY <1>3, <1>7, <1>11
  <2>2. cleared \in [DOMAIN cleared -> Int]
    BY <1>11, MemoryIs
  <2> QED BY <2>1, <2>2
<1>13. /\ t \in Memories /\ DOMAIN t = E \cup DOMAIN m
       /\ \A b \in DOMAIN m \ E : t[b] = m[b]
       /\ \A b \in RangeOf(a + f, n - f) : t[b] = 0
       /\ \A b \in RangeOf(a, f) : b \notin RangeOf(a + f, n - f) => t[b] = file[b]
  BY <1>11, <1>12
<1>14. ASSUME NEW k \in 0 .. n - 1
       PROVE  a + k \in DOMAIN t /\ t[a + k] = IF k < f THEN o + k + 1 ELSE 0
  <2>1. a + k \in E
    BY <1>1, <1>14
  <2>2. CASE k < f
    <3>1. a + k \in RangeOf(a, f) /\ a + k \notin RangeOf(a + f, n - f)
          /\ o + ((a + k) - a) + 1 = o + k + 1
      BY <1>1, <2>2 DEF RangeOf
    <3>2. t[a + k] = file[a + k] /\ file[a + k] = o + ((a + k) - a) + 1
      <4>1. file[a + k] = o + ((a + k) - a) + 1
        BY <1>4, <3>1
      <4>2. t[a + k] = file[a + k]
        BY <1>13, <3>1
      <4> QED BY <4>1, <4>2
    <3>3. a + k \in DOMAIN t
      BY <1>13, <2>1
    <3> QED BY <2>2, <3>1, <3>2, <3>3
  <2>3. CASE ~(k < f)
    <3>1. a + k \in RangeOf(a + f, n - f)
      BY <1>1, <2>3 DEF RangeOf
    <3> QED BY <1>13, <2>1, <2>3, <3>1
  <2> QED BY <2>2, <2>3
<1>15. IsLoaded(t, seg, f)
  BY <1>14 DEF IsLoaded, a, n, f, o
<1> QED BY <1>15, <1>13 DEF t, E, f

\* A segment stays loaded when something is written elsewhere.
LEMMA StaysLoaded ==
  ASSUME NEW m, NEW n, NEW seg \in Segment, NEW len, IsLoaded(m, seg, len),
         NEW E, E \cap Extent(seg) = {},
         DOMAIN m \subseteq DOMAIN n,
         \A b \in DOMAIN m \ E : n[b] = m[b]
  PROVE  IsLoaded(n, seg, len)
<1>1. ASSUME NEW k \in 0 .. seg.memsz - 1
      PROVE  /\ seg.va + k \in DOMAIN n
             /\ n[seg.va + k] = IF k < len THEN seg.offset + k + 1 ELSE 0
  <2>1. seg.va + k \in DOMAIN m
        /\ m[seg.va + k] = IF k < len THEN seg.offset + k + 1 ELSE 0
    BY DEF IsLoaded
  <2>2. seg.va + k \notin E
    BY InExtent
  <2> QED BY <2>1, <2>2
<1> QED BY <1>1 DEF IsLoaded

\* The memories that load_icode goes through
Loads(x, segs) ==
  /\ x \in [0 .. Len(segs) -> Memories] /\ x[0] = <<>> /\ x[Len(segs)] = LoadIcode(segs)
  /\ \A k \in 1 .. Len(segs) : x[k] = LoadSegment(x[k - 1], segs[k])

\* LoadIcode is the last of those memories.
LEMMA LoadRuns ==
  ASSUME NEW segs \in Seq(Segment), \A k \in DOMAIN segs : segs[k].filesz <= segs[k].memsz
  PROVE  \E x : Loads(x, segs)
<1> DEFINE n == Len(segs)
           F == [p \in Memories \X (1 .. n) |-> LoadSegment(p[1], segs[p[2]])]
           P(h) == h = [S \in SUBSET (DOMAIN segs) |->
                          IF S = {} THEN <<>> ELSE LoadSegment(h[S \ {Max(S)}], segs[Max(S)])]
           g == CHOOSE h : P(h)
<1>1. n \in Nat /\ DOMAIN segs = 1 .. n /\ \A k \in 1 .. n : segs[k] \in Segment
  OBVIOUS
<1>2. LoadIcode(segs) = g[1 .. n]
  BY <1>1 DEF LoadIcode, FoldLeft, MapThenFoldSet
<1>3. \A u \in Memories, k \in 1 .. n : LoadSegment(u, segs[k]) \in Memories
  BY <1>1, LoadsOne
<1>4. F \in [Memories \X (1 .. n) -> Memories]
      /\ \A u \in Memories, k \in 1 .. n : F[<<u, k>>] = LoadSegment(u, segs[k])
  BY <1>3
<1> HIDE DEF F, n
<1>5. <<>> \in Memories
  BY MemoryIs
<1>6. P(g)
  <2>1. PICK h \in [SUBSET (1 .. n) -> Memories] : FoldsTo(h, 1 .. n, <<>>, F)
    BY <1>1, <1>4, <1>5, FoldExists
  <2>2. ASSUME NEW S \in SUBSET (1 .. n), S # {}
        PROVE  F[<<h[S \ {Max(S)}], Max(S)>>] = LoadSegment(h[S \ {Max(S)}], segs[Max(S)])
    <3>1. Max(S) \in 1 .. n /\ h[S \ {Max(S)}] \in Memories
      BY <1>1, <2>1, <2>2, MostOf
    <3> QED BY <1>4, <3>1
  <2>3. P(h)
    BY <1>1, <2>1, <2>2 DEF FoldsTo
  <2> QED BY <2>3
<1> HIDE DEF g
<1>7. g[{}] = <<>> /\ \A S \in SUBSET (1 .. n) : S # {} =>
        g[S] = LoadSegment(g[S \ {Max(S)}], segs[Max(S)])
  BY <1>1, <1>6
<1> HIDE DEF P
<1>8. ASSUME NEW S \in SUBSET (1 .. n), S # {}, g[S \ {Max(S)}] \in Memories
      PROVE  g[S] = F[<<g[S \ {Max(S)}], Max(S)>>]
  <2>1. Max(S) \in 1 .. n
    BY <1>1, <1>8, MostOf
  <2> QED BY <1>4, <1>7, <1>8, <2>1
<1>9. RunsTo(Memories, <<>>, n, F, g[1 .. n])
  BY <1>1, <1>4, <1>5, <1>7, <1>8, FoldRuns
<1>10. PICK x \in [0 .. n -> Memories] :
         x[0] = <<>> /\ x[n] = g[1 .. n] /\ \A k \in 1 .. n : x[k] = F[<<x[k - 1], k>>]
  BY <1>9 DEF RunsTo
<1>11. ASSUME NEW k \in 1 .. n PROVE x[k] = LoadSegment(x[k - 1], segs[k])
  <2>1. k - 1 \in 0 .. n /\ x[k - 1] \in Memories
    BY <1>1, <1>10
  <2> QED BY <1>4, <1>10, <2>1
<1> QED BY <1>2, <1>10, <1>11 DEF Loads, n

\* load_icode loads every segment.
LEMMA KernelLoads ==
  ASSUME NEW call \in Calls
  PROVE  \A i \in DOMAIN call.segs : IsLoaded(LoadIcode(call.segs), call.segs[i], call.segs[i].filesz)
<1> DEFINE segs == call.segs
           n == Len(segs)
<1>1. /\ segs \in Seq(Segment)
      /\ \A i \in DOMAIN segs :
           /\ segs[i].filesz <= segs[i].memsz
           /\ \A j \in DOMAIN segs \ {i} : Extent(segs[i]) \cap Extent(segs[j]) = {}
  BY CallsAssumption
<1>2. n \in Nat /\ DOMAIN segs = 1 .. n /\ \A k \in 1 .. n : segs[k] \in Segment
  BY <1>1
<1>3. PICK x : Loads(x, segs)
  BY <1>1, LoadRuns
<1> HIDE DEF segs
<1>4. /\ x \in [0 .. n -> Memories] /\ x[n] = LoadIcode(segs)
      /\ \A k \in 1 .. n : x[k] = LoadSegment(x[k - 1], segs[k])
  BY <1>3 DEF Loads
<1> HIDE DEF n
<1> DEFINE Q == {k \in 0 .. n : \A i \in 1 .. k : IsLoaded(x[k], segs[i], segs[i].filesz)}
<1>5. 0 \in Q
  BY <1>2
<1>6. ASSUME NEW k \in 1 .. n, k - 1 \in Q PROVE k \in Q
  <2>1. /\ k \in Nat /\ k \in 0 .. n /\ k - 1 \in 0 .. n /\ x[k - 1] \in Memories
        /\ segs[k] \in Segment /\ segs[k].filesz <= segs[k].memsz
    <3>1. k \in Nat /\ k \in 0 .. n /\ k - 1 \in 0 .. n /\ k \in DOMAIN segs
      BY <1>2
    <3>2. x[k - 1] \in Memories
      BY <1>4, <3>1
    <3> QED BY <1>1, <1>2, <3>1, <3>2
  <2>2. /\ DOMAIN x[k] = Extent(segs[k]) \cup DOMAIN x[k - 1]
        /\ \A b \in DOMAIN x[k - 1] \ Extent(segs[k]) : x[k][b] = x[k - 1][b]
        /\ IsLoaded(x[k], segs[k], segs[k].filesz)
    BY <1>4, <2>1, LoadsOne
  <2>3. ASSUME NEW i \in 1 .. k PROVE IsLoaded(x[k], segs[i], segs[i].filesz)
    <3>1. CASE i = k
      BY <2>2, <3>1
    <3>2. CASE i # k
      <4>1. i \in 1 .. k - 1 /\ i \in 1 .. n /\ i \in DOMAIN segs \ {k} /\ k \in DOMAIN segs
        BY <1>2, <2>1, <3>2
      <4>2. IsLoaded(x[k - 1], segs[i], segs[i].filesz)
        BY <1>6, <4>1
      <4>3. Extent(segs[k]) \cap Extent(segs[i]) = {}
        BY <1>1, <4>1
      <4>4. segs[i] \in Segment /\ DOMAIN x[k - 1] \subseteq DOMAIN x[k]
        BY <1>2, <2>2, <4>1
      <4>5. \A b \in DOMAIN x[k - 1] \ Extent(segs[k]) : x[k][b] = x[k - 1][b]
        BY <2>2
      <4> HIDE DEF Q
      <4> QED BY <4>2, <4>3, <4>4, <4>5, StaysLoaded
    <3> QED BY <3>1, <3>2
  <2> QED BY <2>1, <2>3
<1>7. n \in Q
  <2>1. \A k \in 0 .. n : k \in Q
    <3> HIDE DEF Q
    <3> QED BY <1>2, <1>5, <1>6, UpTo
  <2> QED BY <1>2, <2>1
<1>8. \A i \in DOMAIN segs : IsLoaded(LoadIcode(segs), segs[i], segs[i].filesz)
  BY <1>2, <1>4, <1>7
<1> QED BY <1>8 DEF segs

\* A multiple has no remainder, and its quotient is the factor.
LEMMA MultipleIs ==
  ASSUME NEW c \in Nat \ {0}, NEW q \in Nat
  PROVE  c * q \in Nat /\ (c * q) % c = 0 /\ (c * q) \div c = q
<1> DEFINE a == c * q
           d == a \div c
           r == a % c
<1>1. a \in Nat
  OBVIOUS
<1>2. d \in Nat /\ r \in 0 .. c - 1 /\ a = c * d + r
  BY <1>1, Divided
<1>3. c * d \in Nat /\ a = c * q
  BY <1>2
<1> HIDE DEF a, d, r
<1>4. ASSUME d < q PROVE FALSE
  <2>1. c * d + c <= c * q
    BY <1>2, <1>4, Multiples
  <2> QED BY <1>1, <1>2, <1>3, <2>1
<1>5. ASSUME q < d PROVE FALSE
  <2>1. c * q + c <= c * d
    BY <1>2, <1>5, Multiples
  <2> QED BY <1>1, <1>2, <1>3, <2>1
<1>6. d = q => r = 0
  <2> HAVE d = q
  <2>1. c * d = c * q
    OBVIOUS
  <2> QED BY <1>2, <1>3, <2>1
<1>7. d = q
  BY <1>2, <1>4, <1>5
<1>8. r = 0 /\ a \in Nat
  BY <1>1, <1>6, <1>7
<1> QED BY <1>7, <1>8 DEF a, d, r

\* The next page begins where one ends.
LEMMA NextMultiple ==
  ASSUME NEW c \in Nat \ {0}, NEW a \in Nat, a % c = 0
  PROVE  (a + c) % c = 0
<1> DEFINE d == a \div c
<1>1. d \in Nat /\ a = c * d
  BY Divided
<1> HIDE DEF d
<1>2. d + 1 \in Nat /\ c * (d + 1) = c * d + c
  BY <1>1
<1>3. (c * (d + 1)) % c = 0
  BY <1>2, MultipleIs
<1> QED BY <1>1, <1>2, <1>3

\* The first i bytes of the pages of a segment, of which the file has len, are as
\* they should be.
LoadedTo(m, seg, len, i) ==
  \A k \in 0 .. seg.memsz - 1 :
    (seg.va % PAGE) + k < i =>
      /\ seg.va + k \in DOMAIN m
      /\ m[seg.va + k] = IF k < len THEN seg.offset + k + 1 ELSE 0

\* One page p of a segment, at an address, with the file up to f of its offsets
PageHolds(seg, i, at, p, f, o) ==
  /\ i \in Nat /\ i % PAGE = 0 /\ at \in Nat
  /\ p \in Memories /\ DOMAIN p = RangeOf(at, PAGE) /\ RangeOf(at, PAGE) \subseteq Extent(seg)
  /\ \A b \in RangeOf(at, PAGE) :
       p[b] = IF i >= f \/ b - at >= f - i THEN 0 ELSE o + (b - at) + 1

\* SegmentPage is such a page: map_segment reads the right part of the file.
LEMMA PageIs ==
  ASSUME NEW seg \in Segment, seg.filesz <= seg.memsz, NEW i \in SegmentPages(seg), NEW size \in Nat
  PROVE  PageHolds(seg, i, seg.va - (seg.va % PAGE) + i, SegmentPage(seg, i, size),
                   BytesInFile(seg, size) + (seg.va % PAGE), seg.offset - (seg.va % PAGE) + i)
<1> DEFINE off == seg.va % PAGE
           va == seg.va - off
           at == va + i
           g == seg.filesz + off
           f == BytesInFile(seg, size) + off
           o == seg.offset - off + i
           len == Lower(FromFile(g, i), size - o)
           zero == Zeroes(at, PAGE)
           file == FileBytes(at, o, len)
           p == SegmentPage(seg, i, size)
<1>1. /\ seg.va \in Nat /\ seg.memsz \in Nat /\ seg.filesz \in Nat /\ seg.offset \in Nat
      /\ PAGE \in Nat \ {0} /\ seg.va + seg.memsz \in Nat
  BY InExtent, LoaderAssumption
<1>2. off \in 0 .. PAGE - 1 /\ va = PAGE * (seg.va \div PAGE) /\ seg.va \div PAGE \in Nat
      /\ va = RoundDown(seg.va, PAGE) /\ va \in Nat
  <2>1. seg.va \div PAGE \in Nat /\ off \in 0 .. PAGE - 1
        /\ seg.va = PAGE * (seg.va \div PAGE) + off
    BY <1>1, Divided
  <2>2. va = RoundDown(seg.va, PAGE) /\ RoundDown(seg.va, PAGE) \in Nat
    BY <1>1, Rounded
  <2>3. PAGE * (seg.va \div PAGE) \in Nat
    BY <1>1, <2>1
  <2> HIDE DEF off
  <2> QED BY <1>1, <2>1, <2>2, <2>3
<1>3. i \in Nat /\ i % PAGE = 0 /\ i < seg.memsz + off
  <2>1. seg.memsz + off \in Nat
    BY <1>1, <1>2
  <2>2. i \in {j \in 0 .. seg.memsz + off : j % PAGE = 0 /\ j < seg.memsz + off}
    BY DEF SegmentPages
  <2> HIDE DEF off
  <2> QED BY <2>1, <2>2
<1>4. i \div PAGE \in Nat /\ i = PAGE * (i \div PAGE)
  BY <1>1, <1>3, Divided
<1>5. p = IF i >= g THEN zero ELSE Over(file, zero)
  BY DEF SegmentPage
<1>6. seg.va = va + off
  <2> HIDE DEF off
  <2> QED BY <1>1, <1>2
<1>7. g = seg.filesz + off /\ o = seg.offset - off + i /\ at = va + i
      /\ f = (IF seg.filesz < size - seg.offset THEN seg.filesz ELSE size - seg.offset) + off
  BY DEF BytesInFile, Lower
<1> HIDE DEF off, va, at, f, g, o, p
<1>8. at \in Nat /\ f \in Int /\ f <= g /\ g \in Nat /\ o \in Int
  BY <1>1, <1>2, <1>3, <1>7
<1>v. va \in Nat /\ off \in Nat
  BY <1>1, <1>2
<1>9. at + PAGE <= RoundUp(seg.va + seg.memsz, PAGE)
  <2> DEFINE q == (seg.va \div PAGE) + (i \div PAGE)
  <2>1. q \in Nat /\ PAGE * q = PAGE * (seg.va \div PAGE) + PAGE * (i \div PAGE)
    BY <1>1, <1>2, <1>4
  <2>2. PAGE * q = at
    BY <1>2, <1>4, <1>7, <2>1
  <2>3. at < seg.va + seg.memsz
    BY <1>1, <1>v, <1>3, <1>6, <1>7
  <2> HIDE DEF q
  <2>4. q \in Int /\ PAGE * q < seg.va + seg.memsz
    BY <2>1, <2>2, <2>3
  <2>5. PAGE * q + PAGE <= RoundUp(seg.va + seg.memsz, PAGE)
    BY <1>1, <2>4, RoundsOver
  <2> QED BY <2>2, <2>5
<1>10. RangeOf(at, PAGE) \subseteq Extent(seg)
  <2>1. RoundUp(seg.va + seg.memsz, PAGE) \in Nat
    BY <1>1, Rounded
  <2>2. Extent(seg) = va .. RoundUp(seg.va + seg.memsz, PAGE) - 1
    BY <1>2 DEF Extent
  <2>3. va <= at
    BY <1>v, <1>3, <1>7
  <2> QED BY <1>1, <1>v, <1>8, <1>9, <2>1, <2>2, <2>3 DEF RangeOf
<1>11. /\ DOMAIN zero = RangeOf(at, PAGE) /\ zero \in Memories
       /\ \A b \in RangeOf(at, PAGE) : zero[b] = 0
  BY <1>1, <1>8, ZeroesAre
<1>12. len = IF f - i < PAGE THEN f - i ELSE PAGE
  <2>1. len = Lower(Lower(g - i, PAGE), size - o)
    BY DEF FromFile
  <2>2. f - i = IF g - i < size - o THEN g - i ELSE size - o
    BY <1>1, <1>v, <1>3, <1>7
  <2> QED BY <1>1, <1>3, <1>8, <2>1, <2>2 DEF Lower
<1> HIDE DEF zero, len
<1>13. len \in Int /\ len <= PAGE /\ len <= f - i
  BY <1>1, <1>3, <1>8, <1>12
<1>14. /\ DOMAIN file = RangeOf(at, len) /\ file \in Memories
       /\ \A b \in RangeOf(at, len) : file[b] = o + (b - at) + 1
  BY <1>8, <1>13, FileBytesAre
<1>15. RangeOf(at, len) \subseteq RangeOf(at, PAGE)
  BY <1>1, <1>8, <1>13 DEF RangeOf
<1> HIDE DEF file
<1>16. CASE i >= g
  <2>1. p = zero
    BY <1>5, <1>16
  <2>2. PageHolds(seg, i, at, p, f, o)
    <3>1. i >= f
      BY <1>3, <1>8, <1>16
    <3> QED BY <1>3, <1>8, <1>10, <1>11, <2>1, <3>1 DEF PageHolds
  <2> QED BY <2>2 DEF off, va, at, p, f, o
<1>17. CASE ~(i >= g)
  <2>1. p = Over(file, zero)
    BY <1>5, <1>17
  <2>2. /\ DOMAIN p = RangeOf(at, PAGE) /\ p \in Memories
        /\ \A b \in RangeOf(at, len) : p[b] = file[b]
        /\ \A b \in RangeOf(at, PAGE) : b \notin RangeOf(at, len) => p[b] = 0
    <3>1. /\ DOMAIN Over(file, zero) = DOMAIN file \cup DOMAIN zero
          /\ \A b \in DOMAIN file : Over(file, zero)[b] = file[b]
          /\ \A b \in DOMAIN zero : b \notin DOMAIN file => Over(file, zero)[b] = zero[b]
          /\ file \in Memories /\ zero \in Memories => Over(file, zero) \in Memories
      BY OverIs
    <3> QED BY <1>11, <1>14, <1>15, <2>1, <3>1
  <2>3. ASSUME NEW b \in RangeOf(at, PAGE)
        PROVE  p[b] = IF i >= f \/ b - at >= f - i THEN 0 ELSE o + (b - at) + 1
    <3>1. b \in Int /\ at <= b /\ b < at + PAGE
      BY <1>1, <1>8 DEF RangeOf
    <3>2. CASE b - at >= f - i
      <4>1. b \notin RangeOf(at, len)
        BY <1>3, <1>8, <1>13, <3>1, <3>2 DEF RangeOf
      <4> QED BY <2>2, <3>2, <4>1
    <3>3. CASE ~(b - at >= f - i)
      <4>1. b \in RangeOf(at, len)
        BY <1>1, <1>3, <1>8, <1>12, <3>1, <3>3 DEF RangeOf
      <4>2. ~(i >= f)
        BY <1>3, <1>8, <3>1, <3>3
      <4> QED BY <1>14, <2>2, <3>3, <4>1, <4>2
    <3> QED BY <3>2, <3>3
  <2>4. \A b \in RangeOf(at, PAGE) :
          p[b] = IF i >= f \/ b - at >= f - i THEN 0 ELSE o + (b - at) + 1
    BY <2>3
  <2>5. PageHolds(seg, i, at, p, f, o)
    BY <1>3, <1>8, <1>10, <2>2, <2>4 DEF PageHolds
  <2> QED BY <2>5 DEF off, va, at, p, f, o
<1> QED BY <1>16, <1>17

\* After a page is loaded so much more of the segment is.
LEMMA PageLoads ==
  ASSUME NEW seg \in Segment, seg.filesz <= seg.memsz, NEW i \in SegmentPages(seg),
         NEW size \in Nat, NEW m \in Memories, LoadedTo(m, seg, BytesInFile(seg, size), i)
  PROVE  /\ Over(SegmentPage(seg, i, size), m) \in Memories
         /\ DOMAIN m \subseteq DOMAIN Over(SegmentPage(seg, i, size), m)
         /\ \A b \in DOMAIN m \ Extent(seg) : Over(SegmentPage(seg, i, size), m)[b] = m[b]
         /\ LoadedTo(Over(SegmentPage(seg, i, size), m), seg, BytesInFile(seg, size), i + PAGE)
         /\ i \in Nat /\ (i + PAGE) % PAGE = 0
<1> DEFINE off == seg.va % PAGE
           at == seg.va - off + i
           len == BytesInFile(seg, size)
           f == len + off
           o == seg.offset - off + i
           p == SegmentPage(seg, i, size)
           n == Over(p, m)
<1>h. PageHolds(seg, i, at, p, f, o)
  BY PageIs
<1>1. /\ i \in Nat /\ i % PAGE = 0 /\ at \in Nat
      /\ p \in Memories /\ DOMAIN p = RangeOf(at, PAGE) /\ RangeOf(at, PAGE) \subseteq Extent(seg)
  BY <1>h DEF PageHolds
<1>2. \A b \in RangeOf(at, PAGE) :
         p[b] = IF i >= f \/ b - at >= f - i THEN 0 ELSE o + (b - at) + 1
  BY <1>h DEF PageHolds
<1>3. /\ seg.va \in Nat /\ seg.memsz \in Nat /\ seg.filesz \in Nat /\ seg.offset \in Nat
      /\ PAGE \in Nat \ {0} /\ off \in Nat
  <2>1. off \in 0 .. PAGE - 1
    BY InExtent, LoaderAssumption, Divided
  <2> QED BY <2>1, InExtent, LoaderAssumption
<1>l. len \in Int
  BY <1>3 DEF BytesInFile, Lower
<1>4. /\ DOMAIN n = DOMAIN p \cup DOMAIN m
      /\ \A b \in DOMAIN p : n[b] = p[b]
      /\ \A b \in DOMAIN m : b \notin DOMAIN p => n[b] = m[b]
      /\ n \in Memories
  <2> HIDE DEF p
  <2> QED BY <1>1, OverIs
<1>5. \A k \in 0 .. seg.memsz - 1 : off + k < i =>
        /\ seg.va + k \in DOMAIN m
        /\ m[seg.va + k] = IF k < len THEN seg.offset + k + 1 ELSE 0
  BY DEF LoadedTo
<1>6. at = seg.va - off + i /\ f = len + off /\ o = seg.offset - off + i
  OBVIOUS
<1>7. (i + PAGE) % PAGE = 0
  BY <1>1, <1>3, NextMultiple
<1> HIDE DEF off, at, len, f, o, p, n
<1>8. ASSUME NEW k \in 0 .. seg.memsz - 1, off + k < i + PAGE
      PROVE  /\ seg.va + k \in DOMAIN n
             /\ n[seg.va + k] = IF k < len THEN seg.offset + k + 1 ELSE 0
  <2>1. CASE off + k < i
    <3>1. seg.va + k \notin RangeOf(at, PAGE)
      BY <1>1, <1>3, <1>6, <2>1 DEF RangeOf
    <3>2. seg.va + k \in DOMAIN m /\ n[seg.va + k] = m[seg.va + k]
      BY <1>1, <1>4, <1>5, <2>1, <3>1
    <3> QED BY <1>4, <1>5, <2>1, <3>2
  <2>2. CASE ~(off + k < i)
    <3>1. seg.va + k \in RangeOf(at, PAGE) /\ (seg.va + k) - at = off + k - i
      <4>1. off + k >= i /\ off + k < i + PAGE /\ k \in Int
        BY <1>1, <1>3, <1>8, <2>2
      <4>2. at <= seg.va + k /\ seg.va + k < at + PAGE /\ (seg.va + k) - at = off + k - i
        <5>1. i \in Nat /\ at \in Nat /\ PAGE \in Nat /\ off \in Nat /\ seg.va \in Nat
          BY <1>1, <1>3
        <5> QED BY <1>6, <4>1, <5>1
      <4> QED BY <1>1, <1>3, <4>1, <4>2 DEF RangeOf
    <3>2. p[seg.va + k] = IF i >= f \/ off + k - i >= f - i THEN 0 ELSE o + (off + k - i) + 1
      BY <1>2, <3>1
    <3>3. i >= f \/ off + k - i >= f - i <=> ~(k < len)
      BY <1>1, <1>3, <1>l, <1>6, <2>2
    <3>4. o + (off + k - i) + 1 = seg.offset + k + 1
      BY <1>1, <1>3, <1>6
    <3>5. p[seg.va + k] = IF k < len THEN seg.offset + k + 1 ELSE 0
      BY <3>2, <3>3, <3>4
    <3> QED BY <1>1, <1>4, <3>1, <3>5
  <2> QED BY <2>1, <2>2
<1>9. LoadedTo(n, seg, len, i + PAGE)
  BY <1>8 DEF LoadedTo, off
<1>10. \A b \in DOMAIN m \ Extent(seg) : n[b] = m[b]
  BY <1>1, <1>4
<1> QED BY <1>1, <1>4, <1>7, <1>9, <1>10 DEF n, p, len

\* When there is no page left, all of it is.
LEMMA LoadsAll ==
  ASSUME NEW seg \in Segment, NEW i \in Nat, i % PAGE = 0, i \notin SegmentPages(seg),
         NEW m, NEW len, LoadedTo(m, seg, len, i)
  PROVE  IsLoaded(m, seg, len)
<1> DEFINE off == seg.va % PAGE
           n == seg.memsz + off
<1>1. seg.memsz \in Nat /\ off \in 0 .. PAGE - 1 /\ PAGE \in Nat /\ n \in Nat
  <2>1. seg.memsz \in Nat /\ seg.va \in Nat /\ PAGE \in Nat \ {0}
    BY InExtent, LoaderAssumption
  <2>2. off \in 0 .. PAGE - 1
    BY <2>1, Divided
  <2> HIDE DEF off
  <2> QED BY <2>1, <2>2
<1>2. SegmentPages(seg) = {j \in 0 .. n : j % PAGE = 0 /\ j < n}
  BY DEF SegmentPages
<1>3. n = seg.memsz + off
  OBVIOUS
<1> HIDE DEF off, n
<1>4. i >= n
  BY <1>1, <1>2
<1>5. \A k \in 0 .. seg.memsz - 1 : off + k < i
  BY <1>1, <1>3, <1>4
<1> QED BY <1>5 DEF LoadedTo, IsLoaded, off

Arguments == Seq(Seq(Nat \ {0}))

\* The sizes that init_stack adds up
Sums(x, argv) ==
  /\ x \in [0 .. Len(argv) -> Nat] /\ x[0] = 0
  /\ \A k \in 1 .. Len(argv) : x[k] = x[k - 1] + Len(argv[k]) + 1

\* StringSize is the last of these sums.
LEMMA SizeRuns ==
  ASSUME NEW argv \in Arguments
  PROVE  \E x : Sums(x, argv) /\ x[Len(argv)] = StringSize(argv)
<1> DEFINE n == Len(argv)
           F == [p \in Nat \X (1 .. n) |-> p[1] + Len(argv[p[2]]) + 1]
           P(h) == h = [S \in SUBSET (DOMAIN argv) |->
                          IF S = {} THEN 0 ELSE h[S \ {Max(S)}] + Len(argv[Max(S)]) + 1]
           g == CHOOSE h : P(h)
<1>1. n \in Nat /\ DOMAIN argv = 1 .. n /\ \A k \in 1 .. n : Len(argv[k]) \in Nat
  BY DEF Arguments
<1>2. StringSize(argv) = g[1 .. n]
  BY <1>1 DEF StringSize, FoldLeft, MapThenFoldSet
<1>3. F \in [Nat \X (1 .. n) -> Nat]
      /\ \A u \in Nat, k \in 1 .. n : F[<<u, k>>] = u + Len(argv[k]) + 1
  BY <1>1
<1> HIDE DEF F, n
<1>4. P(g)
  <2>1. PICK h \in [SUBSET (1 .. n) -> Nat] : FoldsTo(h, 1 .. n, 0, F)
    BY <1>1, <1>3, FoldExists
  <2>2. ASSUME NEW S \in SUBSET (1 .. n), S # {}
        PROVE  F[<<h[S \ {Max(S)}], Max(S)>>] = h[S \ {Max(S)}] + Len(argv[Max(S)]) + 1
    <3>1. Max(S) \in 1 .. n /\ h[S \ {Max(S)}] \in Nat
      BY <1>1, <2>1, <2>2, MostOf
    <3> QED BY <1>3, <3>1
  <2>3. P(h)
    BY <1>1, <2>1, <2>2 DEF FoldsTo
  <2> QED BY <2>3
<1> HIDE DEF g
<1>5. g[{}] = 0 /\ \A S \in SUBSET (1 .. n) : S # {} =>
        g[S] = g[S \ {Max(S)}] + Len(argv[Max(S)]) + 1
  BY <1>1, <1>4
<1> HIDE DEF P
<1>6. ASSUME NEW S \in SUBSET (1 .. n), S # {}, g[S \ {Max(S)}] \in Nat
      PROVE  g[S] = F[<<g[S \ {Max(S)}], Max(S)>>]
  <2>1. Max(S) \in 1 .. n
    BY <1>1, <1>6, MostOf
  <2> QED BY <1>3, <1>5, <1>6, <2>1
<1>z. 0 \in Nat /\ n \in Nat
  BY <1>1
<1>f. F \in [Nat \X (1 .. n) -> Nat]
  BY <1>3
<1>b. g[{}] = 0
  BY <1>5
<1>7. RunsTo(Nat, 0, n, F, g[1 .. n])
  BY <1>z, <1>f, <1>b, <1>6, FoldRuns
<1>8. PICK x \in [0 .. n -> Nat] :
         x[0] = 0 /\ x[n] = g[1 .. n] /\ \A k \in 1 .. n : x[k] = F[<<x[k - 1], k>>]
  BY <1>7 DEF RunsTo
<1>9. ASSUME NEW k \in 1 .. n PROVE x[k] = x[k - 1] + Len(argv[k]) + 1
  <2>0. k - 1 \in 0 .. n
    BY <1>1
  <2>1. x[k - 1] \in Nat
    BY <1>8, <2>0
  <2> QED BY <1>3, <1>8, <2>1
<1> QED BY <1>2, <1>8, <1>9 DEF Sums, n

\* The size of the first arguments is one of the sums.
LEMMA SizeOfFirst ==
  ASSUME NEW argv \in Arguments, NEW x, Sums(x, argv), NEW j \in 0 .. Len(argv)
  PROVE  StringSize(SubSeq(argv, 1, j)) = x[j]
<1> DEFINE s == SubSeq(argv, 1, j)
<1>1. Len(argv) \in Nat /\ s \in Arguments /\ Len(s) = j /\ j \in Nat
      /\ \A k \in 1 .. j : s[k] = argv[k]
  BY DEF Arguments
<1> HIDE DEF s
<1>2. PICK y : Sums(y, s) /\ y[Len(s)] = StringSize(s)
  BY <1>1, SizeRuns
<1> DEFINE Q == {k \in 0 .. j : y[k] = x[k]}
<1>3. 0 \in Q
  BY <1>1, <1>2 DEF Sums
<1>4. ASSUME NEW k \in 1 .. j, k - 1 \in Q PROVE k \in Q
  <2>1. y[k] = y[k - 1] + Len(s[k]) + 1
    BY <1>1, <1>2 DEF Sums
  <2>2. k \in 1 .. Len(argv)
    BY <1>1
  <2>3. x[k] = x[k - 1] + Len(argv[k]) + 1
    BY <2>2 DEF Sums
  <2> QED BY <1>1, <1>4, <2>1, <2>3
<1>5. j \in Q
  <2>1. \A k \in 0 .. j : k \in Q
    <3> HIDE DEF Q
    <3> QED BY <1>1, <1>3, <1>4, UpTo
  <2> QED BY <1>1, <2>1
<1> QED BY <1>1, <1>2, <1>5 DEF s

\* Later sums are larger.
LEMMA SumsGrow ==
  ASSUME NEW argv \in Arguments, NEW x, Sums(x, argv),
         NEW i \in 0 .. Len(argv), NEW j \in 0 .. Len(argv), i <= j
  PROVE  x[i] \in Nat /\ x[j] \in Nat /\ x[i] <= x[j]
<1>1. Len(argv) \in Nat /\ i \in Nat /\ j \in Nat /\ \A k \in 1 .. Len(argv) : Len(argv[k]) \in Nat
  BY DEF Arguments
<1>2. \A k \in 0 .. Len(argv) : x[k] \in Nat
  BY DEF Sums
<1> DEFINE Q == {k \in 0 .. j - i : x[i] <= x[i + k]}
<1>3. 0 \in Q
  BY <1>1, <1>2
<1>4. ASSUME NEW k \in 1 .. j - i, k - 1 \in Q PROVE k \in Q
  <2>1. i + k \in 1 .. Len(argv) /\ i + (k - 1) \in 0 .. Len(argv) /\ (i + k) - 1 = i + (k - 1)
    BY <1>1
  <2>2. x[i + k] = x[i + (k - 1)] + Len(argv[i + k]) + 1
    BY <2>1 DEF Sums
  <2>3. x[i + k] \in Nat /\ x[i + (k - 1)] \in Nat /\ Len(argv[i + k]) \in Nat /\ x[i] \in Nat
    BY <1>1, <1>2, <2>1
  <2>4. x[i] <= x[i + (k - 1)]
    BY <1>4
  <2> DEFINE u == x[i]
             v == x[i + (k - 1)]
             w == x[i + k]
             l == Len(argv[i + k])
  <2>7. w = v + l + 1 /\ w \in Nat /\ v \in Nat /\ l \in Nat /\ u \in Nat /\ u <= v
    BY <2>2, <2>3, <2>4
  <2> HIDE DEF u, v, w, l
  <2>8. u <= w
    BY <2>7
  <2>5. x[i] <= x[i + k]
    BY <2>8 DEF u, w
  <2>6. k \in 0 .. j - i
    BY <1>1
  <2> QED BY <2>5, <2>6
<1>5. j - i \in Q
  <2>1. j - i \in Nat /\ j - i \in 0 .. j - i
    BY <1>1
  <2>2. \A k \in 0 .. j - i : k \in Q
    <3> HIDE DEF Q
    <3> QED BY <2>1, <1>3, <1>4, UpTo
  <2> QED BY <2>1, <2>2
<1>6. i + (j - i) = j
  BY <1>1
<1> QED BY <1>2, <1>5, <1>6

\* The pages that init_stack goes through
LEMMA StoresRun ==
  ASSUME NEW page \in Memories, NEW stores \in Seq(Memories)
  PROVE  \E x \in [0 .. Len(stores) -> Memories] :
           /\ x[0] = page /\ x[Len(stores)] = WithStores(page, stores)
           /\ \A k \in 1 .. Len(stores) : x[k] = Over(stores[k], x[k - 1])
<1> DEFINE n == Len(stores)
           F == [p \in Memories \X (1 .. n) |-> Over(stores[p[2]], p[1])]
           P(h) == h = [S \in SUBSET (DOMAIN stores) |->
                          IF S = {} THEN page ELSE Over(stores[Max(S)], h[S \ {Max(S)}])]
           g == CHOOSE h : P(h)
<1>1. n \in Nat /\ DOMAIN stores = 1 .. n /\ \A k \in 1 .. n : stores[k] \in Memories
  OBVIOUS
<1>2. WithStores(page, stores) = g[1 .. n]
  BY <1>1 DEF WithStores, FoldLeft, MapThenFoldSet
<1>3. \A u \in Memories, k \in 1 .. n : Over(stores[k], u) \in Memories
  BY <1>1, OverIs
<1>4. F \in [Memories \X (1 .. n) -> Memories]
      /\ \A u \in Memories, k \in 1 .. n : F[<<u, k>>] = Over(stores[k], u)
  BY <1>3
<1> HIDE DEF F, n
<1>6. P(g)
  <2>1. PICK h \in [SUBSET (1 .. n) -> Memories] : FoldsTo(h, 1 .. n, page, F)
    BY <1>1, <1>4, FoldExists
  <2>2. ASSUME NEW S \in SUBSET (1 .. n), S # {}
        PROVE  F[<<h[S \ {Max(S)}], Max(S)>>] = Over(stores[Max(S)], h[S \ {Max(S)}])
    <3>1. Max(S) \in 1 .. n /\ h[S \ {Max(S)}] \in Memories
      BY <1>1, <2>1, <2>2, MostOf
    <3> QED BY <1>4, <3>1
  <2>3. P(h)
    BY <1>1, <2>1, <2>2 DEF FoldsTo
  <2> QED BY <2>3
<1> HIDE DEF g
<1>7. g[{}] = page /\ \A S \in SUBSET (1 .. n) : S # {} =>
        g[S] = Over(stores[Max(S)], g[S \ {Max(S)}])
  BY <1>1, <1>6
<1> HIDE DEF P
<1>8. ASSUME NEW S \in SUBSET (1 .. n), S # {}, g[S \ {Max(S)}] \in Memories
      PROVE  g[S] = F[<<g[S \ {Max(S)}], Max(S)>>]
  <2>1. Max(S) \in 1 .. n
    BY <1>1, <1>8, MostOf
  <2> QED BY <1>4, <1>7, <1>8, <2>1
<1>9. RunsTo(Memories, page, n, F, g[1 .. n])
  BY <1>1, <1>4, <1>7, <1>8, FoldRuns
<1>10. PICK x \in [0 .. n -> Memories] :
         x[0] = page /\ x[n] = g[1 .. n] /\ \A k \in 1 .. n : x[k] = F[<<x[k - 1], k>>]
  BY <1>9 DEF RunsTo
<1>11. ASSUME NEW k \in 1 .. n PROVE x[k] = Over(stores[k], x[k - 1])
  <2>1. k - 1 \in 0 .. n /\ x[k - 1] \in Memories
    BY <1>1, <1>10
  <2> QED BY <1>4, <1>10, <2>1
<1> QED BY <1>2, <1>10, <1>11 DEF n

\* What is stored and not overwritten is there in the end.
LEMMA LastStore ==
  ASSUME NEW page \in Memories, NEW stores \in Seq(Memories)
  PROVE  LET n == Len(stores)
             last == WithStores(page, stores)
         IN  /\ last \in Memories /\ DOMAIN page \subseteq DOMAIN last
             /\ \A k \in 1 .. n : \A b \in DOMAIN stores[k] :
                  (\A j \in k + 1 .. n : b \notin DOMAIN stores[j]) => last[b] = stores[k][b]
<1> DEFINE n == Len(stores)
           last == WithStores(page, stores)
<1>1. PICK x \in [0 .. n -> Memories] :
        x[0] = page /\ x[n] = last /\ \A k \in 1 .. n : x[k] = Over(stores[k], x[k - 1])
  BY StoresRun
<1>2. n \in Nat
  OBVIOUS
<1> HIDE DEF n, last
<1>3. ASSUME NEW k \in 1 .. n
      PROVE  /\ DOMAIN x[k] = DOMAIN stores[k] \cup DOMAIN x[k - 1]
             /\ \A b \in DOMAIN stores[k] : x[k][b] = stores[k][b]
             /\ \A b \in DOMAIN x[k - 1] : b \notin DOMAIN stores[k] => x[k][b] = x[k - 1][b]
  <2>1. x[k] = Over(stores[k], x[k - 1])
    BY <1>1
  <2> DEFINE f == stores[k]
             m == x[k - 1]
             t == x[k]
  <2>2. t = Over(f, m)
    BY <2>1
  <2> HIDE DEF f, m, t
  <2>3. /\ DOMAIN t = DOMAIN f \cup DOMAIN m
        /\ \A b \in DOMAIN f : t[b] = f[b]
        /\ \A b \in DOMAIN m : b \notin DOMAIN f => t[b] = m[b]
    BY <2>2 DEF Over
  <2> QED BY <2>3 DEF f, m, t
<1>4. last \in Memories
  BY <1>1, <1>2
<1>5. DOMAIN page \subseteq DOMAIN last
  <2> DEFINE Q == {k \in 0 .. n : DOMAIN page \subseteq DOMAIN x[k]}
  <2>1. 0 \in Q
    BY <1>1, <1>2
  <2>2. ASSUME NEW k \in 1 .. n, k - 1 \in Q PROVE k \in Q
    <3>1. DOMAIN page \subseteq DOMAIN x[k - 1]
      BY <2>2
    <3>2. DOMAIN page \subseteq DOMAIN x[k]
      BY <1>3, <3>1
    <3> QED BY <1>2, <3>2
  <2>3. n \in Q
    <3>1. \A k \in 0 .. n : k \in Q
      <4> HIDE DEF Q
      <4> QED BY <1>2, <2>1, <2>2, UpTo
    <3> QED BY <1>2, <3>1
  <2> QED BY <1>1, <2>3
<1>6. ASSUME NEW k \in 1 .. n, NEW b \in DOMAIN stores[k],
             \A j \in k + 1 .. n : b \notin DOMAIN stores[j]
      PROVE  last[b] = stores[k][b]
  <2> DEFINE Q == {i \in 0 .. n - k : b \in DOMAIN x[k + i] /\ x[k + i][b] = stores[k][b]}
  <2>1. 0 \in Q
    <3>1. b \in DOMAIN x[k] /\ x[k][b] = stores[k][b]
      BY <1>3, <1>6
    <3>2. k + 0 = k /\ 0 \in 0 .. n - k
      BY <1>2
    <3> QED BY <3>1, <3>2
  <2>2. ASSUME NEW i \in 1 .. n - k, i - 1 \in Q PROVE i \in Q
    <3> DEFINE h == k + i
    <3>1. h \in 1 .. n /\ h \in k + 1 .. n /\ h - 1 = k + (i - 1) /\ i \in 0 .. n - k
      BY <1>2
    <3>2. b \in DOMAIN x[h - 1] /\ x[h - 1][b] = stores[k][b]
      BY <2>2, <3>1
    <3> HIDE DEF h
    <3>3. b \notin DOMAIN stores[h]
      BY <1>6, <3>1
    <3>4. b \in DOMAIN x[h] /\ x[h][b] = stores[k][b]
      BY <1>3, <3>1, <3>2, <3>3
    <3> QED BY <3>1, <3>4 DEF h
  <2>3. n - k \in Q
    <3>1. n - k \in Nat /\ n - k \in 0 .. n - k
      BY <1>2
    <3>2. \A i \in 0 .. n - k : i \in Q
      <4> HIDE DEF Q
      <4> QED BY <3>1, <2>1, <2>2, UpTo
    <3> QED BY <3>1, <3>2
  <2>4. k + (n - k) = n
    BY <1>2
  <2> QED BY <1>1, <2>3, <2>4
<1> QED BY <1>4, <1>5, <1>6 DEF n, last

\* Rounding down stays below, of negative numbers too.
LEMMA RoundsDown ==
  ASSUME NEW c \in Nat \ {0}, NEW a \in Int
  PROVE  a \div c \in Int /\ RoundDown(a, c) = c * (a \div c) /\ RoundDown(a, c) <= a
<1>1. a \div c \in Int /\ c * (a \div c) <= a
  BY SMT
<1>2. (a \div c) * c = c * (a \div c)
  BY <1>1
<1> QED BY <1>1, <1>2 DEF RoundDown

\* The words that init_stack writes: argc and argv in slots -2 and -1, then the
\* pointers and the null pointer
ArgSlot(argv, q) == ArgvStore(argv) + WORD * q
SlotValue(argv, q) ==
  IF q = -2 THEN Len(argv) ELSE IF q = -1 THEN Stack(ArgvStore(argv))
  ELSE IF q = Len(argv) THEN 0 ELSE Stack(StringStore(argv, q + 1))

SlotsFit(argv, top) ==
  /\ ArgvStore(argv) \in Int
  /\ \A q \in -2 .. Len(argv) :
       /\ ArgSlot(argv, q) \in Nat /\ ArgSlot(argv, q) + WORD <= top
       /\ (ArgSlot(argv, q) + StackPage * PAGE) % WORD = 0
  /\ \A p \in -2 .. Len(argv), q \in -2 .. Len(argv) :
       p < q => ArgSlot(argv, p) + WORD <= ArgSlot(argv, q)

\* The slots are aligned, apart from each other and below the strings.
LEMMA SlotsAre ==
  ASSUME NEW argv \in Arguments, StackFits(argv), StringSize(argv) \in Nat
  PROVE  PAGE - StringSize(argv) \in Nat /\ SlotsFit(argv, PAGE - StringSize(argv))
<1> DEFINE top == PAGE - StringSize(argv)
           n == Len(argv)
           d == top \div WORD
           e == d - (n + 1)
           u == PAGE \div WORD
           r == RoundDown(top, WORD)
           base == ArgvStore(argv)
<1>1. /\ WORD \in Nat \ {0} /\ PAGE \in Nat \ {0} /\ PAGE % WORD = 0 /\ StackPage \in Nat
      /\ n \in Nat /\ top \in Int
  BY LoaderAssumption DEF Arguments
<1>2. d \in Int /\ r = WORD * d /\ r <= top
  BY <1>1, RoundsDown
<1>3. u \in Nat /\ PAGE = WORD * u
  <2>1. PAGE \in Nat
    BY <1>1
  <2>2. u \in Nat /\ PAGE = WORD * u + (PAGE % WORD)
    BY <1>1, <2>1, Divided
  <2>3. WORD * u \in Nat
    BY <1>1, <2>2
  <2> QED BY <1>1, <2>2, <2>3
<1>4. base = r - WORD * (n + 1) /\ base - 2 * WORD >= 0
  BY DEF ArgvStore, StackFits
<1>5. e = d - (n + 1) /\ \A q \in Int : ArgSlot(argv, q) = base + WORD * q
  BY DEF ArgSlot
<1>6. StringSize(argv) \in Nat /\ top = PAGE - StringSize(argv)
  OBVIOUS
<1> HIDE DEF top, n, d, e, u, r, base
<1>7. e \in Int /\ base = WORD * e
  <2>1. e \in Int /\ d = e + (n + 1) /\ n + 1 \in Int
    BY <1>1, <1>2, <1>5
  <2>2. WORD * d = WORD * e + WORD * (n + 1)
    BY <1>1, <1>2, <2>1
  <2>3. WORD * e \in Int /\ WORD * d \in Int /\ WORD * (n + 1) \in Int
    BY <1>1, <1>2, <2>1
  <2> HIDE DEF e
  <2> QED BY <1>2, <1>4, <2>1, <2>2, <2>3
<1>8. e >= 2
  <2>1. ASSUME e < 2 PROVE FALSE
    <3>1. WORD * e \in Int /\ WORD * e < 2 * WORD
      <4>1. e + 1 <= 2 /\ 2 - e \in Nat \ {0}
        BY <1>7, <2>1
      <4>2. WORD * (2 - e) \in Nat \ {0}
        BY <1>1, <4>1
      <4>3. WORD * (2 - e) = WORD * 2 - WORD * e /\ WORD * e \in Int
        BY <1>1, <1>7
      <4> QED BY <1>1, <4>2, <4>3
    <3> QED BY <1>1, <1>4, <1>7, <3>1
  <2> QED BY <1>7, <2>1
<1>9. ASSUME NEW q \in -2 .. n
      PROVE  e + q \in Nat /\ ArgSlot(argv, q) = WORD * (e + q)
  <2>1. q \in Int /\ e + q \in Nat
    BY <1>1, <1>7, <1>8
  <2>2. WORD * (e + q) = WORD * e + WORD * q
    BY <1>1, <1>7, <2>1
  <2> QED BY <1>5, <1>7, <2>1, <2>2
<1>10. \A p \in -2 .. n, q \in -2 .. n : p < q => ArgSlot(argv, p) + WORD <= ArgSlot(argv, q)
  <2>1. ASSUME NEW p \in -2 .. n, NEW q \in -2 .. n, p < q
        PROVE  ArgSlot(argv, p) + WORD <= ArgSlot(argv, q)
    <3>1. e + p \in Nat /\ e + q \in Nat /\ e + p < e + q
      BY <1>1, <1>7, <1>9, <2>1
    <3>2. WORD * (e + p) + WORD <= WORD * (e + q)
      BY <1>1, <3>1, Multiples
    <3> QED BY <1>9, <3>2
  <2> QED BY <2>1
<1>11. \A q \in -2 .. n : ArgSlot(argv, q) \in Nat
  <2>1. \A q \in -2 .. n : WORD * (e + q) \in Nat
    BY <1>1, <1>9
  <2> QED BY <1>9, <2>1
<1>12. \A q \in -2 .. n : ArgSlot(argv, q) + WORD <= r
  <2>1. ASSUME NEW q \in -2 .. n PROVE ArgSlot(argv, q) + WORD <= r
    <3>1. e + q \in Nat /\ d \in Nat /\ e + q < d
      BY <1>1, <1>2, <1>5, <1>8, <1>9
    <3>2. WORD * (e + q) + WORD <= WORD * d
      BY <1>1, <3>1, Multiples
    <3> QED BY <1>2, <1>9, <3>2
  <2> QED BY <2>1
<1>13. r \in Int
  <2>1. WORD * d \in Int
    BY <1>1, <1>2
  <2> QED BY <1>2, <2>1
<1>14. \A q \in -2 .. n : ArgSlot(argv, q) + WORD <= top
  BY <1>1, <1>2, <1>11, <1>12, <1>13
<1>15. top \in Nat
  <2>1. -2 \in -2 .. n
    BY <1>1
  <2>2. ArgSlot(argv, -2) \in Nat /\ ArgSlot(argv, -2) + WORD <= top
    BY <1>11, <1>14, <2>1
  <2> QED BY <1>1, <2>2
<1>16. \A q \in -2 .. n : (ArgSlot(argv, q) + StackPage * PAGE) % WORD = 0
  <2>1. ASSUME NEW q \in -2 .. n PROVE (ArgSlot(argv, q) + StackPage * PAGE) % WORD = 0
    <3> DEFINE j == e + q
               i == u * StackPage
    <3>1. i \in Nat /\ j \in Nat
      BY <1>1, <1>3, <1>9
    <3>2. StackPage * PAGE = WORD * i
      <4>1. StackPage * (WORD * u) = WORD * (u * StackPage)
        BY <1>1, <1>3
      <4> QED BY <1>3, <4>1
    <3>3. ArgSlot(argv, q) = WORD * j
      BY <1>9
    <3> HIDE DEF i, j
    <3>4. WORD * j + WORD * i = WORD * (i + j) /\ i + j \in Nat
      BY <1>1, <3>1
    <3>5. (WORD * (i + j)) % WORD = 0
      BY <1>1, <3>4, MultipleIs
    <3> QED BY <3>2, <3>3, <3>4, <3>5
  <2> QED BY <2>1
<1>17. base \in Int
  BY <1>1, <1>7
<1>18. SlotsFit(argv, top)
  BY <1>10, <1>11, <1>14, <1>16, <1>17 DEF SlotsFit, n, base
<1> QED BY <1>15, <1>18 DEF top

\* The strings lie behind them, one after the other.
StringsFit(argv, top) ==
  /\ \A i \in 1 .. Len(argv) :
       /\ StringStore(argv, i) \in Nat /\ top <= StringStore(argv, i)
       /\ StringStore(argv, i) + Len(argv[i]) + 1 <= PAGE
  /\ \A i \in 1 .. Len(argv), j \in 1 .. Len(argv) :
       i < j => StringStore(argv, i) + Len(argv[i]) + 1 <= StringStore(argv, j)

\* The strings are apart from each other and end in the page.
LEMMA StringsAre ==
  ASSUME NEW argv \in Arguments, PAGE - StringSize(argv) \in Nat
  PROVE  StringsFit(argv, PAGE - StringSize(argv))
<1> DEFINE top == PAGE - StringSize(argv)
           n == Len(argv)
<1>1. PICK x : Sums(x, argv) /\ x[n] = StringSize(argv)
  BY SizeRuns
<1>2. n \in Nat /\ top \in Nat /\ PAGE \in Nat /\ \A i \in 1 .. n : Len(argv[i]) \in Nat
  BY LoaderAssumption DEF Arguments
<1>3. top + x[n] = PAGE
  <2>1. x[n] \in Nat /\ StringSize(argv) \in Nat
    BY <1>2, <1>1 DEF Sums
  <2>2. top = PAGE - x[n]
    BY <1>1
  <2> HIDE DEF top
  <2> QED BY <1>2, <2>1, <2>2
<1> HIDE DEF top
<1>4. ASSUME NEW i \in 1 .. n
      PROVE  /\ StringStore(argv, i) = top + x[i - 1] /\ x[i - 1] \in Nat /\ x[i] \in Nat
             /\ StringStore(argv, i) + Len(argv[i]) + 1 = top + x[i]
  <2>1. i - 1 \in 0 .. n /\ i \in 0 .. n
    BY <1>2
  <2>2. StringSize(SubSeq(argv, 1, i - 1)) = x[i - 1]
    BY <1>1, <2>1, SizeOfFirst
  <2>3. x[i - 1] \in Nat /\ x[i] \in Nat /\ x[i] = x[i - 1] + Len(argv[i]) + 1
    BY <1>1, <2>1 DEF Sums
  <2>4. StringStore(argv, i) = top + x[i - 1]
    BY <2>2 DEF StringStore, top
  <2>5. Len(argv[i]) \in Nat
    BY <1>2
  <2> DEFINE s == StringStore(argv, i)
             l == Len(argv[i])
             y == x[i - 1]
             z == x[i]
  <2>6. s = top + y /\ y \in Nat /\ z \in Nat /\ z = y + l + 1 /\ l \in Nat /\ top \in Nat
    BY <1>2, <2>3, <2>4, <2>5
  <2> HIDE DEF s, l, y, z
  <2>7. s + l + 1 = top + z
    BY <2>6
  <2> QED BY <2>6, <2>7 DEF s, l, y, z
<1>5. ASSUME NEW i \in 1 .. n
      PROVE  /\ StringStore(argv, i) \in Nat /\ top <= StringStore(argv, i)
             /\ StringStore(argv, i) + Len(argv[i]) + 1 <= PAGE
  <2>1. i \in 0 .. n /\ n \in 0 .. n /\ i <= n
    BY <1>2
  <2>2. x[i] <= x[n] /\ x[n] \in Nat
    BY <1>1, <2>1, SumsGrow
  <2>3. /\ StringStore(argv, i) = top + x[i - 1] /\ x[i - 1] \in Nat /\ x[i] \in Nat
        /\ StringStore(argv, i) + Len(argv[i]) + 1 = top + x[i]
    BY <1>4
  <2> DEFINE s == StringStore(argv, i)
             l == Len(argv[i])
             y == x[i - 1]
             z == x[i]
             w == x[n]
  <2>4. s = top + y /\ y \in Nat /\ z \in Nat /\ w \in Nat /\ z <= w /\ s + l + 1 = top + z
        /\ top \in Nat /\ top + w = PAGE /\ PAGE \in Nat
    BY <1>2, <1>3, <2>2, <2>3
  <2> HIDE DEF s, l, y, z, w
  <2>5. s \in Nat /\ top <= s /\ s + l + 1 <= PAGE
    BY <2>4
  <2> QED BY <2>5 DEF s, l
<1>6. ASSUME NEW i \in 1 .. n, NEW j \in 1 .. n, i < j
      PROVE  StringStore(argv, i) + Len(argv[i]) + 1 <= StringStore(argv, j)
  <2>1. i \in 0 .. n /\ j - 1 \in 0 .. n /\ i <= j - 1
    BY <1>2, <1>6
  <2>2. x[i] <= x[j - 1] /\ x[i] \in Nat /\ x[j - 1] \in Nat
    BY <1>1, <2>1, SumsGrow
  <2> QED BY <1>2, <1>4, <2>2
<1> QED BY <1>5, <1>6 DEF StringsFit, top

\* The bytes of a word
LEMMA WordIs ==
  ASSUME NEW a \in Int, NEW v \in Int
  PROVE  /\ DOMAIN Word(a, v) = RangeOf(a, WORD) /\ Word(a, v) \in Memories
         /\ \A b \in RangeOf(a, WORD) : Word(a, v)[b] = IF b = a THEN v ELSE More
<1>1. RangeOf(a, WORD) \in SUBSET Int /\ More \in Int
  BY LoaderAssumption DEF RangeOf, More
<1>2. Word(a, v) \in [RangeOf(a, WORD) -> Int]
  BY <1>1 DEF Word
<1>3. Word(a, v) \in Memories
  BY <1>1, <1>2, MemoryIs
<1> QED BY <1>3 DEF Word

\* The bytes of a string, with the NUL behind it
LEMMA StringBytesAre ==
  ASSUME NEW a \in Int, NEW s \in Seq(Nat \ {0})
  PROVE  /\ DOMAIN StringBytes(a, s) = RangeOf(a, Len(s) + 1) /\ StringBytes(a, s) \in Memories
         /\ \A k \in 0 .. Len(s) :
              /\ a + k \in RangeOf(a, Len(s) + 1)
              /\ StringBytes(a, s)[a + k] = IF k < Len(s) THEN s[k + 1] ELSE 0
<1>1. Len(s) \in Nat /\ \A k \in 1 .. Len(s) : s[k] \in Nat
  OBVIOUS
<1>2. RangeOf(a, Len(s) + 1) \in SUBSET Int
  BY <1>1 DEF RangeOf
<1>3. \A b \in RangeOf(a, Len(s) + 1) : (IF b - a < Len(s) THEN s[b - a + 1] ELSE 0) \in Int
  <2>1. ASSUME NEW b \in RangeOf(a, Len(s) + 1), b - a < Len(s) PROVE s[b - a + 1] \in Int
    <3>1. b - a + 1 \in 1 .. Len(s)
      BY <1>1, <2>1 DEF RangeOf
    <3> QED BY <1>1, <3>1
  <2> QED BY <2>1
<1>4. StringBytes(a, s) \in [RangeOf(a, Len(s) + 1) -> Int]
  BY <1>3 DEF StringBytes
<1>5. StringBytes(a, s) \in Memories
  BY <1>2, <1>4, MemoryIs
<1>6. ASSUME NEW k \in 0 .. Len(s)
      PROVE  /\ a + k \in RangeOf(a, Len(s) + 1)
             /\ StringBytes(a, s)[a + k] = IF k < Len(s) THEN s[k + 1] ELSE 0
  <2>1. a + k \in RangeOf(a, Len(s) + 1) /\ (a + k) - a = k
    BY <1>1 DEF RangeOf
  <2> QED BY <2>1 DEF StringBytes
<1> QED BY <1>5, <1>6 DEF StringBytes

\* r is s and then t, which have m and n members.
Joins(V, r, s, t, m, n) ==
  /\ r \in Seq(V) /\ Len(r) = m + n
  /\ \A k \in 1 .. m : r[k] = s[k]
  /\ \A k \in m + 1 .. m + n : r[k] = t[k - m]

\* The members of one sequence after another
LEMMA Joined ==
  ASSUME NEW V, NEW s \in Seq(V), NEW t \in Seq(V)
  PROVE  Joins(V, s \o t, s, t, Len(s), Len(t))
BY DEF Joins

\* The stores of init_stack, in the order of the list in InitStack
SlotOf(n, k) == IF k <= n THEN k - 1 ELSE IF k = 2 * n + 1 THEN n ELSE IF k = 2 * n + 2 THEN -1 ELSE -2
SlotStores(n) == {k \in 1 .. 2 * n + 3 : k <= n \/ 2 * n < k}
StringStores(n) == {k \in 1 .. 2 * n + 3 : n < k /\ k <= 2 * n}

StoredAs(argv, stores) ==
  /\ stores \in Seq(Memories) /\ Len(stores) = 2 * Len(argv) + 3
  /\ \A k \in SlotStores(Len(argv)) :
       stores[k] = Word(ArgSlot(argv, SlotOf(Len(argv), k)), SlotValue(argv, SlotOf(Len(argv), k)))
  /\ \A k \in StringStores(Len(argv)) :
       stores[k] = StringBytes(StringStore(argv, k - Len(argv)), argv[k - Len(argv)])

\* Every slot and every string has one store.
LEMMA SlotNumbers ==
  ASSUME NEW n \in Nat
  PROVE  /\ \A k \in SlotStores(n) : SlotOf(n, k) \in -2 .. n
         /\ \A j \in SlotStores(n), k \in SlotStores(n) : SlotOf(n, j) = SlotOf(n, k) => j = k
         /\ \A q \in -2 .. n : \E k \in SlotStores(n) : SlotOf(n, k) = q
         /\ \A k \in StringStores(n) : k - n \in 1 .. n
         /\ \A i \in 1 .. n : n + i \in StringStores(n) /\ (n + i) - n = i
         /\ SlotStores(n) \cup StringStores(n) = 1 .. 2 * n + 3
<1>1. \A k \in SlotStores(n) : SlotOf(n, k) \in -2 .. n
  BY DEF SlotStores, SlotOf
<1>2. \A j \in SlotStores(n), k \in SlotStores(n) : SlotOf(n, j) = SlotOf(n, k) => j = k
  BY DEF SlotStores, SlotOf
<1>3. ASSUME NEW q \in -2 .. n PROVE \E k \in SlotStores(n) : SlotOf(n, k) = q
  <2>1. CASE q = n
    <3>1. 2 * n + 1 \in SlotStores(n) /\ SlotOf(n, 2 * n + 1) = q
      BY <2>1 DEF SlotStores, SlotOf
    <3> QED BY <3>1
  <2>2. CASE q = -1
    <3>1. 2 * n + 2 \in SlotStores(n) /\ SlotOf(n, 2 * n + 2) = q
      BY <2>2 DEF SlotStores, SlotOf
    <3> QED BY <3>1
  <2>3. CASE q = -2
    <3>1. 2 * n + 3 \in SlotStores(n) /\ SlotOf(n, 2 * n + 3) = q
      BY <2>3 DEF SlotStores, SlotOf
    <3> QED BY <3>1
  <2>4. CASE q \in 0 .. n - 1
    <3>1. q + 1 \in SlotStores(n) /\ SlotOf(n, q + 1) = q
      BY <2>4 DEF SlotStores, SlotOf
    <3> QED BY <3>1
  <2> QED BY <2>1, <2>2, <2>3, <2>4
<1>4. \A k \in StringStores(n) : k - n \in 1 .. n
  BY DEF StringStores
<1>5. \A i \in 1 .. n : n + i \in StringStores(n) /\ (n + i) - n = i
  BY DEF StringStores
<1>6. SlotStores(n) \cup StringStores(n) = 1 .. 2 * n + 3
  BY DEF StringStores, SlotStores
<1> QED BY <1>1, <1>2, <1>3, <1>4, <1>5, <1>6

\* InitStack makes these stores in a page of zeroes.
LEMMA InitStackStores ==
  ASSUME NEW argv \in Arguments, ArgvStore(argv) \in Int,
         \A i \in 1 .. Len(argv) : StringStore(argv, i) \in Nat
  PROVE  \E stores : StoredAs(argv, stores) /\ InitStack(argv) = WithStores(Zeroes(0, PAGE), stores)
<1> DEFINE n == Len(argv)
           base == ArgvStore(argv)
           s1 == [i \in 1 .. n |-> Word(base + WORD * (i - 1), Stack(StringStore(argv, i)))]
           s2 == [i \in 1 .. n |-> StringBytes(StringStore(argv, i), argv[i])]
           s3 == <<Word(base + WORD * n, 0), Word(base - WORD, Stack(base)), Word(base - 2 * WORD, n)>>
           stores == s1 \o s2 \o s3
<1>1. /\ WORD \in Nat \ {0} /\ PAGE \in Nat \ {0} /\ StackPage \in Nat /\ base \in Int
      /\ n \in Nat /\ \A i \in 1 .. n : argv[i] \in Seq(Nat \ {0}) /\ StringStore(argv, i) \in Nat
  BY LoaderAssumption DEF Arguments
<1>2. InitStack(argv) = WithStores(Zeroes(0, PAGE), stores)
  BY DEF InitStack
<1>3. \A b \in Int : Stack(b) \in Int
  <2>1. StackPage * PAGE \in Nat
    BY <1>1
  <2> QED BY <2>1 DEF Stack
<1>4. \A q \in Int : ArgSlot(argv, q) = base + WORD * q /\ ArgSlot(argv, q) \in Int
  <2>1. \A q \in Int : WORD * q \in Int
    BY <1>1
  <2> QED BY <1>1, <2>1 DEF ArgSlot
<1> HIDE DEF n, base
<1>5. \A q \in -2 .. n : SlotValue(argv, q) \in Int
  <2>1. ASSUME NEW q \in -2 .. n, q # -2, q # -1, q # n PROVE q + 1 \in 1 .. n
    BY <1>1, <2>1
  <2> QED BY <1>1, <1>3, <2>1 DEF SlotValue, n, base
<1>6. \A q \in -2 .. n : Word(ArgSlot(argv, q), SlotValue(argv, q)) \in Memories
  <2>1. \A q \in -2 .. n : ArgSlot(argv, q) \in Int
    BY <1>1, <1>4
  <2> QED BY <1>5, <2>1, WordIs
<1>7. \A i \in 1 .. n : s1[i] = Word(ArgSlot(argv, i - 1), SlotValue(argv, i - 1))
  <2>1. ASSUME NEW i \in 1 .. n PROVE s1[i] = Word(ArgSlot(argv, i - 1), SlotValue(argv, i - 1))
    <3>1. i - 1 \in Int /\ i - 1 # -2 /\ i - 1 # -1 /\ i - 1 # n /\ (i - 1) + 1 = i
      BY <1>1
    <3>2. SlotValue(argv, i - 1) = Stack(StringStore(argv, i))
      BY <3>1 DEF SlotValue, n
    <3>3. ArgSlot(argv, i - 1) = base + WORD * (i - 1)
      BY <1>4, <3>1
    <3> QED BY <3>2, <3>3
  <2> QED BY <2>1
<1>8. s1 \in [1 .. n -> Memories]
  <2>1. \A i \in 1 .. n : i - 1 \in -2 .. n
    BY <1>1
  <2>2. \A i \in 1 .. n : s1[i] \in Memories
    BY <1>6, <1>7, <2>1
  <2> QED BY <2>2
<1>9. s2 \in [1 .. n -> Memories]
  BY <1>1, StringBytesAre
<1>10. /\ s3[1] = Word(ArgSlot(argv, n), SlotValue(argv, n))
       /\ s3[2] = Word(ArgSlot(argv, -1), SlotValue(argv, -1))
       /\ s3[3] = Word(ArgSlot(argv, -2), SlotValue(argv, -2))
  <2>1. n # -2 /\ n # -1 /\ -1 # -2 /\ n \in Int /\ -1 \in Int /\ -2 \in Int
    BY <1>1
  <2>2. /\ SlotValue(argv, n) = 0 /\ SlotValue(argv, -1) = Stack(base) /\ SlotValue(argv, -2) = n
    BY <2>1 DEF SlotValue, n, base
  <2>3. WORD * (-1) = -WORD /\ WORD * (-2) = -(2 * WORD)
    BY <1>1
  <2>4. base + WORD * (-1) = base - WORD /\ base + WORD * (-2) = base - 2 * WORD
    BY <1>1, <2>3
  <2>5. ArgSlot(argv, n) = base + WORD * n /\ ArgSlot(argv, -1) = base - WORD /\ ArgSlot(argv, -2) = base - 2 * WORD
    BY <1>4, <2>1, <2>4
  <2> QED BY <2>2, <2>5
<1>11. s3[1] \in Memories /\ s3[2] \in Memories /\ s3[3] \in Memories
  <2>1. n \in -2 .. n /\ -1 \in -2 .. n /\ -2 \in -2 .. n
    BY <1>1
  <2> QED BY <1>6, <1>10, <2>1
<1>12. s3 \in Seq(Memories) /\ Len(s3) = 3
  BY <1>11
<1>13. s1 \in Seq(Memories) /\ Len(s1) = n /\ s2 \in Seq(Memories) /\ Len(s2) = n
  BY <1>1, <1>8, <1>9
<1> HIDE DEF s1, s3
<1>14. \A i \in 1 .. n : s2[i] = StringBytes(StringStore(argv, i), argv[i])
  OBVIOUS
<1> HIDE DEF s2
<1>15. /\ stores \in Seq(Memories) /\ Len(stores) = 2 * n + 3
       /\ \A k \in 1 .. n : stores[k] = s1[k]
       /\ \A k \in n + 1 .. 2 * n : stores[k] = s2[k - n]
       /\ \A k \in 2 * n + 1 .. 2 * n + 3 : stores[k] = s3[k - 2 * n]
  <2> DEFINE t == s1 \o s2
  <2>1. Joins(Memories, t, s1, s2, n, n)
    <3>1. Joins(Memories, s1 \o s2, s1, s2, Len(s1), Len(s2))
      BY <1>13, Joined
    <3> QED BY <1>13, <3>1
  <2>2. n + n = 2 * n /\ n \in Nat
    BY <1>1
  <2> HIDE DEF t
  <2>7. t \in Seq(Memories) /\ Len(t) = 2 * n
    BY <2>1, <2>2 DEF Joins
  <2>3. Joins(Memories, t \o s3, t, s3, 2 * n, 3)
    <3>1. Joins(Memories, t \o s3, t, s3, Len(t), Len(s3))
      BY <1>12, <2>7, Joined
    <3> QED BY <1>12, <2>7, <3>1
  <2>4. stores = t \o s3
    BY DEF t
  <2> HIDE DEF stores
  <2>5. \A k \in 1 .. n : k \in 1 .. 2 * n
    BY <2>2
  <2>6. \A k \in n + 1 .. 2 * n : k \in 1 .. 2 * n
    BY <2>2
  <2>8. /\ \A k \in 1 .. n : t[k] = s1[k]
        /\ \A k \in n + 1 .. 2 * n : t[k] = s2[k - n]
    BY <2>1, <2>2 DEF Joins
  <2>9. /\ t \o s3 \in Seq(Memories) /\ Len(t \o s3) = 2 * n + 3
        /\ \A k \in 1 .. 2 * n : (t \o s3)[k] = t[k]
        /\ \A k \in 2 * n + 1 .. 2 * n + 3 : (t \o s3)[k] = s3[k - 2 * n]
    BY <2>3 DEF Joins
  <2> QED BY <2>4, <2>5, <2>6, <2>8, <2>9
<1> HIDE DEF stores
<1>16. ASSUME NEW k \in SlotStores(n)
       PROVE  stores[k] = Word(ArgSlot(argv, SlotOf(n, k)), SlotValue(argv, SlotOf(n, k)))
  <2>1. CASE k <= n
    <3>1. k \in 1 .. n /\ SlotOf(n, k) = k - 1
      BY <1>1, <2>1 DEF SlotStores, SlotOf
    <3> QED BY <1>7, <1>15, <3>1
  <2>2. CASE k = 2 * n + 1
    <3>1. k \in 2 * n + 1 .. 2 * n + 3 /\ SlotOf(n, k) = n /\ k - 2 * n = 1
      BY <1>1, <2>2 DEF SlotStores, SlotOf
    <3> QED BY <1>10, <1>15, <3>1
  <2>3. CASE k = 2 * n + 2
    <3>1. k \in 2 * n + 1 .. 2 * n + 3 /\ SlotOf(n, k) = -1 /\ k - 2 * n = 2
      BY <1>1, <2>3 DEF SlotStores, SlotOf
    <3> QED BY <1>10, <1>15, <3>1
  <2>4. CASE k = 2 * n + 3
    <3>1. k \in 2 * n + 1 .. 2 * n + 3 /\ SlotOf(n, k) = -2 /\ k - 2 * n = 3
      BY <1>1, <2>4 DEF SlotStores, SlotOf
    <3> QED BY <1>10, <1>15, <3>1
  <2>5. k <= n \/ k = 2 * n + 1 \/ k = 2 * n + 2 \/ k = 2 * n + 3
    BY <1>1 DEF SlotStores
  <2> QED BY <2>1, <2>2, <2>3, <2>4, <2>5
<1>17. ASSUME NEW k \in StringStores(n)
       PROVE  stores[k] = StringBytes(StringStore(argv, k - n), argv[k - n])
  <2>1. k \in n + 1 .. 2 * n /\ k - n \in 1 .. n
    BY <1>1 DEF StringStores
  <2> QED BY <1>14, <1>15, <2>1
<1>18. StoredAs(argv, stores)
  BY <1>15, <1>16, <1>17 DEF StoredAs, n
<1> QED BY <1>2, <1>18

\* The page that init_stack makes: words, pointers and strings
HasArguments(page, argv) ==
  /\ page \in Memories /\ 0 .. PAGE - 1 \subseteq DOMAIN page
  /\ \A q \in -2 .. Len(argv) :
       /\ page[ArgSlot(argv, q)] = SlotValue(argv, q)
       /\ \A k \in 1 .. WORD - 1 : page[ArgSlot(argv, q) + k] = More
  /\ \A i \in 1 .. Len(argv) : \A k \in 0 .. Len(argv[i]) :
       page[StringStore(argv, i) + k] = IF k < Len(argv[i]) THEN argv[i][k + 1] ELSE 0

\* Ranges that follow each other do not overlap.
LEMMA Apart ==
  ASSUME NEW a \in Int, NEW m \in Int, NEW b \in Int, NEW n \in Int, a + m <= b
  PROVE  RangeOf(a, m) \cap RangeOf(b, n) = {} /\ RangeOf(b, n) \cap RangeOf(a, m) = {}
BY DEF RangeOf

\* No store of init_stack overwrites another.
LEMMA StoresApart ==
  ASSUME NEW argv \in Arguments, NEW stores, StoredAs(argv, stores),
         NEW top \in Nat, SlotsFit(argv, top), StringsFit(argv, top)
  PROVE  \A j \in 1 .. 2 * Len(argv) + 3, k \in 1 .. 2 * Len(argv) + 3 :
           j # k => DOMAIN stores[j] \cap DOMAIN stores[k] = {}
<1> DEFINE n == Len(argv)
           WordStores == SlotStores(n)
           Strings == StringStores(n)
           At(k) == ArgSlot(argv, SlotOf(n, k))
           Char(k) == StringStore(argv, k - n)
           Chars(k) == Len(argv[k - n]) + 1
<1>1. n \in Nat /\ WORD \in Nat \ {0} /\ PAGE \in Nat
      /\ \A i \in 1 .. n : argv[i] \in Seq(Nat \ {0}) /\ Len(argv[i]) \in Nat
  BY LoaderAssumption DEF Arguments
<1>2. /\ \A k \in WordStores : SlotOf(n, k) \in -2 .. n
      /\ \A j \in WordStores, k \in WordStores : SlotOf(n, j) = SlotOf(n, k) => j = k
      /\ \A k \in Strings : k - n \in 1 .. n
      /\ WordStores \cup Strings = 1 .. 2 * n + 3
  BY <1>1, SlotNumbers
<1>3. \A q \in -2 .. n : SlotValue(argv, q) \in Int
  <2>1. ArgvStore(argv) \in Int /\ \A i \in 1 .. n : StringStore(argv, i) \in Nat
    BY DEF SlotsFit, StringsFit
  <2>2. StackPage * PAGE \in Nat
    BY LoaderAssumption
  <2>3. ASSUME NEW q \in -2 .. n, q # -2, q # -1, q # n PROVE q + 1 \in 1 .. n
    BY <1>1, <2>3
  <2> QED BY <1>1, <2>1, <2>2, <2>3 DEF SlotValue, Stack
<1> HIDE DEF n
<1>4. /\ \A k \in WordStores : At(k) \in Nat /\ At(k) + WORD <= top
      /\ \A k \in Strings : Char(k) \in Nat /\ top <= Char(k) /\ Chars(k) \in Nat
  <2>1. /\ \A q \in -2 .. n : ArgSlot(argv, q) \in Nat /\ ArgSlot(argv, q) + WORD <= top
        /\ \A i \in 1 .. n : StringStore(argv, i) \in Nat /\ top <= StringStore(argv, i)
    BY DEF SlotsFit, StringsFit, n
  <2>2. \A i \in 1 .. n : Len(argv[i]) + 1 \in Nat
    BY <1>1
  <2> QED BY <1>2, <2>1, <2>2
<1>5. \A k \in WordStores : DOMAIN stores[k] = RangeOf(At(k), WORD)
  <2>1. ASSUME NEW k \in WordStores PROVE DOMAIN stores[k] = RangeOf(At(k), WORD)
    <3>1. stores[k] = Word(At(k), SlotValue(argv, SlotOf(n, k)))
      BY DEF StoredAs, n
    <3>2. At(k) \in Int /\ SlotValue(argv, SlotOf(n, k)) \in Int
      BY <1>2, <1>3, <1>4
    <3> HIDE DEF At
    <3> QED BY <3>1, <3>2, WordIs
  <2> QED BY <2>1
<1>6. \A k \in Strings : DOMAIN stores[k] = RangeOf(Char(k), Chars(k))
  <2>1. ASSUME NEW k \in Strings PROVE DOMAIN stores[k] = RangeOf(Char(k), Chars(k))
    <3>1. stores[k] = StringBytes(Char(k), argv[k - n])
      BY DEF StoredAs, n
    <3>2. Char(k) \in Int /\ argv[k - n] \in Seq(Nat \ {0})
      BY <1>1, <1>2, <1>4
    <3> QED BY <3>1, <3>2, StringBytesAre
  <2> QED BY <2>1
<1>7. ASSUME NEW j \in WordStores, NEW k \in WordStores, j # k
      PROVE  At(j) + WORD <= At(k) \/ At(k) + WORD <= At(j)
  <2>1. SlotOf(n, j) \in -2 .. n /\ SlotOf(n, k) \in -2 .. n
        /\ (SlotOf(n, j) < SlotOf(n, k) \/ SlotOf(n, k) < SlotOf(n, j))
    BY <1>1, <1>2, <1>7
  <2> QED BY <2>1 DEF SlotsFit, n
<1>8. ASSUME NEW j \in Strings, NEW k \in Strings, j # k
      PROVE  Char(j) + Chars(j) <= Char(k) \/ Char(k) + Chars(k) <= Char(j)
  <2>1. j - n \in 1 .. n /\ k - n \in 1 .. n /\ (j - n < k - n \/ k - n < j - n)
    <3>1. j \in Nat /\ k \in Nat
      BY DEF StringStores
    <3> QED BY <1>1, <1>2, <1>8, <3>1
  <2>2. \A i \in 1 .. n, h \in 1 .. n :
          i < h => StringStore(argv, i) + Len(argv[i]) + 1 <= StringStore(argv, h)
    BY DEF StringsFit, n
  <2>3. \A i \in 1 .. n : StringStore(argv, i) + (Len(argv[i]) + 1) = StringStore(argv, i) + Len(argv[i]) + 1
    <3>1. \A i \in 1 .. n : StringStore(argv, i) \in Nat
      BY DEF StringsFit, n
    <3> QED BY <1>1, <3>1
  <2> QED BY <2>1, <2>2, <2>3
<1> HIDE DEF At, Char, Chars, WordStores, Strings
<1>9. ASSUME NEW j \in 1 .. 2 * n + 3, NEW k \in 1 .. 2 * n + 3, j # k
      PROVE  DOMAIN stores[j] \cap DOMAIN stores[k] = {}
  <2>1. CASE j \in WordStores /\ k \in WordStores
    <3>1. RangeOf(At(j), WORD) \cap RangeOf(At(k), WORD) = {}
      <4>1. At(j) \in Int /\ At(k) \in Int /\ WORD \in Int
        BY <1>1, <1>4, <2>1
      <4> QED BY <1>7, <1>9, <2>1, <4>1, Apart
    <3> QED BY <1>5, <2>1, <3>1
  <2>2. CASE j \in WordStores /\ k \in Strings
    <3>1. RangeOf(At(j), WORD) \cap RangeOf(Char(k), Chars(k)) = {}
      <4>1. At(j) \in Int /\ Char(k) \in Int /\ WORD \in Int /\ Chars(k) \in Int
            /\ At(j) + WORD <= Char(k)
        BY <1>1, <1>4, <2>2
      <4> QED BY <4>1, Apart
    <3> QED BY <1>5, <1>6, <2>2, <3>1
  <2>3. CASE j \in Strings /\ k \in WordStores
    <3>1. RangeOf(Char(j), Chars(j)) \cap RangeOf(At(k), WORD) = {}
      <4>1. At(k) \in Int /\ Char(j) \in Int /\ WORD \in Int /\ Chars(j) \in Int
            /\ At(k) + WORD <= Char(j)
        BY <1>1, <1>4, <2>3
      <4> QED BY <4>1, Apart
    <3> QED BY <1>5, <1>6, <2>3, <3>1
  <2>4. CASE j \in Strings /\ k \in Strings
    <3>1. RangeOf(Char(j), Chars(j)) \cap RangeOf(Char(k), Chars(k)) = {}
      <4>1. Char(j) \in Int /\ Char(k) \in Int /\ Chars(j) \in Int /\ Chars(k) \in Int
        BY <1>4, <2>4
      <4> QED BY <1>8, <1>9, <2>4, <4>1, Apart
    <3> QED BY <1>6, <2>4, <3>1
  <2> QED BY <1>2, <2>1, <2>2, <2>3, <2>4
<1> QED BY <1>9 DEF n

\* So all of them are in the page that init_stack makes.
LEMMA InitStackIs ==
  ASSUME NEW argv \in Arguments, StackFits(argv)
  PROVE  HasArguments(InitStack(argv), argv)
<1> DEFINE n == Len(argv)
           m == 2 * n + 3
           top == PAGE - StringSize(argv)
           page == InitStack(argv)
<1>1. n \in Nat /\ WORD \in Nat \ {0} /\ PAGE \in Nat
      /\ \A i \in 1 .. n : argv[i] \in Seq(Nat \ {0}) /\ Len(argv[i]) \in Nat
  BY LoaderAssumption DEF Arguments
<1>2. StringSize(argv) \in Nat
  <2>1. PICK x : Sums(x, argv) /\ x[n] = StringSize(argv)
    BY SizeRuns
  <2> QED BY <1>1, <2>1 DEF Sums
<1>3. top \in Nat /\ SlotsFit(argv, top)
  BY <1>2, SlotsAre
<1>4. StringsFit(argv, top)
  BY <1>3, StringsAre
<1> HIDE DEF top
<1>5. ArgvStore(argv) \in Int /\ \A i \in 1 .. n : StringStore(argv, i) \in Nat
  BY <1>3, <1>4 DEF SlotsFit, StringsFit
<1>6. PICK stores : StoredAs(argv, stores) /\ page = WithStores(Zeroes(0, PAGE), stores)
  BY <1>5, InitStackStores
<1>7. Zeroes(0, PAGE) \in Memories /\ DOMAIN Zeroes(0, PAGE) = 0 .. PAGE - 1
  <2>1. 0 \in Int /\ PAGE \in Int /\ RangeOf(0, PAGE) = 0 .. PAGE - 1
    BY <1>1 DEF RangeOf
  <2> QED BY <2>1, ZeroesAre
<1>8. stores \in Seq(Memories) /\ Len(stores) = m
  BY <1>6 DEF StoredAs
<1>9. \A j \in 1 .. m, k \in 1 .. m : j # k => DOMAIN stores[j] \cap DOMAIN stores[k] = {}
  BY <1>3, <1>4, <1>6, StoresApart
<1> HIDE DEF page
<1>10. /\ page \in Memories /\ 0 .. PAGE - 1 \subseteq DOMAIN page
       /\ \A k \in 1 .. m : \A b \in DOMAIN stores[k] :
            (\A j \in k + 1 .. m : b \notin DOMAIN stores[j]) => page[b] = stores[k][b]
  <2> DEFINE last == WithStores(Zeroes(0, PAGE), stores)
             zero == Zeroes(0, PAGE)
             l == Len(stores)
  <2>1. /\ last \in Memories /\ DOMAIN zero \subseteq DOMAIN last
        /\ \A k \in 1 .. l : \A b \in DOMAIN stores[k] :
             (\A j \in k + 1 .. l : b \notin DOMAIN stores[j]) => last[b] = stores[k][b]
    BY <1>7, <1>8, LastStore
  <2>2. page = last /\ DOMAIN zero = 0 .. PAGE - 1 /\ l = m
    BY <1>6, <1>7, <1>8
  <2> HIDE DEF last, zero, l, m
  <2> QED BY <2>1, <2>2
<1> HIDE DEF m
<1>11. m \in Nat /\ m = 2 * n + 3
  BY <1>1 DEF m
<1>12. ASSUME NEW k \in 1 .. m, NEW b \in DOMAIN stores[k] PROVE page[b] = stores[k][b]
  <2>1. ASSUME NEW j \in k + 1 .. m PROVE b \notin DOMAIN stores[j]
    <3>1. j \in 1 .. m /\ j # k
      BY <1>11
    <3>2. DOMAIN stores[j] \cap DOMAIN stores[k] = {}
      BY <1>9, <3>1
    <3> QED BY <1>12, <3>2
  <2> QED BY <1>10, <2>1
<1> HIDE DEF n
<1>13. ASSUME NEW q \in -2 .. n
       PROVE  /\ page[ArgSlot(argv, q)] = SlotValue(argv, q)
              /\ \A k \in 1 .. WORD - 1 : page[ArgSlot(argv, q) + k] = More
  <2> DEFINE a == ArgSlot(argv, q)
             v == SlotValue(argv, q)
  <2>1. PICK k \in SlotStores(n) : SlotOf(n, k) = q
    BY <1>1, SlotNumbers
  <2>2. k \in 1 .. m
    BY <1>11 DEF SlotStores
  <2>3. stores[k] = Word(a, v)
    BY <1>6, <2>1 DEF StoredAs, n
  <2>4. a \in Nat
    BY <1>3 DEF SlotsFit, n
  <2>5. v \in Int
    <3>1. StackPage * PAGE \in Nat
      BY LoaderAssumption
    <3>2. q # -2 /\ q # -1 /\ q # n => q + 1 \in 1 .. n
      BY <1>1
    <3> QED BY <1>1, <1>5, <3>1, <3>2 DEF SlotValue, Stack, n
  <2> HIDE DEF a, v
  <2>6. /\ DOMAIN Word(a, v) = RangeOf(a, WORD)
        /\ \A b \in RangeOf(a, WORD) : Word(a, v)[b] = IF b = a THEN v ELSE More
    BY <2>4, <2>5, WordIs
  <2>7. \A b \in RangeOf(a, WORD) : page[b] = IF b = a THEN v ELSE More
    BY <1>12, <2>2, <2>3, <2>6
  <2>8. a \in RangeOf(a, WORD) /\ \A i \in 1 .. WORD - 1 : a + i \in RangeOf(a, WORD) /\ a + i # a
    BY <1>1, <2>4 DEF RangeOf
  <2>9. page[a] = v /\ \A i \in 1 .. WORD - 1 : page[a + i] = More
    BY <2>7, <2>8
  <2> QED BY <2>9 DEF a, v
<1>14. ASSUME NEW i \in 1 .. n
       PROVE  \A k \in 0 .. Len(argv[i]) :
                page[StringStore(argv, i) + k] = IF k < Len(argv[i]) THEN argv[i][k + 1] ELSE 0
  <2> DEFINE a == StringStore(argv, i)
             s == argv[i]
  <2>1. n + i \in StringStores(n) /\ (n + i) - n = i
    BY <1>1, SlotNumbers
  <2>2. n + i \in 1 .. m
    BY <1>11, <2>1 DEF StringStores
  <2>3. stores[n + i] = StringBytes(StringStore(argv, (n + i) - n), argv[(n + i) - n])
    BY <1>6, <2>1 DEF StoredAs, n
  <2>4. stores[n + i] = StringBytes(a, s)
    BY <2>1, <2>3
  <2>5. a \in Int /\ s \in Seq(Nat \ {0})
    BY <1>1, <1>5 DEF n
  <2> HIDE DEF a, s
  <2>6. /\ DOMAIN StringBytes(a, s) = RangeOf(a, Len(s) + 1)
        /\ \A k \in 0 .. Len(s) :
             /\ a + k \in RangeOf(a, Len(s) + 1)
             /\ StringBytes(a, s)[a + k] = IF k < Len(s) THEN s[k + 1] ELSE 0
    BY <2>5, StringBytesAre
  <2>7. \A k \in 0 .. Len(s) : page[a + k] = StringBytes(a, s)[a + k]
    BY <1>12, <2>2, <2>4, <2>6
  <2>8. \A k \in 0 .. Len(s) : page[a + k] = IF k < Len(s) THEN s[k + 1] ELSE 0
    BY <2>6, <2>7
  <2> QED BY <2>8 DEF a, s
<1>15. HasArguments(page, argv)
  BY <1>10, <1>13, <1>14 DEF HasArguments, n
<1> QED BY <1>15 DEF page

\* Reading a string stops at its NUL.
LEMMA StringIsRead ==
  ASSUME NEW s \in Seq(Nat \ {0}), Len(s) <= PAGE, NEW a \in Int, NEW m,
         \A k \in 0 .. Len(s) : m[a + k] = IF k < Len(s) THEN s[k + 1] ELSE 0
  PROVE  ReadString(m, a) = s
<1> DEFINE P(k) == m[a + k] = 0 /\ \A j \in 0 .. k - 1 : m[a + j] # 0
           n == CHOOSE k \in 0 .. PAGE : P(k)
           l == Len(s)
<1>1. l \in Nat /\ PAGE \in Nat /\ l \in 0 .. PAGE /\ \A k \in 1 .. l : s[k] \in Nat /\ s[k] # 0
  BY LoaderAssumption
<1>2. P(l)
  <2>1. m[a + l] = 0
    BY <1>1
  <2>2. ASSUME NEW j \in 0 .. l - 1 PROVE m[a + j] # 0
    <3>1. j \in 0 .. l /\ j < l /\ j + 1 \in 1 .. l
      BY <1>1
    <3> QED BY <1>1, <3>1
  <2> QED BY <2>1, <2>2
<1>3. ASSUME NEW k \in 0 .. PAGE, P(k) PROVE k = l
  <2>1. ASSUME k < l PROVE FALSE
    <3>1. k \in 0 .. l - 1
      BY <1>1, <2>1
    <3> QED BY <1>2, <1>3, <3>1
  <2>2. ASSUME l < k PROVE FALSE
    <3>1. l \in 0 .. k - 1
      BY <1>1, <2>2
    <3> QED BY <1>2, <1>3, <3>1
  <2> QED BY <1>1, <2>1, <2>2
<1> HIDE DEF P
<1>4. n = l
  <2>1. n \in 0 .. PAGE /\ P(n)
    BY <1>1, <1>2
  <2> HIDE DEF n
  <2> QED BY <1>3, <2>1
<1>5. ReadString(m, a) = [k \in 1 .. n |-> m[a + k - 1]]
  BY DEF ReadString, P
<1> HIDE DEF n
<1>6. \A k \in 1 .. l : m[a + k - 1] = s[k]
  <2>1. ASSUME NEW k \in 1 .. l PROVE m[a + k - 1] = s[k]
    <3>1. k - 1 \in 0 .. l /\ k - 1 < l /\ (k - 1) + 1 = k /\ a + k - 1 = a + (k - 1)
      BY <1>1
    <3>2. m[a + (k - 1)] = s[(k - 1) + 1]
      BY <3>1
    <3> QED BY <3>1, <3>2
  <2> QED BY <2>1
<1>7. s = [k \in 1 .. l |-> s[k]]
  OBVIOUS
<1> HIDE DEF l
<1>8. [k \in 1 .. l |-> m[a + k - 1]] = [k \in 1 .. l |-> s[k]]
  BY <1>6
<1> QED BY <1>4, <1>5, <1>7, <1>8

\* The stack page of the child, in its memory
StackHolds(m, argv) ==
  /\ StackFits(argv)
  /\ \A b \in 0 .. PAGE - 1 : Stack(b) \in DOMAIN m /\ m[Stack(b)] = InitStack(argv)[b]

\* What main finds where the stack pointer points
FindsArguments(m, argv, esp) ==
  LET argc == m[esp]
      av == m[esp + WORD]
      Arg(i) == av + WORD * (i - 1)
  IN  /\ \A a \in {esp, esp + WORD} \cup {Arg(i) : i \in 1 .. argc + 1} : IsWordAt(m, a)
      /\ argv = [i \in 1 .. argc |-> ReadString(m, m[Arg(i)])]
      /\ m[Arg(argc + 1)] = 0

\* main finds its arguments in the page.
LEMMA ArgumentsAreRead ==
  ASSUME NEW argv \in Arguments, NEW m, StackHolds(m, argv)
  PROVE  FindsArguments(m, argv, Stack(ArgvStore(argv) - 2 * WORD))
<1> DEFINE n == Len(argv)
           base == ArgvStore(argv)
           top == PAGE - StringSize(argv)
           page == InitStack(argv)
           P == StackPage * PAGE
           esp == Stack(base - 2 * WORD)
           A(q) == Stack(ArgSlot(argv, q))
<1>1. n \in Nat /\ WORD \in Nat \ {0} /\ PAGE \in Nat /\ P \in Nat
      /\ \A i \in 1 .. n : argv[i] \in Seq(Nat \ {0}) /\ Len(argv[i]) \in Nat
  BY LoaderAssumption DEF Arguments
<1>2. StringSize(argv) \in Nat
  <2>1. PICK x : Sums(x, argv) /\ x[n] = StringSize(argv)
    BY SizeRuns
  <2> QED BY <1>1, <2>1 DEF Sums
<1>3. top \in Nat /\ SlotsFit(argv, top) /\ top <= PAGE
  <2>1. StackFits(argv)
    BY DEF StackHolds
  <2> QED BY <1>1, <1>2, <2>1, SlotsAre
<1>4. StringsFit(argv, top)
  BY <1>3, StringsAre
<1> HIDE DEF top
<1>5. HasArguments(page, argv)
  BY InitStackIs DEF StackHolds
<1> HIDE DEF n, page, P
<1>6. \A b \in 0 .. PAGE - 1 : m[b + P] = page[b]
  BY DEF StackHolds, Stack, page, P
<1>7. /\ \A q \in -2 .. n : ArgSlot(argv, q) \in Nat /\ ArgSlot(argv, q) + WORD <= PAGE /\ A(q) % WORD = 0
      /\ base \in Int
  <2>1. /\ \A q \in -2 .. n :
             /\ ArgSlot(argv, q) \in Nat /\ ArgSlot(argv, q) + WORD <= top
             /\ (ArgSlot(argv, q) + P) % WORD = 0
        /\ base \in Int
    BY <1>3 DEF SlotsFit, n, P
  <2>2. \A q : A(q) = ArgSlot(argv, q) + P
    BY DEF Stack, P
  <2>3. ASSUME NEW q \in -2 .. n PROVE ArgSlot(argv, q) + WORD <= PAGE
    BY <1>1, <1>3, <2>1
  <2> HIDE DEF A, base
  <2> QED BY <2>1, <2>2, <2>3
<1>8. ASSUME NEW q \in -2 .. n PROVE m[A(q)] = SlotValue(argv, q) /\ IsWordAt(m, A(q))
  <2> DEFINE a == ArgSlot(argv, q)
  <2>1. a \in Nat /\ a + WORD <= PAGE /\ A(q) % WORD = 0
    BY <1>7
  <2>2. page[a] = SlotValue(argv, q) /\ \A k \in 1 .. WORD - 1 : page[a + k] = More
    BY <1>5 DEF HasArguments, n
  <2>3. A(q) = a + P
    BY DEF Stack, P
  <2> HIDE DEF a, A
  <2>4. a \in 0 .. PAGE - 1
    BY <1>1, <2>1
  <2>5. \A k \in 1 .. WORD - 1 : a + k \in 0 .. PAGE - 1 /\ (a + P) + k = (a + k) + P
    BY <1>1, <2>1
  <2>6. m[a + P] = page[a] /\ \A k \in 1 .. WORD - 1 : m[(a + P) + k] = page[a + k]
    BY <1>6, <2>4, <2>5
  <2>7. m[A(q)] = page[a] /\ \A k \in 1 .. WORD - 1 : m[A(q) + k] = More
    BY <2>2, <2>3, <2>6
  <2> QED BY <2>1, <2>2, <2>7 DEF IsWordAt
<1>9. /\ esp = A(-2) /\ esp + WORD = A(-1) /\ Stack(base) \in Int
      /\ \A i \in Int : Stack(base) + WORD * (i - 1) = A(i - 1)
  <2>1. /\ ArgSlot(argv, -2) = base + WORD * (-2) /\ ArgSlot(argv, -1) = base + WORD * (-1)
        /\ WORD * (-2) = -(2 * WORD) /\ WORD * (-1) = -WORD
    BY <1>1 DEF ArgSlot
  <2>2. esp = (base - 2 * WORD) + P /\ A(-2) = ArgSlot(argv, -2) + P /\ A(-1) = ArgSlot(argv, -1) + P
        /\ Stack(base) = base + P
    BY DEF Stack, P
  <2>3. ASSUME NEW i \in Int PROVE Stack(base) + WORD * (i - 1) = A(i - 1)
    <3>1. A(i - 1) = (base + WORD * (i - 1)) + P
      BY DEF ArgSlot, Stack, P
    <3>2. WORD * (i - 1) \in Int
      BY <1>1
    <3> HIDE DEF A, base
    <3> QED BY <1>1, <1>7, <2>2, <3>1, <3>2
  <2> HIDE DEF A, base, esp
  <2> QED BY <1>1, <1>7, <2>1, <2>2, <2>3
<1>10. m[esp] = n /\ m[esp + WORD] = Stack(base) /\ IsWordAt(m, esp) /\ IsWordAt(m, esp + WORD)
  <2>1. -2 \in -2 .. n /\ -1 \in -2 .. n /\ -1 # -2
    BY <1>1
  <2>2. SlotValue(argv, -2) = n /\ SlotValue(argv, -1) = Stack(base)
    BY <2>1 DEF SlotValue, n
  <2> HIDE DEF A, base, esp
  <2> QED BY <1>8, <1>9, <2>1, <2>2
<1> HIDE DEF A, base, esp
<1>11. ASSUME NEW i \in 1 .. n + 1
       PROVE  IsWordAt(m, Stack(base) + WORD * (i - 1))
  <2>1. i \in Int /\ i - 1 \in -2 .. n
    BY <1>1
  <2> QED BY <1>8, <1>9, <2>1
<1>12. m[Stack(base) + WORD * ((n + 1) - 1)] = 0
  <2>1. n + 1 \in Int /\ (n + 1) - 1 = n /\ n \in -2 .. n /\ n # -2 /\ n # -1
    BY <1>1
  <2>2. SlotValue(argv, n) = 0
    BY <2>1 DEF SlotValue, n
  <2> QED BY <1>8, <1>9, <2>1, <2>2
<1>13. ASSUME NEW i \in 1 .. n
       PROVE  ReadString(m, m[Stack(base) + WORD * (i - 1)]) = argv[i]
  <2> DEFINE a == StringStore(argv, i)
             s == argv[i]
  <2>1. i \in Int /\ i - 1 \in -2 .. n /\ i - 1 # -2 /\ i - 1 # -1 /\ i - 1 # n /\ (i - 1) + 1 = i
    BY <1>1
  <2>2. SlotValue(argv, i - 1) = Stack(a)
    BY <2>1 DEF SlotValue, n
  <2>3. m[Stack(base) + WORD * (i - 1)] = Stack(a)
    BY <1>8, <1>9, <2>1, <2>2
  <2>4. a \in Nat /\ a + Len(s) + 1 <= PAGE /\ s \in Seq(Nat \ {0}) /\ Len(s) \in Nat
    BY <1>1, <1>4 DEF StringsFit, n
  <2>5. \A k \in 0 .. Len(s) : page[a + k] = IF k < Len(s) THEN s[k + 1] ELSE 0
    BY <1>5 DEF HasArguments, n
  <2>6. Stack(a) = a + P
    BY DEF Stack, P
  <2> HIDE DEF a, s
  <2>7. Len(s) <= PAGE /\ a + P \in Int
    BY <1>1, <2>4
  <2>8. \A k \in 0 .. Len(s) : a + k \in 0 .. PAGE - 1 /\ (a + P) + k = (a + k) + P
    BY <1>1, <2>4
  <2>9. \A k \in 0 .. Len(s) : m[(a + P) + k] = IF k < Len(s) THEN s[k + 1] ELSE 0
    BY <1>6, <2>5, <2>8
  <2>10. ReadString(m, a + P) = s
    BY <2>4, <2>7, <2>9, StringIsRead
  <2> QED BY <2>3, <2>6, <2>10 DEF s
<1>14. argv = [i \in 1 .. n |-> ReadString(m, m[Stack(base) + WORD * (i - 1)])]
  <2>1. argv = [i \in 1 .. n |-> argv[i]]
    BY DEF Arguments, n
  <2> QED BY <1>13, <2>1
<1>15. \A a \in {esp, esp + WORD} \cup {Stack(base) + WORD * (i - 1) : i \in 1 .. n + 1} : IsWordAt(m, a)
  BY <1>10, <1>11
<1>16. FindsArguments(m, argv, esp)
  <2>1. m[esp] = n /\ m[esp + WORD] = Stack(base)
    BY <1>10
  <2> QED BY <1>12, <1>14, <1>15, <2>1 DEF FindsArguments
<1> QED BY <1>16 DEF esp, base

\* What is loaded of the segments when spawn is at offset i of the n-th
SegmentsLoaded(m, segs, size, n, i) ==
  /\ n \in Nat \ {0} /\ i \in Nat /\ i % PAGE = 0
  /\ \A j \in DOMAIN segs : j < n => IsLoaded(m, segs[j], BytesInFile(segs[j], size))
  /\ n \in DOMAIN segs => LoadedTo(m, segs[n], BytesInFile(segs[n], size), i)

\* A child that may run
Whole(m, call, pages) ==
  /\ StackHolds(m, call.args)
  /\ \A j \in DOMAIN call.segs : IsLoaded(m, call.segs[j], BytesInFile(call.segs[j], call.size))
  /\ pages = {pn \in call.shared : pn < LastPage}

LdInv ==
  /\ ldCall \in Calls
  /\ ldPc.step = "segment" =>
       /\ ldMem \in Memories /\ StackHolds(ldMem, ldCall.args)
       /\ SegmentsLoaded(ldMem, ldCall.segs, ldCall.size, ldPc.n, ldPc.i)
  /\ ldPc.step = "start" \/ ldChild = "ENV_RUNNABLE" => Whole(ldMem, ldCall, ldPages)
  /\ ldChild = "ENV_RUNNABLE" => ldPc.step = "done"

\* What is assumed of a call
LEMMA CallIs ==
  ASSUME NEW call \in Calls
  PROVE  /\ call.args \in Arguments /\ call.segs \in Seq(Segment)
         /\ Len(call.segs) \in Nat /\ DOMAIN call.segs = 1 .. Len(call.segs)
         /\ \A i \in DOMAIN call.segs :
              /\ call.segs[i] \in Segment /\ call.segs[i].filesz <= call.segs[i].memsz
              /\ Extent(call.segs[i]) \cap RangeOf(StackPage * PAGE, PAGE) = {}
              /\ \A j \in DOMAIN call.segs \ {i} : Extent(call.segs[i]) \cap Extent(call.segs[j]) = {}
         /\ call.size \in Nat /\ call.shared \subseteq Nat /\ call.private \subseteq Nat
<1>1. /\ call.args \in Arguments /\ call.segs \in Seq(Segment)
      /\ \A i \in DOMAIN call.segs :
           /\ call.segs[i].filesz <= call.segs[i].memsz
           /\ Extent(call.segs[i]) \cap RangeOf(StackPage * PAGE, PAGE) = {}
           /\ \A j \in DOMAIN call.segs \ {i} : Extent(call.segs[i]) \cap Extent(call.segs[j]) = {}
      /\ call.size \in Nat /\ call.shared \subseteq Nat /\ call.private \subseteq Nat
  BY CallsAssumption DEF Arguments
<1>2. /\ Len(call.segs) \in Nat /\ DOMAIN call.segs = 1 .. Len(call.segs)
      /\ \A i \in DOMAIN call.segs : call.segs[i] \in Segment
  BY <1>1
<1> QED BY <1>1, <1>2

\* The stack page stays when something is written elsewhere.
LEMMA StackStays ==
  ASSUME NEW m, NEW t, NEW argv, StackHolds(m, argv), NEW E,
         E \cap RangeOf(StackPage * PAGE, PAGE) = {},
         DOMAIN m \subseteq DOMAIN t, \A b \in DOMAIN m \ E : t[b] = m[b]
  PROVE  StackHolds(t, argv)
<1>1. ASSUME NEW b \in 0 .. PAGE - 1
      PROVE  Stack(b) \in DOMAIN t /\ t[Stack(b)] = InitStack(argv)[b]
  <2>1. Stack(b) \in RangeOf(StackPage * PAGE, PAGE)
    <3>1. StackPage * PAGE \in Nat /\ PAGE \in Nat
      BY LoaderAssumption
    <3> QED BY <3>1 DEF Stack, RangeOf
  <2>2. Stack(b) \in DOMAIN m /\ m[Stack(b)] = InitStack(argv)[b]
    BY DEF StackHolds
  <2> QED BY <2>1, <2>2
<1> QED BY <1>1 DEF StackHolds

\* The invariant holds before spawn opens the file,
LEMMA LdInitially == LdInit => LdInv
BY DEF LdInit, LdInv, Where

\* after init_stack,
LEMMA StackStep == LdInv /\ InitStackPage => LdInv'
<1> SUFFICES ASSUME LdInv, InitStackPage PROVE LdInv'
  OBVIOUS
<1>1. ldCall \in Calls /\ ldChild # "ENV_RUNNABLE" /\ ldCall' = ldCall /\ ldChild' = ldChild
  BY DEF LdInv, InitStackPage, SpawnReturn, Go
<1>2. CASE SpawnReturn
  BY <1>1, <1>2 DEF LdInv, SpawnReturn, Go, Where
<1>3. CASE ~SpawnReturn
  <2> DEFINE argv == ldCall.args
             page == InitStack(argv)
             P == StackPage * PAGE
             m == [a \in {Stack(b) : b \in DOMAIN page} |-> page[a - P]]
  <2>1. StackFits(argv) /\ ldMem' = m /\ ldPc' = Where("segment", 1, 0)
    BY <1>3 DEF InitStackPage, Go
  <2>2. argv \in Arguments
    BY <1>1, CallIs
  <2>3. page \in Memories /\ 0 .. PAGE - 1 \subseteq DOMAIN page
    BY <2>1, <2>2, InitStackIs DEF HasArguments
  <2>4. DOMAIN page \in SUBSET Int /\ page \in [DOMAIN page -> Int]
    BY <2>3, MemoryIs
  <2>5. P \in Nat /\ PAGE \in Nat \ {0}
    BY LoaderAssumption
  <2> HIDE DEF page
  <2>6. \A b : Stack(b) = b + P
    BY DEF Stack
  <2> HIDE DEF P
  <2>7. ASSUME NEW b \in DOMAIN page
        PROVE  Stack(b) \in DOMAIN m /\ m[Stack(b)] = page[b] /\ Stack(b) \in Int
    <3>1. b \in Int
      BY <2>4
    <3>2. Stack(b) = b + P /\ (b + P) - P = b /\ Stack(b) \in Int
      BY <2>5, <2>6, <3>1
    <3>3. Stack(b) \in DOMAIN m
      OBVIOUS
    <3>4. \A a \in DOMAIN m : m[a] = page[a - P]
      OBVIOUS
    <3>5. m[Stack(b)] = page[Stack(b) - P]
      BY <3>3, <3>4
    <3>6. Stack(b) - P = b
      BY <3>2
    <3> QED BY <3>2, <3>3, <3>5, <3>6
  <2>8. m \in Memories
    <3>1. DOMAIN m \in SUBSET Int
      BY <2>7
    <3>2. ASSUME NEW a \in DOMAIN m PROVE m[a] \in Int
      <4>1. PICK b \in DOMAIN page : a = Stack(b)
        OBVIOUS
      <4>2. m[a] = page[b] /\ page[b] \in Int
        <5> HIDE DEF m
        <5> QED BY <2>4, <2>7, <4>1
      <4> QED BY <4>2
    <3>3. m \in [DOMAIN m -> Int]
      BY <3>2
    <3> HIDE DEF m
    <3> QED BY <3>1, <3>3, MemoryIs
  <2> HIDE DEF m
  <2>9. StackHolds(m, argv)
    <3>1. \A b \in 0 .. PAGE - 1 : Stack(b) \in DOMAIN m /\ m[Stack(b)] = page[b]
      BY <2>3, <2>7
    <3> QED BY <2>1, <3>1 DEF StackHolds, page
  <2>10. SegmentsLoaded(m, ldCall.segs, ldCall.size, 1, 0)
    <3>1. \A j \in DOMAIN ldCall.segs : ~(j < 1)
      BY <1>1, CallIs
    <3>2. 0 % PAGE = 0
      BY <2>5, MultipleIs
    <3>3. ASSUME NEW seg \in Segment, NEW len PROVE LoadedTo(m, seg, len, 0)
      <4>1. seg.va % PAGE \in Nat /\ \A k \in 0 .. seg.memsz - 1 : ~((seg.va % PAGE) + k < 0)
        <5>1. seg.va \in Nat
          BY InExtent
        <5>2. seg.va % PAGE \in 0 .. PAGE - 1
          BY <2>5, <5>1, Divided
        <5>3. \A k \in 0 .. seg.memsz - 1 : k \in Nat
          OBVIOUS
        <5> QED BY <5>2, <5>3
      <4> QED BY <4>1 DEF LoadedTo
    <3>4. 1 \in DOMAIN ldCall.segs =>
            LoadedTo(m, ldCall.segs[1], BytesInFile(ldCall.segs[1], ldCall.size), 0)
      BY <1>1, <3>3, CallIs
    <3> QED BY <3>1, <3>2, <3>4 DEF SegmentsLoaded
  <2>11. ldPc'.step = "segment" /\ ldPc'.n = 1 /\ ldPc'.i = 0
    BY <2>1 DEF Where
  <2> QED BY <1>1, <2>1, <2>8, <2>9, <2>10, <2>11 DEF LdInv
<1> QED BY <1>2, <1>3

\* after a page of a segment or its end,
LEMMA PageStep == LdInv /\ LoadPage => LdInv'
<1> SUFFICES ASSUME LdInv, LoadPage PROVE LdInv'
  OBVIOUS
<1> DEFINE n == ldPc.n
           i == ldPc.i
           segs == ldCall.segs
           seg == segs[n]
           size == ldCall.size
           argv == ldCall.args
<1>1. ldCall \in Calls /\ ldChild # "ENV_RUNNABLE" /\ ldCall' = ldCall /\ n <= Len(segs)
      /\ ldMem \in Memories /\ StackHolds(ldMem, argv) /\ SegmentsLoaded(ldMem, segs, size, n, i)
  BY DEF LdInv, LoadPage, Go
<1>2. /\ n \in Nat \ {0} /\ i \in Nat /\ i % PAGE = 0
      /\ \A j \in DOMAIN segs : j < n => IsLoaded(ldMem, segs[j], BytesInFile(segs[j], size))
      /\ n \in DOMAIN segs => LoadedTo(ldMem, segs[n], BytesInFile(segs[n], size), i)
  BY <1>1 DEF SegmentsLoaded
<1>3. /\ Len(segs) \in Nat /\ DOMAIN segs = 1 .. Len(segs) /\ size \in Nat
      /\ \A j \in DOMAIN segs :
           /\ segs[j] \in Segment /\ segs[j].filesz <= segs[j].memsz
           /\ Extent(segs[j]) \cap RangeOf(StackPage * PAGE, PAGE) = {}
           /\ \A k \in DOMAIN segs \ {j} : Extent(segs[j]) \cap Extent(segs[k]) = {}
  BY <1>1, CallIs
<1>4. n \in DOMAIN segs
  BY <1>1, <1>2, <1>3
<1>5. seg \in Segment /\ seg.filesz <= seg.memsz /\ LoadedTo(ldMem, seg, BytesInFile(seg, size), i)
  BY <1>2, <1>3, <1>4
<1>6. CASE i \in SegmentPages(seg)
  <2> DEFINE t == Over(SegmentPage(seg, i, size), ldMem)
  <2>1. CASE Go(Where("done", 0, 0)) /\ ldChild' = "none"
    BY <1>1, <2>1 DEF LdInv, Go, Where
  <2>p. CASE Go(Where("panic", 0, 0)) /\ ldChild' = ldChild
    BY <1>1, <2>p DEF LdInv, Go, Where
  <2>2. CASE /\ ~(Go(Where("done", 0, 0)) /\ ldChild' = "none")
             /\ ~(Go(Where("panic", 0, 0)) /\ ldChild' = ldChild)
    <3>1. ldMem' = t /\ ldPc' = Where("segment", n, i + PAGE) /\ ldChild' = ldChild
      BY <1>6, <2>2 DEF LoadPage, Go
    <3>2. /\ t \in Memories /\ DOMAIN ldMem \subseteq DOMAIN t
          /\ \A b \in DOMAIN ldMem \ Extent(seg) : t[b] = ldMem[b]
          /\ LoadedTo(t, seg, BytesInFile(seg, size), i + PAGE) /\ (i + PAGE) % PAGE = 0
      BY <1>1, <1>3, <1>5, <1>6, PageLoads
    <3> HIDE DEF t
    <3>3. StackHolds(t, argv)
      <4>1. Extent(seg) \cap RangeOf(StackPage * PAGE, PAGE) = {}
        BY <1>3, <1>4
      <4> HIDE DEF seg, argv
      <4> QED BY <1>1, <3>2, <4>1, StackStays
    <3>4. ASSUME NEW j \in DOMAIN segs, j < n
          PROVE  IsLoaded(t, segs[j], BytesInFile(segs[j], size))
      <4>1. Extent(seg) \cap Extent(segs[j]) = {}
        <5>1. j \in DOMAIN segs \ {n}
          BY <1>2, <1>3, <3>4
        <5> QED BY <1>3, <1>4, <5>1
      <4>2. IsLoaded(ldMem, segs[j], BytesInFile(segs[j], size)) /\ segs[j] \in Segment
        BY <1>2, <1>3, <3>4
      <4> HIDE DEF seg, segs
      <4> QED BY <3>2, <4>1, <4>2, StaysLoaded
    <3>5. SegmentsLoaded(t, segs, size, n, i + PAGE)
      <4>1. i + PAGE \in Nat
        BY <1>2, LoaderAssumption
      <4> QED BY <1>2, <3>2, <3>4, <4>1 DEF SegmentsLoaded
    <3>6. ldPc'.step = "segment" /\ ldPc'.n = n /\ ldPc'.i = i + PAGE
      BY <3>1 DEF Where
    <3> QED BY <1>1, <3>1, <3>2, <3>3, <3>5, <3>6 DEF LdInv
  <2> QED BY <2>1, <2>p, <2>2
<1>7. CASE i \notin SegmentPages(seg)
  <2>1. ldPc' = Where("segment", n + 1, 0) /\ ldMem' = ldMem /\ ldChild' = ldChild
    BY <1>7 DEF LoadPage, Go
  <2>2. IsLoaded(ldMem, seg, BytesInFile(seg, size))
    BY <1>2, <1>5, <1>7, LoadsAll
  <2>3. \A j \in DOMAIN segs : j < n + 1 => IsLoaded(ldMem, segs[j], BytesInFile(segs[j], size))
    <3>1. \A j \in DOMAIN segs : j < n + 1 => j < n \/ j = n
      BY <1>2, <1>3
    <3> QED BY <1>2, <2>2, <3>1
  <2>4. 0 % PAGE = 0 /\ PAGE \in Nat \ {0}
    BY MultipleIs, LoaderAssumption
  <2>5. ASSUME NEW s \in Segment, NEW len PROVE LoadedTo(ldMem, s, len, 0)
    <3>1. s.va \in Nat
      BY InExtent
    <3>2. s.va % PAGE \in 0 .. PAGE - 1
      BY <2>4, <3>1, Divided
    <3>3. \A k \in 0 .. s.memsz - 1 : ~((s.va % PAGE) + k < 0)
      BY <3>2
    <3> QED BY <3>3 DEF LoadedTo
  <2>6. SegmentsLoaded(ldMem, segs, size, n + 1, 0)
    BY <1>2, <1>3, <2>3, <2>4, <2>5 DEF SegmentsLoaded
  <2>7. ldPc'.step = "segment" /\ ldPc'.n = n + 1 /\ ldPc'.i = 0
    BY <2>1 DEF Where
  <2> QED BY <1>1, <2>1, <2>6, <2>7 DEF LdInv
<1> QED BY <1>6, <1>7

\* after the shared pages,
LEMMA ShareStep == LdInv /\ CopySharedPages => LdInv'
<1> SUFFICES ASSUME LdInv, CopySharedPages PROVE LdInv'
  OBVIOUS
<1> DEFINE segs == ldCall.segs
           mapped == ldCall.private \cup ldCall.shared
           shared == ldCall.shared
           size == ldCall.size
<1>1. /\ ldCall \in Calls /\ ldChild # "ENV_RUNNABLE" /\ ldCall' = ldCall
      /\ ldChild' = ldChild /\ ldMem' = ldMem /\ ldPc.n > Len(segs)
      /\ StackHolds(ldMem, ldCall.args) /\ SegmentsLoaded(ldMem, segs, size, ldPc.n, ldPc.i)
  BY DEF LdInv, CopySharedPages, Go
<1>2. CASE ldPc' = Where("panic", 0, 0)
  BY <1>1, <1>2 DEF LdInv, Where
<1>3. CASE ldPc' = Where("start", 0, 0) /\ ldPages' = CopiedFrom(mapped, shared)
  <2>1. /\ Len(segs) \in Nat /\ DOMAIN segs = 1 .. Len(segs)
        /\ shared \subseteq Nat /\ ldCall.private \subseteq Nat
    BY <1>1, CallIs
  <2>2. mapped \in SUBSET Nat /\ shared \in SUBSET mapped
    BY <2>1
  <2>3. ldPages' = {pn \in shared : pn < LastPage}
    BY <1>3, <2>2, CopiesShared
  <2>4. \A j \in DOMAIN segs : IsLoaded(ldMem, segs[j], BytesInFile(segs[j], size))
    <3>1. ldPc.n \in Nat /\ \A j \in DOMAIN segs : j < ldPc.n => IsLoaded(ldMem, segs[j], BytesInFile(segs[j], size))
      BY <1>1 DEF SegmentsLoaded
    <3>2. \A j \in DOMAIN segs : j < ldPc.n
      BY <1>1, <2>1, <3>1
    <3> QED BY <3>1, <3>2
  <2>5. Whole(ldMem, ldCall, ldPages')
    BY <1>1, <2>3, <2>4 DEF Whole
  <2>6. ldPc'.step = "start"
    BY <1>3 DEF Where
  <2> QED BY <1>1, <2>5, <2>6 DEF LdInv
<1> QED BY <1>2, <1>3 DEF CopySharedPages, Go

\* and so after every step;
LEMMA LdInductive == LdInv /\ [LdNext]_ldVars => LdInv'
<1> SUFFICES ASSUME LdInv, [LdNext]_ldVars PROVE LdInv'
  OBVIOUS
<1>1. CASE Open
  BY <1>1 DEF LdInv, Open, SpawnReturn, Go, Where
<1>2. CASE Exofork
  BY <1>2 DEF LdInv, Exofork, SpawnReturn, Go, Where
<1>3. CASE InitStackPage
  BY <1>3, StackStep
<1>4. CASE LoadPage
  BY <1>4, PageStep
<1>5. CASE CopySharedPages
  BY <1>5, ShareStep
<1>6. CASE StartChild
  BY <1>6 DEF LdInv, StartChild, Go, Where
<1>7. CASE UNCHANGED ldVars
  BY <1>7 DEF LdInv, ldVars
<1> QED BY <1>1, <1>2, <1>3, <1>4, <1>5, <1>6, <1>7 DEF LdNext

\* and it says what is promised of the child.
LEMMA LdInvImplies == LdInv => ChildIsComplete
<1> SUFFICES ASSUME LdInv PROVE ChildIsComplete
  OBVIOUS
<1>1. ldCall \in Calls /\ (ldChild = "ENV_RUNNABLE" => Whole(ldMem, ldCall, ldPages))
  BY DEF LdInv
<1>2. MainSeesArguments
  <2> SUFFICES ASSUME ldChild = "ENV_RUNNABLE"
               PROVE  FindsArguments(ldMem, ldCall.args, InitEsp)
    BY DEF MainSeesArguments, FindsArguments
  <2>1. ldCall.args \in Arguments /\ StackHolds(ldMem, ldCall.args)
    BY <1>1, CallIs DEF Whole
  <2> QED BY <2>1, ArgumentsAreRead DEF InitEsp
<1>3. ProgramIsLoaded
  BY <1>1 DEF ProgramIsLoaded, Whole
<1>4. KernelLoadsIt
  BY <1>1, KernelLoads DEF KernelLoadsIt
<1>5. SharesDescriptors
  BY <1>1 DEF SharesDescriptors, Whole
<1> QED BY <1>2, <1>3, <1>4, <1>5 DEF ChildIsComplete

\* A program that spawn has started finds its arguments on its stack, its
\* segments in its memory, with zeroes for what a file that is too short does not
\* have, and the pages its parent shares; and what load_icode loads is loaded,
\* for every page size and every such program.
THEOREM ChildStartsComplete == LoaderSpec => []ChildIsComplete
<1>1. LoaderSpec => []LdInv
  BY LdInitially, LdInductive, PTL DEF LoaderSpec
<1> QED BY <1>1, LdInvImplies, PTL
=============================================================================
