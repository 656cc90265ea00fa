------------------------------- MODULE MCFsServer -------------------------------
(***************************************************************************)
(* A small instance of FsServer for TLC.  The parent opens, writes and     *)
(* truncates the file, duplicates descriptors and has a child, time and    *)
(* again, that reads through what it inherits, seeks, before, in the       *)
(* middle of and after the parent's writes, closes, exits or is killed.    *)
(***************************************************************************)
EXTENDS FsServer

ParentFlags == {{"rdwr"}, {"creat", "trunc", "excl"}}

ParentStep ==
  \/ \E file \in Files, flags \in ParentFlags : open(0, file, flags)
  \/ \E fd \in FDs : close(0, fd)
  \/ write(0, 0, 1)
  \/ ftruncate(0, 1, 0)
  \/ dup(0, 0, 1)
  \/ Kill(0, 1)
  \/ Child(0, 1)

ChildStep ==
  \/ read(1, 0, 1) \/ fstat(1, 1) \/ close(1, 0)
  \/ \E offset \in Places : seek(1, 0, offset)
  \/ Free(1) = FDs /\ sync(1)
  \/ Exit(1)

MCNext == serve \/ ParentStep \/ ChildStep \/ \E e \in Clients : Continue(e)

MCSpec == Init /\ [][MCNext]_vars
=============================================================================
