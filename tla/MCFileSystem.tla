---------------------------- MODULE MCFileSystem ----------------------------
(***************************************************************************)
(* Small instances of FileSystem for TLC.                                  *)
(***************************************************************************)
EXTENDS FileSystem, TLC

\* With two words in a block and one direct block: all of the direct block;
\* across the border of the two blocks behind the indirect block; and across
\* the end of the largest file.
StartAndEnd == {<<0, 2>>, <<5, 2>>}
MiddleAndEnd == {<<3, 2>>, <<5, 2>>}

FileSymmetry == Permutations(Files)
=============================================================================
