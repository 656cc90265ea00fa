---------------------------- MODULE MCDirectory ----------------------------
(***************************************************************************)
(* A small instance of Directory for TLC: programs create three files, in  *)
(* a directory of two entries to a block.                                  *)
(***************************************************************************)
EXTENDS Directory

MCPaths == {<<"a">>, <<"b">>, <<"c">>}
=============================================================================
