---------------------------- MODULE PrivateMemory ----------------------------
(***************************************************************************)
(* What fork promises: every process has memory of its own.  A child       *)
(* starts with what its parent has, except for places nobody writes, which *)
(* it may lack; afterwards neither sees what the other writes, except in   *)
(* the places they share.                                                  *)
(***************************************************************************)
CONSTANTS Procs, Places,
          Common,    \* the places whose contents processes share
          ReadOnly,  \* those that nobody writes
          Along,     \* what a process lacks together with a place
          Stack,     \* the stack the forking process runs on
          Data, NULL

VARIABLES live, value

Nothing == [a \in Places |-> NULL]

Start(boot, image) ==
  /\ live = {boot}
  /\ value = [p \in Procs |-> IF p = boot THEN image ELSE Nothing]

Write(p, a, v) ==
  /\ p \in live
  /\ value[p][a] # NULL
  /\ value' = [q \in Procs |->
       IF q = p \/ (a \in Common /\ value[q][a] # NULL)
       THEN [value[q] EXCEPT ![a] = v]
       ELSE value[q]]
  /\ UNCHANGED live

\* The child may share nothing, may lack read-only places, and runs on a stack
\* of some earlier moment of the fork.
Lost(p, lost) == \A a \in lost : \A b \in Along[a] : value[p][b] # NULL => b \in lost

Fork(p, c) ==
  /\ p \in live /\ c \notin live
  /\ live' = live \cup {c}
  /\ \E kept \in {Places, Places \ Common}, lost \in SUBSET ReadOnly, old \in Data :
       /\ Lost(p, lost)
       /\ value' = [value EXCEPT ![c] =
            [a \in Places |-> IF a = Stack THEN old
                              ELSE IF a \in kept \ lost THEN value[p][a] ELSE NULL]]

Exit(p) ==
  /\ p \in live
  /\ live' = live \ {p}
  /\ value' = [value EXCEPT ![p] = Nothing]

Step ==
  \E p \in Procs :
    \/ \E a \in Places, v \in Data : Write(p, a, v)
    \/ \E c \in Procs : Fork(p, c)
    \/ Exit(p)
=============================================================================
