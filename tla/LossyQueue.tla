------------------------------- MODULE LossyQueue -------------------------------
(***************************************************************************)
(* A queue that loses everything it holds when one more would fill it.     *)
(* What is taken out has been put in, in order.                            *)
(***************************************************************************)
EXTENDS Sequences, Integers

CONSTANTS Chars, Size, None
VARIABLES queue, got

Empty == queue = <<>> /\ got = None

Put(c) ==
  /\ queue' = IF Len(queue) + 1 = Size THEN <<>> ELSE Append(queue, c)
  /\ UNCHANGED got

Take ==
  /\ queue # <<>>
  /\ got' = Head(queue) /\ queue' = Tail(queue)

Used == got' = None /\ UNCHANGED queue

Step == Take \/ Used \/ \E c \in Chars : Put(c)
=============================================================================
