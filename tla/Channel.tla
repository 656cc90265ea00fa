------------------------------- MODULE Channel -------------------------------
(***************************************************************************)
(* What a pipe promises a program with one writer and one reader: a        *)
(* first-in first-out channel of at most Capacity bytes.  The k-th byte    *)
(* written is the number k.                                                *)
(***************************************************************************)
EXTENDS Integers, Sequences

CONSTANT Capacity   \* a natural number, not 0

VARIABLES
  queue,   \* the bytes in the channel, oldest first
  sent,    \* how many bytes were written
  last     \* the byte read last, 0 before the first

channelVars == <<queue, sent, last>>

Init == queue = <<>> /\ sent = 0 /\ last = 0

Send ==
  /\ Len(queue) < Capacity
  /\ queue' = Append(queue, sent + 1)
  /\ sent' = sent + 1
  /\ UNCHANGED last

Receive ==
  /\ queue # <<>>
  /\ last' = Head(queue)
  /\ queue' = Tail(queue)
  /\ UNCHANGED sent

Next == Send \/ Receive

Spec == Init /\ [][Next]_channelVars
=============================================================================
