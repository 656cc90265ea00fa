------------------------------- MODULE MCPipe -------------------------------
(***************************************************************************)
(* Small instances of Pipe for TLC.                                        *)
(***************************************************************************)
EXTENDS Pipe, TLC

\* Environments other than the creator are alike when they have no roles.
ChildSymmetry == Permutations(Envs \ {Creator})

\* Descriptors are duplicated and closed, children are forked and die, all
\* while others check the pipe.
DupSpec ==
  Init /\ [][\E e \in Envs :
               \/ Proceed(e) \/ Destroy(e)
               \/ \E child \in Envs : Fork(e, child)
               \/ \E i \in Fds : Close(e, i) \/ PipeIsClosed(e, i)
                                 \/ \E j \in Fds : Dup(e, i, j)]_vars

\* Bytes move between environments that fork, close and die.
DataSpec ==
  Init /\ [][\E e \in Envs :
               \/ Proceed(e) \/ Destroy(e) \/ Transfer(e)
               \/ \E child \in Envs : Fork(e, child)
               \/ \E i \in Fds : Close(e, i)]_vars
FairDataSpec == DataSpec /\ Fairness
=============================================================================
