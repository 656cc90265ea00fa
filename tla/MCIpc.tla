-------------------------------- MODULE MCIpc --------------------------------
(***************************************************************************)
(* A small instance of Ipc for TLC.                                        *)
(***************************************************************************)
EXTENDS Ipc

OneTable == [va \in VA |-> 0]

\* Three programs.  The server receives a page and answers the sender; the
\* parent sends it pages, to write or only to read, and children come and go,
\* which send to the server or to the parent.  Ids are used once.
Server == <<1, 0>>
Parent == <<1, 1>>
Children2 == {<<1, 2>>, <<2, 2>>}
AValue == CHOOSE v \in Values : TRUE

ServerCall ==
  /\ curenv = 0
  /\ \/ IpcRecv(0)
     \/ IpcSend(env_ipc_from[0], AValue, 0, {"P", "U"})

ParentCall ==
  /\ curenv = 1
  /\ \/ \E pg \in VA \cup {UTOP} : IpcRecv(pg)
     \/ \E perm \in Perms : IpcSend(Server, AValue, 0, perm)
     \/ \E to \in Children2 : IpcSend(to, AValue, UTOP, {})
     \/ \E envid \in Children2 : WaitFor(envid)
     \/ Fork \/ Start(2) \/ Destroy(2)

ChildCall ==
  /\ curenv = 2
  /\ \/ IpcRecv(UTOP)
     \/ \E v \in Values \ {AValue} : IpcSend(Server, v, UTOP, {})
     \/ Destroy(2)

MCNext ==
  \/ Clock
  \/ ServerCall \/ ParentCall \/ ChildCall
  \/ \E e \in Envs : Continue(e)

MCSpec ==
  /\ IpcInit /\ [][MCNext]_ipcAll
  /\ WF_ipcAll(Clock)
  /\ \A e \in Envs : SF_ipcAll(Continue(e))

\* A wait for a child that is gone ends, and a parked server and a child that
\* sends to it find each other.
ParentWaitEnds == WaitEnds(1)
ServerMeetsChild == Rendezvous(0, 2)

UserPerms == {{"P", "U"}, {"P", "U", "W"}}
=============================================================================
