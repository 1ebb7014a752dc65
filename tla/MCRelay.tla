------------------------------- MODULE MCRelay -------------------------------
(* Instances of Relay for TLC.                                             *)
EXTENDS Relay, TLC

CONSTANTS h1, h2, t1, t2, m1, m2

\* One receiver h1 with one task, two messages from h2.
OneTask == [t \in Tasks |-> h1]
ToOneTask == [m \in Msgs |-> t1]
FromH2 == [m \in Msgs |-> h2]

\* Two receivers, each with a task and a message from the other.
TwoTasks == t1 :> h1 @@ t2 :> h2
Crossed == m1 :> t1 @@ m2 :> t2
FromOther == m1 :> h2 @@ m2 :> h1
=============================================================================
