------------------------------- MODULE Mailbox -------------------------------
(***************************************************************************)
(* What the cross-host relay promises its users, with no hosts, journals,  *)
(* attempts, networks or crashes: a message is posted once, leased once,   *)
(* handed to Codex at most once, and its public status only moves forward  *)
(* (docs/cross-host-relay.md, "States have deliberately different          *)
(* meanings").  Relay is shown to implement this module.                   *)
(***************************************************************************)
EXTENDS Naturals

CONSTANT Msgs

VARIABLES
  status,     \* what `cs relay get` shows for a message
  delivered   \* how many times Codex queued the message's prompt

mvars == <<status, delivered>>

Statuses == {"unsent", "queued", "dispatching", "submitted", "uncertain",
             "acknowledged", "completed", "forgotten"}

MInit ==
  /\ status = [m \in Msgs |-> "unsent"]
  /\ delivered = [m \in Msgs |-> 0]

Move(m, from, to) ==
  /\ status[m] \in from
  /\ status' = [status EXCEPT ![m] = to]
  /\ UNCHANGED delivered

Post(m)  == Move(m, {"unsent"}, "queued")
Lease(m) == Move(m, {"queued"}, "dispatching")
Doubt(m) == Move(m, {"dispatching"}, "uncertain")

\* "Codex CLI returned a matching queue submission ID."
Confirm(m) == delivered[m] = 1 /\ Move(m, {"dispatching"}, "submitted")

\* "Destination observer supplied actual task receipt evidence."
Attest(m) ==
  /\ delivered[m] = 1
  /\ Move(m, {"dispatching", "submitted", "uncertain"}, "acknowledged")

Finish(m) == Move(m, {"acknowledged"}, "completed")
Forget(m) == Move(m, {"completed"}, "forgotten")

\* Codex queues the prompt: once, and never before a host leased the message.
\* It may come after the host reported its outcome as uncertain.
Deliver(m) ==
  /\ delivered[m] = 0
  /\ status[m] \in {"dispatching", "uncertain"}
  /\ delivered' = [delivered EXCEPT ![m] = 1]
  /\ UNCHANGED status

MNext ==
  \E m \in Msgs :
    \/ Post(m) \/ Lease(m) \/ Deliver(m) \/ Confirm(m) \/ Doubt(m)
    \/ Attest(m) \/ Finish(m) \/ Forget(m)

MSpec == MInit /\ [][MNext]_mvars
=============================================================================
