--------------------------- MODULE CommandContract ---------------------------
(***************************************************************************)
(* What the local client promises about commands, without sessions, locks, *)
(* frames or time: each is sent at most once, one at a time, never again,  *)
(* and its outcome tells the caller how far it got.                        *)
(***************************************************************************)
CONSTANT Commands

VARIABLES phase, outcome

cvars == <<phase, outcome>>

NeverSent == {"notsent", "notconnected", "stale", "cancelled"}

Init ==
  /\ phase = [c \in Commands |-> "idle"]
  /\ outcome = [c \in Commands |-> "none"]

Move(c, from, to) ==
  /\ phase[c] = from
  /\ phase' = [phase EXCEPT ![c] = to]
  /\ UNCHANGED outcome

Accept(c) == Move(c, "idle", "accepted")

InFlight == {"sent", "confirmed"}

Send(c) ==
  /\ \A d \in Commands : phase[d] \notin InFlight
  /\ Move(c, "accepted", "sent")

Confirm(c) == Move(c, "sent", "confirmed")

(* A confirmed command may still be reported as uncertain: its caller was  *)
(* cancelled before the confirmation reached it.                           *)
End(c, o) ==
  /\ \/ phase[c] = "accepted" /\ o \in NeverSent
     \/ phase[c] = "sent" /\ o = "uncertain"
     \/ phase[c] = "confirmed" /\ o \in {"ok", "uncertain"}
  /\ phase' = [phase EXCEPT ![c] = "over"]
  /\ outcome' = [outcome EXCEPT ![c] = o]

Next ==
  \E c \in Commands :
    \/ Accept(c) \/ Send(c) \/ Confirm(c)
    \/ \E o \in NeverSent \cup {"ok", "uncertain"} : End(c, o)

Spec == Init /\ [][Next]_cvars
=============================================================================
