---------------------------- MODULE UnloadContract ----------------------------
(***************************************************************************)
(* What the unload of an entry counts on from its coordinator, whichever   *)
(* transport it has: async_prepare_unload closes it to new calls, lets the *)
(* command in flight come to its end, hands none of those queued behind    *)
(* command_lock on, and returns.  LocalCoordinator and CloudCoordinator    *)
(* implement it, EntryLifecycle builds on it.                              *)
(***************************************************************************)
EXTENDS Naturals

VARIABLES
  phase,    \* "open", "closing" once _closing is set, "drained" at the return
  queued,   \* calls accepted that wait for command_lock
  sending   \* does a command hold command_lock

unloadVars == <<phase, queued, sending>>

Init == phase = "open" /\ queued = 0 /\ sending = FALSE

(* async_command: a closing coordinator turns the call down at once.       *)
Enqueue == phase = "open" /\ queued' = queued + 1 /\ UNCHANGED <<phase, sending>>

(* The head of the queue has its intent recorded and goes out, ...         *)
Issue ==
  /\ phase = "open" /\ queued > 0 /\ ~sending
  /\ queued' = queued - 1 /\ sending' = TRUE
  /\ UNCHANGED phase

(* ... or is turned down: behind the lock nothing else is left for it once *)
(* the coordinator is closing.                                             *)
Decline ==
  /\ queued > 0 /\ ~sending
  /\ queued' = queued - 1
  /\ UNCHANGED <<phase, sending>>

End == sending /\ sending' = FALSE /\ UNCHANGED <<phase, queued>>

Close == phase = "open" /\ phase' = "closing" /\ UNCHANGED <<queued, sending>>

Drained ==
  /\ phase = "closing" /\ queued = 0 /\ ~sending
  /\ phase' = "drained"
  /\ UNCHANGED <<queued, sending>>

Next == Enqueue \/ Issue \/ Decline \/ End \/ Close \/ Drained

Safe == Init /\ [][Next]_unloadVars

(* Whatever is begun ends, so that a closing coordinator drains.           *)
Spec ==
  /\ Safe
  /\ WF_unloadVars(End) /\ WF_unloadVars(Issue \/ Decline) /\ WF_unloadVars(Drained)
=============================================================================
