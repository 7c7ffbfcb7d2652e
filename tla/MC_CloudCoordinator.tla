------------------------- MODULE MC_CloudCoordinator -------------------------
(* Small instances of CloudCoordinator for TLC.                            *)
EXTENDS CloudCoordinator, TLC

CONSTANTS c1, c2

Two == {c1, c2}
Symmetry2 == Permutations(Two)

Says(p, t) == [power |-> p, target |-> t, faulty |-> FALSE, stamped |-> TRUE]
OneClock == {0}
TwoClocks == {-1, 1}

On == [key |-> "power", wanted |-> "on", requiresOn |-> FALSE]
Off == [key |-> "power", wanted |-> "off", requiresOn |-> FALSE]
Target(t) == [key |-> "target", wanted |-> t, requiresOn |-> TRUE]
Rename == [key |-> "none", wanted |-> "unknown", requiresOn |-> FALSE]

(* Power: what ON and OFF meet.                                            *)
PowerRequests == {On, Off}
PowerContents == {Says("on", "t2"), Says("off", "t2")}

(* Feedback and unload: a target and an experimental write, samples that   *)
(* hold them up.                                                           *)
TargetRequests == {Target("t1"), Rename}
TargetContents ==
  {Says("reached", "t1"), Says("on", "t2"),
   [Says("on", "t1") EXCEPT !.stamped = FALSE], [Says("on", "t2") EXCEPT !.faulty = TRUE]}
=============================================================================
