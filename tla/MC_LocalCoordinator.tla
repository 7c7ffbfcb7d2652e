------------------------- MODULE MC_LocalCoordinator -------------------------
(* Small instances of LocalCoordinator for TLC.                            *)
EXTENDS LocalCoordinator

Says(op, p, h) == [opcode |-> op, power |-> p, humidity |-> h, unit |-> "celsius"]

NoReportYet == [opcode |-> "event", power |-> "unknown", humidity |-> "unknown",
                unit |-> "unknown"]

On == [key |-> "power", wanted |-> "on"]
Off == [key |-> "power", wanted |-> "off"]

PowerRequests == {On, Off}
PowerReports == {Says("power", "on", "h1"), Says("power", "off", "h1")}

StartRequests == {On}
DriftReports == PowerReports \cup {Says("event", "unknown", "h1")}
=============================================================================
