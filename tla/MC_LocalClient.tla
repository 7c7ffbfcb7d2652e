--------------------------- MODULE MC_LocalClient ---------------------------
(* Small instances of LocalClient for TLC.                                 *)
EXTENDS LocalClient, TLC

CONSTANTS c1, c2

CommandIds == {c1, c2}
CommandSymmetry == Permutations(CommandIds)

PowerReport(p) == [opcode |-> "power", power |-> p, humidity |-> "h1", unit |-> "celsius"]
HumidityReport(p, h) == [opcode |-> "humidity", power |-> p, humidity |-> h, unit |-> "celsius"]
Status(r) == [kind |-> "status", report |-> r]
Plain(k) == [kind |-> k, report |-> NoReport]

On == [op |-> "power", want |-> "on", allowStale |-> FALSE]
Off == [op |-> "power", want |-> "off", allowStale |-> FALSE]
Humidity == [op |-> "humidity", want |-> "h1", allowStale |-> FALSE]

(* Sessions: reconnects, a humidity target beside OFF on a stale status,   *)
(* reports of the appliance going off.                                     *)
SessionRequests == {Humidity, Off}
SessionInputs == {Status(PowerReport("on")), Status(HumidityReport("off", "h1"))}

(* Locks and liveness: two ONs, frames that end the session beside those   *)
(* that serve it, heartbeats during the pacing sleep.                      *)
LiveRequests == {On}
LiveInputs == {Status(PowerReport("on"))} \cup {Plain(k) : k \in Kinds \ {"status"}}
=============================================================================
