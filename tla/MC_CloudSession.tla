--------------------------- MODULE MC_CloudSession ---------------------------
(* A small instance of CloudSession for TLC: a poll beside a command or a  *)
(* rename, under a token that the cloud may renew as itself or as another. *)
EXTENDS CloudSession, TLC

CONSTANTS a1, a2, t1, t2

Two == {a1, a2}
TwoTokens == {t1, t2}
PollAndPost == (a1 :> {"status"}) @@ (a2 :> {"command", "rename"})
=============================================================================
