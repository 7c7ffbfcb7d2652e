-------------------------- MODULE MC_CloudDirectory --------------------------
(* Small instances of CloudDirectory for TLC.                              *)
EXTENDS CloudDirectory, TLC

CONSTANTS a1, a2, t1, t2, d1, d2

Two == {a1, a2}
TwoTokens == {t1, t2}
TwoIds == {d1, d2}
PollAndPost == (a1 :> {"status"}) @@ (a2 :> {"command", "rename"})

Mine(d) == [id |-> d, user |-> "mine"]
Unnamed(d) == [id |-> d, user |-> "absent"]
Own == [number |-> "ours", user |-> "mine"]
Other == [number |-> "other", user |-> "mine"]
Lent == [number |-> "ours", user |-> "guest"]
Details(x, y) == (d1 :> x) @@ (d2 :> y)

(* The appliance on the second page, its id given to a guest and a new one *)
(* on the first page, two ids on two pages, too many pages.                *)
SomeBooks ==
  {[pages |-> <<{}, {Mine(d1)}>>, detail |-> Details(Own, Other)],
   [pages |-> <<{Unnamed(d2)}, {}>>, detail |-> Details(Lent, Own)],
   [pages |-> <<{Mine(d1)}, {Mine(d2)}>>, detail |-> Details(Own, Own)],
   [pages |-> <<{Mine(d1)}, {}, {}>>, detail |-> Details(Own, Own)]}
=============================================================================
