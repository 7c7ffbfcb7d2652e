-------------------------- MODULE MC_EntryLifecycle --------------------------
(* Small instances of EntryLifecycle for TLC.                              *)
EXTENDS EntryLifecycle

CONSTANTS e1, e2, x1

TwoEntries == {e1, e2}
OneAddress == {x1}

(* One entry with a listener, and one that may be added.                   *)
OneStored == {[e \in TwoEntries |-> IF e = e1 THEN OnListener(x1) ELSE NoEntry]}
=============================================================================
