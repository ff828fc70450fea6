----------------------------- MODULE MCScreens -----------------------------
(* Screens for TLC.  On the Break It screen the ledger is long enough for a *)
(* batch of either kind to lie behind MAX_TRACE_FETCHES of the other.       *)
EXTENDS Screens

MCActions == {"edited", "verifyEvidence"}

(* One row less is enough for the other screens, and one attack for the     *)
(* longest ledger: what an attack is shown as depends on no other.          *)
Short ==
  /\ view # "breakit" => Len(ledger) < MaxRows
  /\ Len(ledger) = MaxRows => Cardinality({a \in Attacks : results[a] # {}}) <= 1
=============================================================================
