------------------------------ MODULE MCLedger ------------------------------
(* Ledger for TLC.  A run ends where MaxRows stops new calls; the stutter   *)
(* there lets TLC look for deadlocks everywhere else.                       *)
EXTENDS Ledger

Quiet == Len(log) = MaxRows /\ (\A w \in Writers : pc[w] = "idle")

MCNext == Next \/ (Quiet /\ UNCHANGED vars)
MCSpec == Init /\ [][MCNext]_vars /\ Fairness
=============================================================================
