------------------------------ MODULE MCField -------------------------------
(* Field for TLC: two tabs of one phone.  Nothing is left to do once every  *)
(* evidence id is drawn and all that was sent is settled.                   *)
EXTENDS Field, TLC

Over ==
  /\ items = <<>> /\ late = {}
  /\ \A t \in Tabs : todo[t] = <<>> /\ \A k \in Kinds : request[t][k] = Idle

MCSpec == Init /\ [][Next \/ (Over /\ UNCHANGED vars)]_vars /\ \A t \in Tabs : WF_vars(Flush(t))
=============================================================================
