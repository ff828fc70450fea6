----------------------------- MODULE MCVerifier -----------------------------
(* Verifier for TLC: one id submitted with two contents, and one photo      *)
(* submitted under two ids.                                                 *)
EXTENDS Verifier

CONSTANTS i1, i2, photo1, photo2, m1

Submitted(id, photo, sure, batchOK) ==
  [id |-> id, photo |-> photo, match |-> m1,
   look |-> "good_char", sure |-> sure, batchOK |-> batchOK]

MCPayloads == {Submitted(i1, photo1, TRUE, TRUE),
               Submitted(i1, photo2, FALSE, TRUE),
               Submitted(i2, photo1, TRUE, FALSE)}

Over == \A c \in Calls : pc[c] \in Ends

MCNext == Next \/ (Over /\ UNCHANGED vars)
MCSpec == Init /\ [][MCNext]_vars /\ \A c \in Calls : WF_vars(Step(c))
=============================================================================
