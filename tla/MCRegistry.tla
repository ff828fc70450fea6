----------------------------- MODULE MCRegistry -----------------------------
(* Registry for TLC: a small world of evidence, matches and lots.           *)
EXTENDS Registry, TLC

CONSTANTS e1, e2, e3, m1, m2, h1, NoLot

(* e1 and e2 were captured for the same match; m2's lot is gone.            *)
MCMatchOf  == (e1 :> m1) @@ (e2 :> m1) @@ (e3 :> m2)
MCHolderOf == (m1 :> h1) @@ (m2 :> NoLot)

(* One batch of evidence, with every call about it.                         *)
OneMatchOf  == e1 :> m1
OneHolderOf == m1 :> h1

Over == \A c \in Calls : pc[c] \in Ends

(* A refused verdict of one of them is enough.                              *)
OneRejected == \A e \in {e2, e3} : verdicts[e] # "rejected"

MCNext == Next \/ (Over /\ UNCHANGED vars)
MCSpec == Init /\ [][MCNext]_vars

Symmetry == Permutations(Calls) \cup Permutations(Gets)
=============================================================================
