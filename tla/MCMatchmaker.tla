---------------------------- MODULE MCMatchmaker ----------------------------
(* Matchmaker for TLC: two units near enough to three lots to compete for   *)
(* them, in two districts.                                                  *)
EXTENDS Matchmaker, TLC

CONSTANTS ludhiana, patiala

Lot(i, tonnes, km1, km2) ==
  [id |-> i, tonnes |-> tonnes, feedstock |-> "paddy_straw", km |-> (1 :> km1 @@ 2 :> km2)]

Unit(i, capacity) == [id |-> i, capacity |-> capacity, accepts |-> {"paddy_straw"}]

MCLots     == {Lot(1, 2, 1, 2), Lot(2, 2, 1, 3), Lot(3, 1, 2, 1)}
MCUnits    == {Unit(1, 3), Unit(2, 1)}
MCDistrict == 1 :> ludhiana @@ 2 :> patiala @@ 3 :> ludhiana

Over == (\A c \in Rounds : pc[c] \in Ends) /\ listed \cup matched = Lots /\ today = LastDay

MCNext == Next \/ (Over /\ UNCHANGED vars)
MCSpec == Init /\ [][MCNext]_vars

Symmetry == Permutations(Rounds)
=============================================================================
