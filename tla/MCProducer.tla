----------------------------- MODULE MCProducer -----------------------------
(* Producer for TLC: the same three detections in two orders, with a line   *)
(* that repeats one, a weak one, one elsewhere and one that is no line.     *)
EXTENDS Producer

MCDistricts == {[name |-> "Ludhiana", state |-> "PB", at |-> [lat |-> 30900000, lon |-> 75860000]]}
MCKm(p, q)  == 0
MCSlug(s)   == s

Line(n) ==
  [lat |-> 30900000 + 1000 * n, lon |-> 75860000, short |-> FALSE, acqMonth |-> 10,
   acqDate |-> "2026-10-12", acqTime |-> 607, satellite |-> "n20",
   confidence |-> [n |-> 0, word |-> "n"], frp |-> 0]

Weak      == [Line(1) EXCEPT !.confidence.word = "l"]
Elsewhere == [Line(1) EXCEPT !.lat = 7000000, !.lon = 80000000]

MCResponses == {[header |-> TRUE, lines |-> <<Line(1), Line(2)>>],
                [header |-> TRUE, lines |-> <<Line(2), Line(2), Line(1)>>],
                [header |-> FALSE, lines |-> <<>>]}
MCFixture   == [header |-> TRUE, lines |-> <<Weak, Elsewhere, Line(2)>>]

Over == \A c \in Calls : pc[c] \in Ends
MCSpec == Init /\ [][Next \/ (Over /\ UNCHANGED vars)]_vars /\ Fairness
=============================================================================
