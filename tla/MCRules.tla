------------------------------- MODULE MCRules ------------------------------
(* The cases of Rules for TLC.                                              *)
EXTENDS Rules

CONSTANTS Ludhiana, Credit, Lot, Ward, MaxLines, LotIds

(* Rounds: a few lots, two units; unit 1 may be committed beyond its        *)
(* capacity, which a re-seed can lower.                                     *)
UnitIds == {1, 2}
Kms     == {1, 2}

Units(i) ==
  [id : {i}, capacity : {1, 3},
   accepts : IF i = 1 THEN {{"paddy_straw", "wheat_straw"}} ELSE {{"paddy_straw"}}]

Rounds ==
  UNION {[of : {"round"}, lots : {{}}, units : {{u, v}}, maxRadiusKm : Kms,
          committed : [UnitIds -> {0, 2}]] : u \in Units(1), v \in Units(2)}

Lots == [id : LotIds, tonnes : 1..2, feedstock : {"paddy_straw", "wheat_straw"},
         km : [UnitIds -> Kms]]

(* Feeds: two detections, one of them again a metre away, and lines that    *)
(* are no use.                                                              *)
MCDistricts == {[name |-> "Ludhiana", state |-> "PB", at |-> [lat |-> 30900000, lon |-> 75860000]]}
MCKm(p, q)  == IF p = q THEN 0 ELSE 61
MCSlug(s)   == s

Line(lat, frp) ==
  [short |-> FALSE, lat |-> lat, lon |-> 75860000, acqMonth |-> 10, acqDate |-> "2026-10-12",
   acqTime |-> 607, satellite |-> "n20", confidence |-> [word |-> "n", n |-> 0], frp |-> frp]

Lines == {Line(30900000, 0), Line(30900004, 20), Line(30910000, 2), Line(30920000, 9999),
          [Line(30900000, 0) EXCEPT !.confidence = [word |-> "number", n |-> 29]],
          [Line(8000000, 0) EXCEPT !.lon = 80000000],
          [Line(30900000, 0) EXCEPT !.acqMonth = 0]}

Feeds == [of : {"feed"}, lines : {<<>>}, known : {{}, {DetectionIdOf(Line(30910000, 0))}}]

(* Sentences: what they say, then which patterns match.                     *)
Sayings ==
  [marks : {{}}, quantities : {<<>>, <<30>>, <<200000, 30>>},
   crops : {{}, {[length |-> 5, is |-> "mixed"], [length |-> 11, is |-> "paddy_straw"]}},
   places : {{}, {[length |-> 8, is |-> Ludhiana]}, {[length |-> 4, is |-> "elsewhere"]}},
   creditId : {None, Credit}, lotId : {None, Lot},
   nearest : {<<>>, [retire_credit |-> 70, impact_summary |-> 40],
              [declare_waste |-> 70, unknown |-> 65]},
   isLanguage : {TRUE}]

Sentences == [of : {"sentence"}, sentence : Sayings, identity : {Ward}]

(* Batches: small and large, poor to good, near and far.                    *)
Batches ==
  UNION {[of : {"batch"}, feedstock : {f}, km : {0, 1, 60, 115}, quality : -1..11,
          biochar : {1, f * 7, Expected(f), f * 40, f * 40 + 1}] : f \in {15, 100, 333, 600}}

MCStarts == Rounds \cup Feeds \cup Sentences \cup Batches

(* A case that has all it can have stays as it is.                        *)
MCGrown(c) ==
  {c} \cup CASE c.of = "round" ->
         {[c EXCEPT !.lots = @ \cup {lot}] : lot \in {l \in Lots : \A m \in c.lots : m.id < l.id}}
    [] c.of = "feed" /\ Len(c.lines) < MaxLines ->
         {[c EXCEPT !.lines = Append(@, line)] : line \in Lines}
    [] c.of = "sentence" ->
         {[c EXCEPT !.sentence.marks = @ \cup {mark}] : mark \in Marks}
    [] OTHER -> {}
=============================================================================
