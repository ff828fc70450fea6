-------------------------------- MODULE Firms -------------------------------
(***************************************************************************)
(* From a FIRMS response to residue lots: the pure half of the producer    *)
(* agent (agents/producer/src/firms.ts).                                   *)
(*                                                                         *)
(* A line of the response is a record.  Coordinates are in millionths of a *)
(* degree, a field that is missing or no number reads as one out of range; *)
(* acqMonth is 0 when acq_date and acq_time give no instant.  frp is in    *)
(* tenths of a megawatt, 0 when there is none.  Tonnes are in tenths.      *)
(***************************************************************************)
EXTENDS Integers, Positions, SequencesExt, FiniteSetsExt

CONSTANTS
  Districts,   \* the centroid table: records [name, state, at]
  Km(_, _),    \* haversineKm of two points
  Slug(_),     \* a name in lower case without what is no letter or digit
  NoDistrict   \* the district of a point that is near none

ASSUME DistrictsAssumption == \A d \in Districts : d.state \in {"PB", "HR", "RJ", "CH"}

Deg(tenths) == tenths * 100000

(* The one excluded box, Sri Lanka.                                         *)
IsExcluded(at) ==
  /\ Deg(795) <= at.lon /\ at.lon <= Deg(820)
  /\ Deg(58) <= at.lat /\ at.lat <= Deg(100)

(* Only what is positively marked low is refused: a blank field is not.     *)
IsLowConfidence(c) == c.word \in {"l", "low"} \/ (c.word = "number" /\ c.n < 30)

(* toFixed(5) of a coordinate in millionths.                                *)
Fixed5(x) == IF x < 0 THEN -((5 - x) \div 10) ELSE (x + 5) \div 10

DetectionIdOf(line) ==
  <<Slug(line.satellite), Fixed5(line.lat), Fixed5(line.lon), line.acqDate, line.acqTime>>

DISTRICT_MAX_KM == 60

(* The nearest centroid, when it is near enough.                            *)
DistrictFor(at) ==
  LET near == {d \in Districts : Km(at, d.at) <= DISTRICT_MAX_KM}
  IN IF near = {} THEN NoDistrict
     ELSE (CHOOSE d \in near : \A e \in near : Km(at, d.at) <= Km(at, e.at)).name

ParseCsv(body) ==
  IF body.header THEN KeepAt(body.lines, {n \in DOMAIN body.lines : ~body.lines[n].short}) ELSE <<>>
LooksLikeCsv(body) == body.header

Usable(line) ==
  /\ line.lat \in Deg(-900)..Deg(900) /\ line.lon \in Deg(-1800)..Deg(1800)
  /\ line.acqMonth # 0

ToDetection(line) ==
  LET at == [lat |-> line.lat, lon |-> line.lon]
  IN [detectionId |-> DetectionIdOf(line), at |-> at, month |-> line.acqMonth,
      confidence |-> line.confidence, frp |-> line.frp, district |-> DistrictFor(at)]

-----------------------------------------------------------------------------
FeedstockForDate(month) ==
  CASE month \in {10, 11} -> "paddy_straw"
    [] month \in {4, 5}   -> "wheat_straw"
    [] OTHER              -> "mixed"

ResidueYield(feedstock) ==   \* tenths of a tonne per hectare
  CASE feedstock = "paddy_straw" -> 55 [] feedstock = "wheat_straw" -> 30 [] OTHER -> 40

StateOf(district) ==
  LET named == {d \in Districts : d.name = district}
  IN IF named = {} THEN "PB" ELSE (CHOOSE d \in named : TRUE).state

Holding(state) ==            \* hundredths of a hectare
  CASE state = "PB" -> 362 [] state = "HR" -> 222 [] state = "RJ" -> 273 [] state = "CH" -> 200

(* hundredths x tenths x 8 tenths, rounded to tenths of a tonne             *)
DefaultTonnesFor(district, feedstock) ==
  (Holding(StateOf(district)) * ResidueYield(feedstock) * 8 + 500) \div 1000

MIN_LOT_TONNES == 15
MAX_LOT_TONNES == 600

(* 0.368 kg/MJ over 1800 s is 0.6624 t for each megawatt.                   *)
EstimateTonnes(frp, district, feedstock) ==
  LET burnt  == (frp * 6624 + 5000) \div 10000
      tonnes == IF frp > 0 THEN burnt ELSE DefaultTonnesFor(district, feedstock)
  IN Min({MAX_LOT_TONNES, Max({MIN_LOT_TONNES, tonnes})})

LotIdOf(detectionId) == <<"lot", detectionId>>

ToLot(d) ==
  LET feedstock == FeedstockForDate(d.month)
  IN [lotId |-> LotIdOf(d.detectionId), producerId |-> <<"prod", d.district>>,
      at |-> d.at, district |-> d.district, feedstock |-> feedstock,
      tonnes |-> EstimateTonnes(d.frp, d.district, feedstock),
      sourceDetectionId |-> {d.detectionId}, status |-> "listed", origin |-> "detected"]

-----------------------------------------------------------------------------
(* A line that is worth a lot.                                              *)
Wanted(line) ==
  Usable(line) /\ ~IsExcluded([lat |-> line.lat, lon |-> line.lon]) /\ ~IsLowConfidence(line.confidence)

(* A mistake: a detection is told from the database's, not from those of    *)
(* the same response.                                                       *)
FreshTwice(lines, known) ==
  {n \in DOMAIN lines : Wanted(lines[n]) /\ DetectionIdOf(lines[n]) \notin known}

(* The lines the loop of planIngest makes detections of: wanted, and seen   *)
(* neither in the database nor earlier in the response.                     *)
Fresh(lines, known) ==
  {n \in DOMAIN lines :
     /\ Wanted(lines[n])
     /\ DetectionIdOf(lines[n]) \notin known
     /\ \A m \in 1..(n - 1) :
          Wanted(lines[m]) => DetectionIdOf(lines[m]) # DetectionIdOf(lines[n])}

DetectionIds(lines) == [n \in DOMAIN lines |-> DetectionIdOf(lines[n])]
FreshIds(lines, known) == KeepAt(DetectionIds(lines), Fresh(lines, known))

(* The detections in the order of the response, and the lines by what       *)
(* became of them; the code's checks come in this order.                    *)
PlanIngest(lines, known) ==
  LET fresh   == Fresh(lines, known)
      usable  == {n \in DOMAIN lines : Usable(lines[n])}
      outside == {n \in usable : IsExcluded([lat |-> lines[n].lat, lon |-> lines[n].lon])}
      low     == {n \in usable \ outside : IsLowConfidence(lines[n].confidence)}
  IN [detections           |-> KeepAt([n \in DOMAIN lines |-> ToDetection(lines[n])], fresh),
      parsed               |-> Cardinality(usable),
      skippedUnparseable   |-> Cardinality(DOMAIN lines \ usable),
      skippedOutsideArea   |-> Cardinality(outside),
      skippedLowConfidence |-> Cardinality(low),
      skippedDuplicate     |-> Cardinality(usable \ (outside \cup low \cup fresh))]
-----------------------------------------------------------------------------
(* planIngest, one line at a time as the code has it.                       *)
TakeLine(plan, line) ==
  LET at == [lat |-> line.lat, lon |-> line.lon]
      Count(field) == [plan EXCEPT !.counts[field] = @ + 1]
  IN  IF ~ Usable(line) THEN Count("skippedUnparseable")
      ELSE IF IsExcluded(at) THEN Count("skippedOutsideArea")
      ELSE IF IsLowConfidence(line.confidence) THEN Count("skippedLowConfidence")
      ELSE IF DetectionIdOf(line) \in plan.seen THEN Count("skippedDuplicate")
      ELSE [seen       |-> plan.seen \cup {DetectionIdOf(line)},
            detections |-> Append(plan.detections, ToDetection(line)),
            counts     |-> plan.counts]

Skips == {"skippedUnparseable", "skippedOutsideArea", "skippedLowConfidence", "skippedDuplicate"}

Loop(lines, known) ==
  FoldLeft(TakeLine,
           [seen |-> known, detections |-> <<>>, counts |-> [field \in Skips |-> 0]], lines)

(* The plan of an ingest is what the loop of planIngest makes; every line   *)
(* is counted once; running it again with what it found finds nothing ("the *)
(* dedupe guarantee", firms.ts); and every lot is of a plausible size.      *)
PlanFollowsTheLoop(lines, known) ==
  LET plan  == PlanIngest(lines, known)
      loop  == Loop(lines, known)
      found == {plan.detections[i].detectionId : i \in DOMAIN plan.detections}
  IN  /\ plan.detections = loop.detections
      /\ \A field \in Skips : plan[field] = loop.counts[field]
      /\ Len(lines) = Len(plan.detections) + plan.skippedUnparseable
           + plan.skippedOutsideArea + plan.skippedLowConfidence + plan.skippedDuplicate
      /\ Cardinality(found) = Len(plan.detections)
      /\ PlanIngest(lines, known \cup found).detections = <<>>
      /\ \A i \in DOMAIN plan.detections :
           ToLot(plan.detections[i]).tonnes \in MIN_LOT_TONNES..MAX_LOT_TONNES
=============================================================================
