------------------------------- MODULE Resolve ------------------------------
(***************************************************************************)
(* What the assistant makes of one sentence: resolve.ts and embed.ts (an   *)
(* intent and its slots), the gate of answer.ts, and the planning modules  *)
(* plan/*.ts (what is missing, a call to make, or a write to propose), all *)
(* of agents/assistant/src.  All of it is pure.                            *)
(*                                                                         *)
(* A sentence is a record of what its patterns and word lists find:        *)
(*   marks      the pattern lists that match (Marks below)                 *)
(*   quantities its tonnages, in tenths: numeric, in words, or standalone, *)
(*              in the order they are looked for                           *)
(*   crops, places  the word-list entries it contains, [length, is]        *)
(*   creditId, lotId  by shape, or None                                    *)
(*   nearest    nearest[i]: how near it is to the examples of intent i     *)
(*   isLanguage whether its tokens per character are those of a language   *)
(* Scores are in percent.                                                  *)
(***************************************************************************)
EXTENDS Integers, Sequences

CONSTANTS
  None,       \* what a sentence does not say
  Known,      \* districts the producer has a centroid for
  CreditIds   \* ids of the shape newId gives a credit

Intents == {"how_it_works", "run_matching", "impact_summary", "retire_credit", "credit_status",
            "lot_status", "declare_waste", "unknown"}

ASSUME NoneAssumption == None \notin Intents

Marks == {"howItWorks", "matching", "impact", "retire", "status", "asks",
          "lotStatus", "ours", "declareVerb", "declareHint"}

(* The contract's bounds: positive, at most 10 000 t.                       *)
Plausible(n) == IF n \in 1..100000 THEN n ELSE None

(* The first reading decides, plausible or not.                             *)
ReadTonnes(quantities) == IF quantities = <<>> THEN None ELSE Plausible(Head(quantities))

(* readFeedstock and readDistrict: the longest form the text contains.      *)
ReadLongest(forms) ==
  IF forms = {} THEN None
  ELSE (CHOOSE f \in forms : \A g \in forms : f.length >= g.length).is

Read(s) ==
  [creditId |-> s.creditId, lotId |-> s.lotId, tonnes |-> ReadTonnes(s.quantities),
   feedstock |-> ReadLongest(s.crops), district |-> ReadLongest(s.places),
   holder |-> None, declaredBy |-> None]

Candidate(condition, intent, score) ==
  IF condition THEN <<[intent |-> intent, score |-> score]>> ELSE <<>>

(* candidates: the readings of the patterns, in the order they are pushed.  *)
Candidates(s, slots) ==
  LET has(mark)  == mark \in s.marks
      aboutLots  == has("lotStatus") \/ (slots.lotId # None /\ has("status"))
      declares   == has("declareVerb") \/ has("declareHint")
      namesWaste == slots.tonnes # None /\ slots.feedstock # None
  IN  Candidate(has("howItWorks"), "how_it_works", 90)
   \o Candidate(has("matching"), "run_matching", 85)
   \o Candidate(has("impact"), "impact_summary", 85)
   \o Candidate(has("retire"), "retire_credit", 90)
   \o Candidate(slots.creditId # None /\ (has("status") \/ has("asks")), "credit_status", 85)
   \o Candidate(aboutLots, "lot_status", 85)
   \o Candidate(~aboutLots /\ has("ours"), "lot_status", 70)
   \o Candidate(namesWaste, "declare_waste", IF declares THEN 95 ELSE 90)
   \o Candidate(~namesWaste /\ declares, "declare_waste", 60)

EMBED_FLOOR  == 50
EMBED_MARGIN == 8

(* The embedding's one reading, or none: off or broken (nearest is empty),  *)
(* no language, nearest to nonsense, too far, or a near-tie.                *)
EmbedCandidates(s) ==
  LET near   == s.nearest
      Top(i) == \A j \in DOMAIN near \ {i} : near[i] - near[j] >= EMBED_MARGIN
      best   == {i \in DOMAIN near : i # "unknown" /\ near[i] >= EMBED_FLOOR /\ Top(i)}
  IN  IF best = {} \/ ~s.isLanguage THEN <<>>
      ELSE LET i == CHOOSE i \in best : TRUE
           IN  <<[intent |-> i, score |-> near[i]]>>

AttemptedWrite(s) ==
  IF "retire" \in s.marks THEN "retire_credit"
  ELSE IF "declareVerb" \in s.marks THEN "declare_waste" ELSE None

(* A mistake: asking how a thing is done is asking for it.                 *)
OwnerIsTheWrite(s) == AttemptedWrite(s)

(* A write verb owns its sentence, and a question about it owns it first.   *)
SentenceOwner(s) == IF "howItWorks" \in s.marks THEN "how_it_works" ELSE AttemptedWrite(s)

NamesItsObject(intent, slots) ==
  /\ intent = "retire_credit" => slots.creditId # None
  /\ intent = "declare_waste" => slots.tonnes # None /\ slots.feedstock # None

(* pick: of the owner's readings that name their object, the first with the *)
(* best score.                                                              *)
Pick(all, slots, owner) ==
  LET eligible == {i \in DOMAIN all : owner \in {None, all[i].intent}
                                        /\ NamesItsObject(all[i].intent, slots)}
      best     == {i \in eligible : \A j \in eligible :
                     all[i].score > all[j].score
                       \/ (all[i].score = all[j].score /\ i <= j)}
  IN  IF best = {} THEN [intent |-> "unknown", slots |-> slots, confidence |-> 0]
      ELSE LET c == all[CHOOSE i \in best : TRUE]
           IN  [intent |-> c.intent, slots |-> slots, confidence |-> c.score]

(* makeResolver: the patterns' readings and the embedding's, by one rule.   *)
(* The deployed resolve is this with no embedding (nearest = <<>>).         *)
ResolveSentence(s) ==
  LET slots == Read(s)
  IN  Pick(Candidates(s, slots) \o EmbedCandidates(s), slots, SentenceOwner(s))

-----------------------------------------------------------------------------
MIN_CONFIDENCE == 50

(* makeAnswer: a weak reading is no reading, and who is asking comes with   *)
(* the request, never out of the sentence.                                  *)
Gated(resolved, identity) ==
  [intent |-> IF resolved.confidence >= MIN_CONFIDENCE THEN resolved.intent ELSE "unknown",
   slots  |-> [resolved.slots EXCEPT !.holder     = IF @ = None THEN identity ELSE @,
                                     !.declaredBy = IF @ = None THEN identity ELSE @]]

Need(what)           == [status |-> "need", what |-> what]
ReadPlan(skill, of)  == [status |-> "read", call |-> [skill |-> skill, of |-> of, by |-> None]]
WritePlan(skill, of, by) == [status |-> "write", call |-> [skill |-> skill, of |-> of, by |-> by]]

PlanLotStatus(slots) ==
  IF slots.district = None /\ slots.lotId = None THEN Need("district")
  ELSE ReadPlan("listLots", slots.district)

PlanImpactSummary(slots) ==
  IF slots.district = None THEN Need("district") ELSE ReadPlan("listLots", slots.district)

PlanRunMatching(slots) == WritePlan("runMatching", slots.district, None)

PlanCreditStatus(slots) ==
  IF slots.creditId \notin CreditIds THEN Need("creditId")
  ELSE ReadPlan("lookupCredit", slots.creditId)

PlanRetire(slots) ==
  IF slots.creditId \notin CreditIds THEN Need("creditId")
  ELSE IF slots.holder = None THEN Need("holder")
  ELSE WritePlan("retireCredit", slots.creditId, slots.holder)

(* The order is that of DECLARE_SLOTS; an unknown district is no missing one. *)
PlanDeclare(slots) ==
  IF slots.feedstock = None THEN Need("feedstock")
  ELSE IF slots.tonnes = None THEN Need("tonnes")
  ELSE IF slots.district = None THEN Need("place")
  ELSE IF slots.district \notin Known THEN Need("unknown_district")
  ELSE IF slots.declaredBy = None THEN Need("declaredBy")
  ELSE WritePlan("declareWaste", <<slots.feedstock, slots.tonnes, slots.district>>,
                 slots.declaredBy)

(* PLANNERS: an intent without a planner is not understood.                 *)
PlanFor(gated) ==
  CASE gated.intent = "lot_status"     -> PlanLotStatus(gated.slots)
    [] gated.intent = "impact_summary" -> PlanImpactSummary(gated.slots)
    [] gated.intent = "run_matching"   -> PlanRunMatching(gated.slots)
    [] gated.intent = "credit_status"  -> PlanCreditStatus(gated.slots)
    [] gated.intent = "retire_credit"  -> PlanRetire(gated.slots)
    [] gated.intent = "declare_waste"  -> PlanDeclare(gated.slots)
    [] OTHER                           -> Need("understanding")

-----------------------------------------------------------------------------
(* The assistant proposes a write only to a sentence that asks for that     *)
(* write and names all it acts on; a sentence with a write verb is never    *)
(* taken for something else; asking how a thing is done writes nothing; and *)
(* who the write is for comes with the request.                             *)
WriteIsAsked(s, identity) ==
  LET gated == Gated(ResolveSentence(s), identity)
      plan  == PlanFor(gated)
      Reads(word, intent) == word \in s.marks \/ intent \in DOMAIN s.nearest
  IN  /\ plan.status = "write" =>
           /\ "howItWorks" \notin s.marks
           /\ plan.call.skill = "retireCredit" =>
                s.creditId \in CreditIds /\ Reads("retire", "retire_credit")
           /\ plan.call.skill = "declareWaste" =>
                /\ s.quantities # <<>> /\ Plausible(Head(s.quantities)) # None
                /\ \E crop \in s.crops :
                     /\ plan.call.of[1] = crop.is
                     /\ \A other \in s.crops : other.length <= crop.length
                /\ plan.call.of[3] \in Known \cap {place.is : place \in s.places}
                /\ "retire" \notin s.marks
           /\ plan.call.skill # "runMatching" => plan.call.by = identity
      /\ AttemptedWrite(s) # None /\ "howItWorks" \notin s.marks =>
           gated.intent \in {AttemptedWrite(s), "unknown"}
=============================================================================
