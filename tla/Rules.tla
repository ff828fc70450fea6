-------------------------------- MODULE Rules -------------------------------
(***************************************************************************)
(* The pure rules of the agents side by side, each over inputs TLC builds  *)
(* up step by step: a matching round (Matching), the plan of an ingest     *)
(* (Firms), the meaning of a sentence (Resolve), the worth of a batch      *)
(* (Carbon).  A case is a record whose "of" says which rule it is for.     *)
(***************************************************************************)
EXTENDS Matching, Firms, Resolve, Carbon

CONSTANTS
  Starts,       \* the cases to begin with
  Grown(_)      \* the cases a case grows into

VARIABLE case

FirstCase == case \in Starts
NextCase  == \E c \in Grown(case) : case' = c
Cases     == FirstCase /\ [][NextCase]_case

-----------------------------------------------------------------------------
(* assign puts every lot where its five rules say, wastes no room and takes *)
(* none that is not there.                                                  *)
AssignFollowsTheRule ==
  case.of = "round" =>
    LET round == Assign(case.lots, case.units, case.maxRadiusKm, case.committed)
    IN  /\ FollowsTheRule(case.lots, case.units, case.maxRadiusKm, case.committed, round)
        /\ NothingLeftOver(case.lots, case.units, case.maxRadiusKm, case.committed, round)

(* planIngest does as its loop says, loses no line, finds nothing twice and *)
(* lists no lot of an impossible size.                                      *)
PlanIsTheLoop == case.of = "feed" => PlanFollowsTheLoop(case.lines, case.known)

(* The assistant proposes the writes its user asked for, and no other.      *)
WritesAreAsked == case.of = "sentence" => WriteIsAsked(case.sentence, case.identity)

(* A credit is what its parts say, and no more than its lot could hold.     *)
CreditAddsUp ==
  case.of = "batch" => AddsUp(case.feedstock, case.biochar, case.km, case.quality)
=============================================================================
