------------------------------ MODULE BreakIt ------------------------------
(***************************************************************************)
(* The Break It screen (apps/web/src/views/BreakItView.tsx and             *)
(* breakit/attacks.ts): it reads the ledger, follows task ids into traces  *)
(* until it has one credited and one refused batch, then lets a visitor    *)
(* attack the API with them and says whether the guard held.               *)
(*                                                                         *)
(* The API under attack may be broken, which is what the screen is for:    *)
(* `guarded` says whether its guards hold.  Answers may be faults, or lost *)
(* after the API has done what it was asked.                               *)
(***************************************************************************)
EXTENDS Traces, Integers

CONSTANT MAX_TRACE_FETCHES

ASSUME FetchesAssumption == MAX_TRACE_FETCHES \in Nat /\ MAX_TRACE_FETCHES >= 2

VARIABLES
  guarded,   \* the API refuses the attacks, as it should
  breached,  \* the attacks it let through when last tried
  phase,     \* discover(): "ledger", "traces" or "done"; "stuck" is loading for ever
  queue,     \* task ids still to be fetched
  bundles,   \* the traces that came
  missed,    \* a request of discover() failed (history)
  records,   \* the chain on the screen
  targets,   \* what the screen found to attack
  results    \* results[a]: the set of at most one outcome shown

finding  == <<phase, queue, bundles, missed, records, targets>>
breakIt  == <<guarded, breached, finding, results>>

Attacks == {"double_credit", "forged_verdict", "same_photo", "tamper_ledger"}
NoTargets == [credited |-> {}, refused |-> {}]

-----------------------------------------------------------------------------
(* orderTaskIds: each task is credited if it issued, else refused if it     *)
(* verified; newest first within each, taken in turn.                       *)
Did(recs, id, action) ==
  \E i \in DOMAIN recs : recs[i].decision.taskId = id /\ recs[i].decision.action = action

TaskIds(recs) == {recs[i].decision.taskId : i \in DOMAIN recs}

FirstAt(recs, id) == Min({i \in DOMAIN recs : recs[i].decision.taskId = id})

(* The k-th of some tasks has k - 1 newer ones.                             *)
NewestFirst(recs, ids) ==
  [k \in 1..Cardinality(ids) |->
     CHOOSE id \in ids :
       Cardinality({newer \in ids : FirstAt(recs, newer) > FirstAt(recs, id)}) = k - 1]

Credited(recs) == NewestFirst(recs, {id \in TaskIds(recs) : Did(recs, id, "issueCredit")})
Refused(recs)  == NewestFirst(recs, {id \in TaskIds(recs) :
                    ~ Did(recs, id, "issueCredit") /\ Did(recs, id, "verifyEvidence")})

(* Mistakes: concatenated rather than interleaved.                          *)
OrderInARow(recs) == Refused(recs) \o Credited(recs)
CreditedFirst(recs) == Credited(recs) \o Refused(recs)

(* In turn as long as there are both, then the rest of the longer.          *)
OrderTaskIds(recs) ==
  LET refused  == Refused(recs)
      credited == Credited(recs)
      both     == Min({Len(refused), Len(credited)})
      longer   == IF Len(refused) > Len(credited) THEN refused ELSE credited
  IN  [k \in 1..(Len(refused) + Len(credited)) |->
         IF k > 2 * both THEN longer[k - both]
         ELSE IF k % 2 = 1 THEN refused[(k + 1) \div 2] ELSE credited[k \div 2]]

(* pickTargets: the first bundle of each kind, and both ids of an attack    *)
(* from that one bundle.                                                    *)
IsCredited(b) == \E c \in b.credit : c.evidenceId \in b.evidence
IsRefused(b) == b.credit = {} /\ \E v \in b.verification : v.verdict # "accepted"

FirstOf(bs, these) == {bs[i] : i \in {i \in these : \A j \in these : i <= j}}

PickTargets(bs) ==
  [credited |-> FirstOf(bs, {i \in DOMAIN bs : IsCredited(bs[i])}),
   refused  |-> FirstOf(bs, {i \in DOMAIN bs : IsRefused(bs[i])})]

HaveBothTargets(t) == t.credited # {} /\ t.refused # {}

-----------------------------------------------------------------------------
(* The screen is opened: discover() starts.                                 *)
BreakItFresh ==
  /\ phase = "ledger" /\ queue = <<>> /\ bundles = <<>> /\ missed = FALSE
  /\ records = <<>> /\ targets = NoTargets
  /\ results = [a \in Attacks |-> {}] /\ breached = {}

(* The loop of discover(): stop at the bound or with both targets.          *)
Continue(bs, q) ==
  /\ bundles' = bs
  /\ queue' = q
  /\ IF q = <<>> \/ HaveBothTargets(PickTargets(bs))
       THEN phase' = "done" /\ targets' = PickTargets(bs)
       ELSE phase' = "traces" /\ UNCHANGED targets

LedgerAnswers ==
  /\ phase = "ledger"
  /\ records' = ledger
  /\ LET ids == OrderTaskIds(ledger)
     IN  Continue(<<>>, SubSeq(ids, 1, Min({Len(ids), MAX_TRACE_FETCHES})))
  /\ UNCHANGED <<server, guarded, breached, missed, results>>

LedgerFails ==
  /\ phase = "ledger"
  /\ phase' = "done"
  /\ missed' = TRUE
  /\ UNCHANGED <<server, guarded, breached, queue, bundles, records, targets, results>>

TraceAnswers ==
  /\ phase = "traces"
  /\ \E b \in BuildTrace(Head(queue)) : Continue(Append(bundles, b), Tail(queue))
  /\ UNCHANGED <<server, guarded, breached, missed, records, results>>

TraceFails ==
  /\ phase = "traces"
  /\ missed' = TRUE
  /\ Continue(bundles, Tail(queue))
  /\ UNCHANGED <<server, guarded, breached, records, results>>

(* A 200 whose body is no JSON: discover() throws, and nobody catches it.   *)
Unreadable ==
  /\ phase \in {"ledger", "traces"}
  /\ phase' = "stuck"
  /\ UNCHANGED <<server, guarded, breached, queue, bundles, missed, records, targets, results>>

(* The attacks stay disabled while it loads, so all that is left is to open *)
(* the screen again.                                                        *)
OpenAgain ==
  /\ phase = "stuck"
  /\ phase' = "ledger" /\ queue' = <<>> /\ bundles' = <<>> /\ missed' = FALSE
  /\ records' = <<>> /\ targets' = NoTargets
  /\ UNCHANGED <<server, guarded, breached, results>>  \* nothing was tried yet

-----------------------------------------------------------------------------
(* A mistake: whatever comes back and is no fault is a refusal.             *)
JudgeStatusOnly(r, expected) == IF r.ok /\ r.status # 500 THEN "held" ELSE "unknown"

JudgeHttp(r, expected) ==
  CASE ~ r.ok                                     -> "unknown"
    [] r.ok /\ r.status \in 200..299              -> "broken"
    [] r.ok /\ r.status >= 500 /\ r.status # expected -> "unknown"
    [] OTHER                                      -> "held"

NoAnswer == [ok |-> FALSE]
Answer(status) == [ok |-> TRUE, status |-> status]

(* What may come of an attack: a guard refuses it or lets it through, and   *)
(* the answer may be a fault of the gateway, or never arrive.  What one let *)
(* through writes is left out: the screen has read all it will.             *)
Outcomes ==
  {[through |-> t, answer |-> r] :
     t \in {~ guarded}, r \in {NoAnswer, Answer(500), Answer(IF guarded THEN 400 ELSE 200)}}
  \cup {[through |-> FALSE, answer |-> r] : r \in {NoAnswer, Answer(500), Answer(404)}}

(* plan(): which batch each attack needs.                                   *)
Target(attack) ==
  CASE attack = "forged_verdict" /\ targets.refused # {} -> targets.refused
    [] OTHER -> targets.credited

Show(attack, state) ==
  results' = [results EXCEPT ![attack] =
    {[state |-> state, on |-> Target(attack)]}]

Attack(attack) ==
  /\ phase = "done"
  /\ attack # "tamper_ledger"
  /\ IF Target(attack) = {}
       THEN Show(attack, "unknown") /\ UNCHANGED breached
       ELSE \E o \in Outcomes :
              /\ Show(attack, JudgeHttp(o.answer, 400))
              /\ breached' = IF o.through THEN breached \cup {attack} ELSE breached \ {attack}
  /\ UNCHANGED <<server, guarded, finding>>

(* tamperAt, judgeTamper: a copy of the chain with one record edited.       *)
TamperAt(recs, seq) ==
  [i \in DOMAIN recs |->
     IF recs[i].seq = seq THEN [recs[i] EXCEPT !.decision.action = "edited"] ELSE recs[i]]

JudgeTamper(before, after, seq) ==
  CASE ~ ChainValid(before)                                    -> "unknown"
    [] ChainValid(before) /\ ChainValid(after)                 -> "broken"
    [] ~ ChainValid(after) /\ BrokenAtSeq(after) # seq         -> "unknown"
    [] OTHER                                                   -> "held"

AttackLedger ==
  /\ phase = "done"
  /\ Show("tamper_ledger",
       IF records = <<>> THEN "unknown"
       ELSE LET seq == records[Len(records) \div 2 + 1].seq
            IN  JudgeTamper(records, TamperAt(records, seq), seq))
  /\ UNCHANGED <<server, guarded, breached, finding>>

-----------------------------------------------------------------------------
BreakItNext ==
  \/ LedgerAnswers \/ LedgerFails \/ TraceAnswers \/ TraceFails
  \/ Unreadable \/ OpenAgain
  \/ \E a \in Attacks : Attack(a)
  \/ AttackLedger

-----------------------------------------------------------------------------
(* The newest task that verified and did not issue was a refusal.           *)
LatelyRefused(recs) ==
  /\ Refused(recs) # <<>>
  /\ \E v \in verifications : v.taskId = Refused(recs)[1] /\ v.verdict # "accepted"

(* The batch attacked as credited has a credit, the one attacked as refused *)
(* was refused and never credited; and neither kind starves the other: a    *)
(* credit on the ledger is found however many verifications are newer, and  *)
(* the newest verification, if it refused, however many credits are         *)
(* ("whichever is shorter must not be starved", attacks.ts).                *)
TargetsAreReal ==
  /\ \A b \in targets.credited : \E c \in credits : c.evidenceId \in b.evidence
  /\ \A b \in targets.refused :
       /\ \E v \in verifications : v.evidenceId \in b.evidence /\ v.verdict # "accepted"
       /\ \A c \in credits : c.evidenceId \notin b.evidence
  /\ phase = "done" /\ ~ missed /\ Credited(records) # <<>> => targets.credited # {}
  /\ phase = "done" /\ ~ missed /\ LatelyRefused(records) => targets.refused # {}

(* "It never paints an attempt green unless it was actually refused"        *)
(* (BreakItView.tsx): what is shown as broken got through, what is shown as *)
(* held did not, and an edit of the ledger is always shown as detected.     *)
PaintedTrue ==
  \A a \in Attacks : \A r \in results[a] :
    /\ a # "tamper_ledger" /\ r.state # "unknown" => (r.state = "broken") = (a \in breached)
    /\ a = "tamper_ledger" => r.state = (IF records = <<>> THEN "unknown" ELSE "held")
=============================================================================
