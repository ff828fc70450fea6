------------------------------ MODULE Verifier ------------------------------
(***************************************************************************)
(* The verifier agent: verifyEvidence of                                   *)
(* agents/verifier/src/skills/verifyEvidence.ts over store.ts.  One        *)
(* process serves many calls at once; each await is a step, and between    *)
(* two steps of a call any other call may run.  The process may die and be *)
(* started again, which ends every call it was serving and empties the     *)
(* mutex, but not the database.  An INSERT it had sent may still land.     *)
(***************************************************************************)
EXTENDS Naturals, Sequences, FiniteSets, Functions

CONSTANTS
  Calls,      \* calls of the skill; a retry is another call
  Payloads,   \* evidence as submitted, see PayloadType
  Ids,        \* evidence ids
  Photos,     \* image hashes
  Matches,    \* match ids
  NoCall,     \* no tail in the mutex's map, no call ahead
  MaxFaults   \* bound on failed store operations and process deaths

PayloadType ==
  [id : Ids, photo : Photos, match : Matches,
   look : {"good_char", "poor_char", "not_char"},  \* the phone's top class
   sure : BOOLEAN,                                 \* at 0.6 or more
   batchOK : BOOLEAN]                              \* kiln readings and yield

ASSUME PayloadsAssumption  == Payloads \subseteq PayloadType
ASSUME NoCallAssumption    == NoCall \notin Calls
ASSUME MaxFaultsAssumption == MaxFaults \in Nat

VARIABLES
  (* In the database                                                        *)
  evidence,       \* the evidence table
  verifications,  \* verifications[i]: the stored verdict of id i, or "none"
  matches,        \* matches that exist
  ledger,         \* decision_log, in order
  lateClaims,     \* evidence rows whose INSERT a call sent and gave up on
  lateVerdicts,   \* likewise for rows of verifications
  (* In the verifier process                                                *)
  model,          \* what the canary shows of the loaded model
  pc,             \* pc[c]: where call c is, or how it ended
  input,          \* input[c]: the set of the payload of c, empty before
  verdict,        \* verdict[c]: what c worked out or read
  tails,          \* keyedMutex's map: the last call in line for each id
  ahead,          \* ahead[c]: the call whose release c waits for
  released,       \* calls that have released their place in line
  faults          \* faults so far

late    == <<lateClaims, lateVerdicts>>
db      == <<evidence, verifications, matches, ledger, late>>
mutex   == <<tails, ahead, released>>
vars    == <<db, model, pc, input, verdict, mutex, faults>>

Verdicts == {"accepted", "needs_review", "rejected"}

(* The model file is missing, is not the client's or drifts from it on the  *)
(* canary, or attests the client's scores.                                  *)
ModelStates == {"absent", "diverges", "attests"}

Holding == {"findByImageHash", "claimEvidence", "assess",
            "appendDecision", "saveVerification"}
Live    == Holding \cup {"waiting"}
Ends    == {"done", "refused", "failed", "dead"}

Init ==
  /\ evidence = {}
  /\ verifications = [i \in Ids |-> "none"]
  /\ matches = {}
  /\ ledger = <<>>
  /\ lateClaims = {}
  /\ lateVerdicts = {}
  /\ model \in ModelStates
  /\ pc = [c \in Calls |-> "new"]
  /\ input = [c \in Calls |-> {}]
  /\ verdict = [c \in Calls |-> "none"]
  /\ tails = [i \in Ids |-> NoCall]
  /\ ahead = [c \in Calls |-> NoCall]
  /\ released = {}
  /\ faults = 0
-----------------------------------------------------------------------------
Goto(c, step) == pc' = [pc EXCEPT ![c] = step]

PayloadOf(c) == CHOOSE p \in input[c] : TRUE
IdOf(c)      == PayloadOf(c).id

(* verifyEvidence: refuse a malformed payload, or get in line for its id.   *)
(* Whether a payload is malformed depends on the clock too (30 days), so    *)
(* any payload may be refused here.                                         *)
Malformed(c, p) ==
  /\ pc[c] = "new"
  /\ input' = [input EXCEPT ![c] = {p}]
  /\ Goto(c, "refused")
  /\ UNCHANGED <<db, model, verdict, mutex, faults>>

Enter(c, p) ==
  /\ pc[c] = "new"
  /\ input' = [input EXCEPT ![c] = {p}]
  /\ ahead' = [ahead EXCEPT ![c] = tails[p.id]]
  /\ tails' = [tails EXCEPT ![p.id] = c]
  /\ Goto(c, "waiting")
  /\ UNCHANGED <<db, model, verdict, released, faults>>

(* A mistake: nobody waits.                                                 *)
NoWaiting(c) == TRUE

MyTurn(c) == ahead[c] = NoCall \/ ahead[c] \in released

(* It is c's turn: whatever c awaits from here on may also throw.           *)
HasTurn(c) == pc[c] \in Holding \/ (pc[c] = "waiting" /\ MyTurn(c))

(* Mistakes in the finally of keyedMutex: no entry is ever deleted, and a   *)
(* failed call does not release.                                            *)
EndForgettingNone(c, how) ==
  /\ Goto(c, how)
  /\ released' = released \cup {c}
  /\ UNCHANGED <<tails, ahead>>

EndWithoutFinally(c, how) ==
  /\ Goto(c, how)
  /\ released' = IF how = "failed" THEN released ELSE released \cup {c}
  /\ tails' = IF tails[IdOf(c)] = c THEN [tails EXCEPT ![IdOf(c)] = NoCall] ELSE tails
  /\ UNCHANGED ahead

(* The call ends, and its place in line with it (the finally of keyedMutex).*)
End(c, how) ==
  /\ Goto(c, how)
  /\ released' = released \cup {c}
  /\ tails' = IF tails[IdOf(c)] = c THEN [tails EXCEPT ![IdOf(c)] = NoCall] ELSE tails
  /\ UNCHANGED ahead

Continue(c, step) == Goto(c, step) /\ UNCHANGED mutex

RowsOf(i) == {p \in evidence : p.id = i}

(* sameEvidence: the row stored under this id is what c was given.          *)
SameEvidence(c) == RowsOf(IdOf(c)) = input[c]

(* What was submitted before under this id: something else, a verified      *)
(* batch whose verdict is replayed, one that was claimed and never          *)
(* finished, or nothing.                                                    *)
FindPrior(c) ==
  /\ pc[c] = "waiting"
  /\ MyTurn(c)
  /\ \/ /\ RowsOf(IdOf(c)) = {}
        /\ Continue(c, "findByImageHash")
        /\ UNCHANGED verdict
     \/ /\ RowsOf(IdOf(c)) # {} /\ ~ SameEvidence(c)
        /\ End(c, "refused")
        /\ UNCHANGED verdict
     \/ /\ SameEvidence(c)
        /\ verifications[IdOf(c)] # "none"
        /\ verdict' = [verdict EXCEPT ![c] = verifications[IdOf(c)]]
        /\ End(c, "done")
     \/ /\ SameEvidence(c)
        /\ verifications[IdOf(c)] = "none"
        /\ Continue(c, "assess")
        /\ UNCHANGED verdict
  /\ UNCHANGED <<db, model, input, faults>>

PhotoUsed(photo) == \E p \in evidence : p.photo = photo

(* The readable check that the photo is new.                                *)
FindByImageHash(c) ==
  /\ pc[c] = "findByImageHash"
  /\ IF \E p \in evidence : p.photo = PayloadOf(c).photo /\ p.id # IdOf(c)
     THEN End(c, "refused")
     ELSE Continue(c, "claimEvidence")
  /\ UNCHANGED <<db, model, input, verdict, faults>>

(* A mistake: no unique index on the photo.                                 *)
AfterInsertById(p) ==
  IF RowsOf(p.id) = {} THEN evidence \cup {p} ELSE evidence

(* INSERT INTO evidence ON CONFLICT (evidence_id) DO NOTHING, under the     *)
(* unique index on image_hash: the rows of the table afterwards.            *)
AfterInsert(p) ==
  IF RowsOf(p.id) = {} /\ ~ PhotoUsed(p.photo) THEN evidence \cup {p} ELSE evidence

(* A mistake: the decision is recorded before there is a verdict.           *)
ClaimEvidence(c) ==
  /\ pc[c] = "claimEvidence"
  /\ evidence' = AfterInsert(PayloadOf(c))
  /\ IF evidence' = evidence THEN End(c, "refused") ELSE Continue(c, "assess")
  /\ UNCHANGED <<verifications, matches, ledger, late, model, input, verdict, faults>>

(* A mistake: a failed methodology check rejects nothing.                   *)
VerdictOnPhoto(p) ==
  IF p.look = "not_char" \/ p.match \notin matches THEN "rejected"
  ELSE IF model # "attests" \/ p.look = "poor_char" \/ ~ p.sure THEN "needs_review"
  ELSE "accepted"

(* The model attestation and the methodology checks.  A failed check or a   *)
(* photo of something else rejects; any doubt left sends it to a human.     *)
VerdictOn(p) ==
  IF p.look = "not_char" \/ ~ p.batchOK \/ p.match \notin matches THEN "rejected"
  ELSE IF model # "attests" \/ p.look = "poor_char" \/ ~ p.sure THEN "needs_review"
  ELSE "accepted"

(* A mistake: the verdict is stored and answered, and not recorded.         *)
AssessAndSave(c) ==
  /\ pc[c] = "assess"
  /\ verdict' = [verdict EXCEPT ![c] = VerdictOn(PayloadOf(c))]
  /\ Continue(c, "saveVerification")
  /\ UNCHANGED <<db, model, input, faults>>

Assess(c) ==
  /\ pc[c] = "assess"
  /\ verdict' = [verdict EXCEPT ![c] = VerdictOn(PayloadOf(c))]
  /\ Continue(c, "appendDecision")
  /\ UNCHANGED <<db, model, input, faults>>

Decision(i, v) == [id |-> i, verdict |-> v]

AppendDecision(c) ==
  /\ pc[c] = "appendDecision"
  /\ ledger' = Append(ledger, Decision(IdOf(c), verdict[c]))
  /\ Continue(c, "saveVerification")
  /\ UNCHANGED <<evidence, verifications, matches, late, model, input, verdict, faults>>

(* INSERT INTO verifications ON CONFLICT DO NOTHING: the rows afterwards.   *)
AfterSave(d) ==
  [verifications EXCEPT ![d.id] = IF @ = "none" THEN d.verdict ELSE @]

(* Store the verdict and answer it, even where another one is stored.       *)
SaveVerification(c) ==
  /\ pc[c] = "saveVerification"
  /\ verifications' = AfterSave(Decision(IdOf(c), verdict[c]))
  /\ End(c, "done")
  /\ UNCHANGED <<evidence, matches, ledger, late, model, input, verdict, faults>>

-----------------------------------------------------------------------------
(* The calls of C end with the INSERT they were waiting for sent and not    *)
(* answered: it may still be executed, however late.                        *)
GiveUp(C) ==
  /\ lateClaims' = lateClaims \cup
       UNION {input[c] : c \in {b \in C : pc[b] = "claimEvidence"}}
  /\ lateVerdicts' = lateVerdicts \cup
       {Decision(IdOf(c), verdict[c]) : c \in {b \in C : pc[b] = "saveVerification"}}
  /\ faults < MaxFaults
  /\ faults' = faults + 1

(* An await of the call throws: the exception leaves through the finally.   *)
Fail(c) ==
  /\ HasTurn(c)
  /\ GiveUp({c})
  /\ End(c, "failed")
  /\ UNCHANGED <<evidence, verifications, matches, ledger, model, input, verdict>>

(* The process dies and is started again, with whatever model file is there.*)
Crash ==
  /\ \E c \in Calls : pc[c] \in Live
  /\ GiveUp({c \in Calls : pc[c] \in Live})
  /\ pc' = [c \in Calls |-> IF pc[c] \in Live THEN "dead" ELSE pc[c]]
  /\ tails' = [i \in Ids |-> NoCall]
  /\ model' \in ModelStates
  /\ UNCHANGED <<evidence, verifications, matches, ledger, input, verdict, ahead, released>>

(* A late INSERT is executed after all, or never.                           *)
LandClaim(p) ==
  /\ p \in lateClaims
  /\ lateClaims' = lateClaims \ {p}
  /\ evidence' \in {evidence, AfterInsert(p)}
  /\ UNCHANGED <<verifications, matches, ledger, lateVerdicts, model, pc, input, verdict, mutex, faults>>

LandVerdict(d) ==
  /\ d \in lateVerdicts
  /\ lateVerdicts' = lateVerdicts \ {d}
  /\ verifications' \in {verifications, AfterSave(d)}
  /\ UNCHANGED <<evidence, matches, ledger, lateClaims, model, pc, input, verdict, mutex, faults>>

(* The matchmaker inserts a match.                                          *)
MatchAppears(m) ==
  /\ m \notin matches
  /\ matches' = matches \cup {m}
  /\ UNCHANGED <<evidence, verifications, ledger, late, model, pc, input, verdict, mutex, faults>>

-----------------------------------------------------------------------------
Step(c) ==
  \/ FindPrior(c)
  \/ FindByImageHash(c)
  \/ ClaimEvidence(c)
  \/ Assess(c)
  \/ AppendDecision(c)
  \/ SaveVerification(c)

Next ==
  \/ \E c \in Calls :
       \/ \E p \in Payloads : Malformed(c, p) \/ Enter(c, p)
       \/ Step(c)
       \/ Fail(c)
  \/ Crash
  \/ \E p \in Payloads : LandClaim(p)
  \/ \E d \in lateVerdicts : LandVerdict(d)
  \/ \E m \in Matches : MatchAppears(m)

Spec == Init /\ [][Next]_vars

(* The event loop runs every call whose await has settled: a call that can  *)
(* take its next step does, unless the process dies first.                  *)
FairSpec == Spec /\ \A c \in Calls : WF_vars(Step(c))

-----------------------------------------------------------------------------
TypeOK ==
  /\ evidence \subseteq Payloads
  /\ verifications \in [Ids -> Verdicts \cup {"none"}]
  /\ matches \subseteq Matches
  /\ ledger \in Seq([id : Ids, verdict : Verdicts])
  /\ lateClaims \subseteq Payloads
  /\ lateVerdicts \subseteq [id : Ids, verdict : Verdicts]
  /\ model \in ModelStates
  /\ pc \in [Calls -> Live \cup Ends \cup {"new"}]
  /\ input \in [Calls -> SUBSET Payloads]
  /\ verdict \in [Calls -> Verdicts \cup {"none"}]
  /\ tails \in [Ids -> Calls \cup {NoCall}]
  /\ ahead \in [Calls -> Calls \cup {NoCall}]
  /\ released \subseteq Calls
  /\ faults \in 0..MaxFaults

(* keyedMutex works: two calls never verify the same evidence at once, and  *)
(* its map forgets every id nobody is verifying, so that it does not grow   *)
(* with the evidence ever submitted.                                        *)
MutexKeepsTurns ==
  /\ TypeOK
  /\ \A b, c \in Calls : (b # c /\ HasTurn(b) /\ HasTurn(c)) => IdOf(b) # IdOf(c)
  /\ \A i \in Ids : tails[i] # NoCall => pc[tails[i]] \in Live /\ IdOf(tails[i]) = i

Times(i) == Cardinality({k \in DOMAIN ledger : ledger[k].id = i})

(* Submitting again adds nothing: racing submissions of one photo under two *)
(* ids leave one row, whatever lands late; and, while nothing fails, one    *)
(* decision, a retry never mistaking a verification in progress for one     *)
(* that crashed ("never append a second decision", verifyEvidence.ts).      *)
AgainAddsNothing ==
  /\ \A p, q \in evidence : (p.photo = q.photo \/ p.id = q.id) => p = q
  /\ faults = 0 => \A i \in Ids : Times(i) <= 1

(* Every stored verdict is backed by a decision in the ledger that gave it; *)
(* and "accepted", the only one that earns a credit, is about a photo the   *)
(* model is sure is char, from a batch that passed every check against a    *)
(* match that exists.                                                       *)
VerdictsAreSound ==
  /\ \A i \in Ids : verifications[i] # "none" =>
       \E k \in DOMAIN ledger : ledger[k] = Decision(i, verifications[i])
  /\ \A p \in evidence : verifications[p.id] = "accepted" =>
       p.look = "good_char" /\ p.sure /\ p.batchOK /\ p.match \in matches

(* Every call in line gets its turn and ends.                               *)
EveryCallEnds == \A c \in Calls : pc[c] = "waiting" ~> pc[c] \in Ends
=============================================================================
