----------------------------- MODULE Matchmaker -----------------------------
(***************************************************************************)
(* The matchmaker agent: concurrent calls of runMatching                   *)
(* (agents/matchmaker/src/skills/runMatching.ts).  A round takes the time, *)
(* waits for the matching lock, reads the listed lots and what was already *)
(* committed, decides, and writes the matches and the lots' new status, in *)
(* one transaction; then it appends its decision, in another.  Lots are    *)
(* listed by the producer agent meanwhile, and days pass.                  *)
(*                                                                         *)
(* A round whose process dies looks like one that makes no step for a      *)
(* while, until Postgres notices and rolls its transaction back: Fail.     *)
(***************************************************************************)
EXTENDS Matching

CONSTANTS
  Rounds,     \* calls of runMatching
  Lots,       \* lots that may be listed, see Matching
  Units,      \* conversion units, see Matching
  Radii,      \* radii a round may be asked to use
  District,   \* District[l]: the district of the lot with id l
  LastDay     \* bound on the days that pass

ASSUME LastDayAssumption == LastDay \in Nat

ASSUME UnitsAssumption ==
  /\ \A u \in Units : u.id \in Nat /\ u.capacity \in Nat
  /\ \A u, v \in Units : u.id = v.id => u = v

ASSUME LotsAssumption ==
  /\ \A l \in Lots : l.id \in Nat /\ l.tonnes \in Nat /\ \A u \in Units : l.km[u.id] \in Nat
  /\ \A l, m \in Lots : l.id = m.id => l = m

VARIABLES
  (* In the database                                                        *)
  listed,      \* lots with status "listed"
  matched,     \* lots with status "matched"
  matches,     \* the matches table, with the round and the day it decided on
  ledger,      \* rounds whose decision is in the ledger, in order
  lockHolder,  \* rounds holding the advisory lock MATCHING_LOCK_KEY
  (* In the rounds                                                          *)
  pc,          \* pc[c]: the next statement of round c, or how it ended
  input,       \* input[c]: maxRadiusKm and the districts round c is for
  decidedAt,   \* decidedAt[c]: the day c took as now
  offer,       \* offer[c]: the lots c read
  decided,     \* decided[c]: the matches c decided on
  (* The clock                                                              *)
  today

db   == <<listed, matched, matches, ledger, lockHolder>>
call == <<pc, input, decidedAt, offer, decided>>
vars == <<db, call, today>>

LotIds       == {l.id : l \in Lots}
AllDistricts == {District[i] : i \in LotIds}
Inputs       == [maxRadiusKm : Radii, districts : {AllDistricts} \cup {{d} : d \in AllDistricts}]

InTransaction == {"selectLots", "selectCommitted", "commit"}
Ends          == {"done", "failed"}

Init ==
  /\ listed = {}
  /\ matched = {}
  /\ matches = {}
  /\ ledger = <<>>
  /\ lockHolder = {}
  /\ pc = [c \in Rounds |-> "new"]
  /\ input \in [Rounds -> Inputs]
  /\ decidedAt = [c \in Rounds |-> 0]
  /\ offer = [c \in Rounds |-> {}]
  /\ decided = [c \in Rounds |-> {}]
  /\ today = 0

-----------------------------------------------------------------------------
Goto(c, step) == pc' = [pc EXCEPT ![c] = step]

(* The producer lists a lot, detected or declared.                          *)
ListLot(l) ==
  /\ l \notin listed \cup matched
  /\ listed' = listed \cup {l}
  /\ UNCHANGED <<matched, matches, ledger, lockHolder, call, today>>

Midnight ==
  /\ today < LastDay
  /\ today' = today + 1
  /\ UNCHANGED <<db, call>>

(* The units are read and `decidedAt` is taken before there is a lock.      *)
Start(c) ==
  /\ pc[c] = "new"
  /\ decidedAt' = [decidedAt EXCEPT ![c] = today]
  /\ Goto(c, "lock")
  /\ UNCHANGED <<db, input, offer, decided, today>>

(* A mistake: no lock.                                                      *)
AcquireNothing(c) ==
  /\ pc[c] = "lock"
  /\ lockHolder' = lockHolder \cup {c}
  /\ Goto(c, "selectLots")
  /\ UNCHANGED <<listed, matched, matches, ledger, input, decidedAt, offer, decided, today>>

AcquireLock(c) ==
  /\ pc[c] = "lock"
  /\ lockHolder = {}
  /\ lockHolder' = {c}
  /\ Goto(c, "selectLots")
  /\ UNCHANGED <<listed, matched, matches, ledger, input, decidedAt, offer, decided, today>>

SelectLots(c) ==
  /\ pc[c] = "selectLots"
  /\ offer' = [offer EXCEPT ![c] = {l \in listed : District[l.id] \in input[c].districts}]
  /\ Goto(c, "selectCommitted")
  /\ UNCHANGED <<db, input, decidedAt, decided, today>>

(* A mistake: what is committed is counted from the round's own day on,     *)
(* excluding that day itself.                                               *)
CommittedAfter(rows, day) ==
  [i \in {u.id : u \in Units} |->
     MapThenSumSet(LAMBDA m : m.assignedTonnes,
                   {m \in rows : m.unitId = i /\ m.decidedAt > day})]

(* Tonnes committed to each unit by matches decided since the day began.    *)
CommittedSince(rows, day) ==
  [i \in {u.id : u \in Units} |->
     MapThenSumSet(LAMBDA m : m.assignedTonnes,
                   {m \in rows : m.unitId = i /\ m.decidedAt >= day})]

(* What c decides when it offers these lots now.                            *)
Decide(c, lots) ==
  {[lotId |-> a.lotId, unitId |-> a.unitId, assignedTonnes |-> a.assignedTonnes,
    decidedAt |-> decidedAt[c], round |-> c] :
     a \in Assign(lots, Units, input[c].maxRadiusKm, CommittedSince(matches, decidedAt[c]))}

SelectCommitted(c) ==
  /\ pc[c] = "selectCommitted"
  /\ decided' = [decided EXCEPT ![c] = Decide(c, offer[c])]
  /\ Goto(c, "commit")
  /\ UNCHANGED <<db, input, decidedAt, offer, today>>

PlacedBy(c) == {l \in Lots : \E m \in decided[c] : m.lotId = l.id}

(* A mistake: the lots stay listed.                                         *)
CommitMatchesOnly(c) ==
  /\ pc[c] = "commit"
  /\ matches' = matches \cup decided[c]
  /\ lockHolder' = lockHolder \ {c}
  /\ Goto(c, "appendDecision")
  /\ UNCHANGED <<listed, matched, ledger, input, decidedAt, offer, decided, today>>

(* INSERT the matches, UPDATE their lots, COMMIT.                           *)
Commit(c) ==
  /\ pc[c] = "commit"
  /\ matches' = matches \cup decided[c]
  /\ listed' = listed \ PlacedBy(c)
  /\ matched' = matched \cup PlacedBy(c)
  /\ lockHolder' = lockHolder \ {c}
  /\ Goto(c, "appendDecision")
  /\ UNCHANGED <<ledger, input, decidedAt, offer, decided, today>>

AppendDecision(c) ==
  /\ pc[c] = "appendDecision"
  /\ ledger' = Append(ledger, c)
  /\ Goto(c, "done")
  /\ UNCHANGED <<listed, matched, matches, lockHolder, input, decidedAt, offer, decided, today>>

(* A mistake: the error of a failed transaction is swallowed.               *)
FailQuietly(c) ==
  /\ pc[c] \in InTransaction
  /\ lockHolder' = lockHolder \ {c}
  /\ Goto(c, "appendDecision")
  /\ UNCHANGED <<listed, matched, matches, ledger, input, decidedAt, offer, decided, today>>

(* A statement fails, or the process died and Postgres noticed.             *)
Fail(c) ==
  /\ pc[c] \in InTransaction \cup {"lock", "appendDecision"}
  /\ lockHolder' = lockHolder \ {c}
  /\ Goto(c, "failed")
  /\ UNCHANGED <<listed, matched, matches, ledger, input, decidedAt, offer, decided, today>>

-----------------------------------------------------------------------------
Next ==
  \/ \E l \in Lots : ListLot(l)
  \/ Midnight
  \/ \E c \in Rounds :
       \/ Start(c)
       \/ AcquireLock(c)
       \/ SelectLots(c)
       \/ SelectCommitted(c)
       \/ Commit(c)
       \/ AppendDecision(c)
       \/ Fail(c)

Spec == Init /\ [][Next]_vars

-----------------------------------------------------------------------------
MatchRows ==
  [lotId : LotIds, unitId : {u.id : u \in Units}, assignedTonnes : Nat,
   decidedAt : 0..LastDay, round : Rounds]

TypeOK ==
  /\ listed \subseteq Lots /\ matched \subseteq Lots
  /\ matches \subseteq MatchRows
  /\ ledger \in Seq(Rounds)
  /\ lockHolder \subseteq Rounds
  /\ pc \in [Rounds -> InTransaction \cup Ends \cup {"new", "lock", "appendDecision"}]
  /\ input \in [Rounds -> Inputs]
  /\ decidedAt \in [Rounds -> 0..LastDay]
  /\ offer \in [Rounds -> SUBSET Lots]
  /\ decided \in [Rounds -> SUBSET MatchRows]
  /\ today \in 0..LastDay

(* A lot is placed once, however many rounds run at once, and a placed lot  *)
(* is never on offer again: "the credit chain would fork at the very join   *)
(* the trace is assembled from" (runMatching.ts).                           *)
LotPlacedOnce ==
  /\ \A m, n \in matches : m.lotId = n.lotId => m = n
  /\ matched = {l \in Lots : \E m \in matches : m.lotId = l.id}
  /\ listed \cap matched = {}

(* "Capacity is per day": no unit is ever committed to more in one day than *)
(* it can take, even by rounds that wait for the lock across midnight.      *)
CapacityPerDay ==
  \A u \in Units, day \in 0..LastDay :
    TonnesAt(u, {m \in matches : m.decidedAt = day}) <= u.capacity

(* Rounds that race double nothing.                                         *)
PlacedOnceWithinCapacity == TypeOK /\ LotPlacedOnce /\ CapacityPerDay

(* A round is one atomic step: what it writes is what assign makes of the   *)
(* lots it read and of what is committed at the moment it writes.           *)
RoundsAreAtomic ==
  [][\A c \in Rounds : Commit(c) => matches' = matches \cup Decide(c, offer[c])]_vars

(* A decision in the ledger is of a round that is over, is there once, and  *)
(* its matches are all in the table.                                        *)
DecisionsAreTrue ==
  \A i \in DOMAIN ledger :
    /\ pc[ledger[i]] = "done"
    /\ \A j \in DOMAIN ledger : ledger[i] = ledger[j] => i = j
    /\ decided[ledger[i]] = {m \in matches : m.round = ledger[i]}
=============================================================================
