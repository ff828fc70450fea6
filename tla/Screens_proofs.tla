--------------------------- MODULE Screens_proofs ---------------------------
(***************************************************************************)
(* Proofs about Screens: what the Audit screen, its credential panel and   *)
(* the Break It screen show is so, for any bound on the ledger, any number *)
(* of loads and lookups under way, and any MAX_TRACE_FETCHES from two up.  *)
(***************************************************************************)
EXTENDS Screens, FiniteSetTheorems, TLAPS

(* The facts about chains of Ledger_proofs, none of which is about the      *)
(* variables of Ledger.                                                     *)
Chains == INSTANCE Ledger_proofs WITH
  Writers <- {}, Decisions <- {}, log <- ledger, lockHolder <- {},
  pending <- {}, pc <- {}, arg <- {}, rec <- {}

ServerActions == {"verifyEvidence", "issueCredit", "retireCredit"}

(* A row as LinkDecision makes one, and the one that task i appends.        *)
IsRow(r) ==
  r = [seq |-> r.seq, decision |-> r.decision, prevHash |-> r.prevHash, hash |-> r.hash]

IsRowOf(r, i) ==
  /\ IsRow(r)
  /\ r.decision = [taskId |-> i, action |-> r.decision.action]
  /\ r.decision.action \in ServerActions

IsLedger(s) ==
  /\ s \in Seq(Range(s))
  /\ ChainValid(s)
  /\ \A i \in DOMAIN s : IsRowOf(s[i], i)

(* The rows agree with the decisions they were written with.                *)
RowsAgree ==
  /\ \A v \in verifications :
       /\ v.taskId \in DOMAIN ledger
       /\ v.evidenceId = v.taskId
       /\ ledger[v.taskId].decision.action = "verifyEvidence"
  /\ \A v, w \in verifications : v.taskId = w.taskId => v = w
  /\ \A c \in credits :
       /\ c.taskId \in DOMAIN ledger
       /\ ledger[c.taskId].decision.action = "issueCredit"
       /\ \E v \in verifications : v.evidenceId = c.evidenceId /\ v.verdict = "accepted"
  /\ \A c, d \in credits : c.taskId = d.taskId => c = d
  /\ \A i \in DOMAIN ledger : ledger[i].decision.action = "issueCredit" =>
       \E c \in credits : c.taskId = i

ServerInv == IsLedger(ledger) /\ RowsAgree

(* What a reader of the ledger can have seen.                               *)
WasLedger(s) == \E n \in 0..Len(ledger) : s = SubSeq(ledger, 1, n)

-----------------------------------------------------------------------------
(* Only the contents of records are edited on the screen.                   *)
IsEditOf(edited, original) ==
  /\ DOMAIN edited = DOMAIN original
  /\ \A i \in DOMAIN original :
       edited[i] = [seq |-> original[i].seq, decision |-> edited[i].decision,
                    prevHash |-> original[i].prevHash, hash |-> original[i].hash]

AuditInv ==
  /\ load = [l \in Loads |-> load[l]]
  /\ \A l \in Loads : load[l] \in {"free", "sent", "answered"}
  /\ answer = [l \in Loads |-> answer[l]]
  /\ \A l \in Loads : WasLedger(answer[l])
  /\ WasLedger(pristine)
  /\ IsEditOf(chain, pristine)
  /\ verdict = {} \/ verdict = {VerifyChain(chain)}
  /\ tamperMode \in BOOLEAN
  /\ loading \in BOOLEAN

-----------------------------------------------------------------------------
ShownIds == {c.taskId : c \in Credit}

PanelInv ==
  /\ overtaken \in BOOLEAN
  /\ lookup = [k \in Lookups |-> lookup[k]]
  /\ check = [k \in Kinds |-> [state |-> check[k].state, of |-> check[k].of]]
  /\ \A job \in jobs : job.kind \in Kinds
  /\ ~ overtaken =>
       /\ (\E k \in Lookups : lookup[k] # None) => jobs = {} /\ check = Idle
       /\ \A job \in jobs : job.of \in ShownIds
       /\ \A kind \in Kinds : check[kind].state = "idle" \/ check[kind].of \in ShownIds
  /\ check["list"].state = "revoked" => check["list"].of \in retired
  /\ \A b \in trace : b.credit \subseteq credits

-----------------------------------------------------------------------------
(* What BuildTrace returned, then or at any time before.                    *)
IsBundle(b) ==
  /\ b.credit \subseteq credits
  /\ b.verification \subseteq verifications
  /\ b.evidence = {v.evidenceId : v \in b.verification}
  /\ \A v, w \in b.verification : v = w

NewestCredited == Credited(records)[1]
NewestVerified == Refused(records)[1]

(* The newest credited task is still to be fetched, or a credited bundle    *)
(* was.                                                                     *)
CreditInSight ==
  \/ \E k \in DOMAIN queue : queue[k] = NewestCredited
  \/ \E k \in DOMAIN bundles : IsCredited(bundles[k])

(* So it is with the newest verification, if it refused.                    *)
RefusalInSight ==
  \/ \E k \in DOMAIN queue : queue[k] = NewestVerified
  \/ \E k \in DOMAIN bundles : IsRefused(bundles[k])

BreakInv ==
  /\ guarded \in BOOLEAN
  /\ WasLedger(records)
  /\ queue \in Seq(Range(queue))
  /\ bundles \in Seq(Range(bundles))
  /\ \A k \in DOMAIN bundles : IsBundle(bundles[k])
  /\ \A b \in targets.credited : IsBundle(b) /\ IsCredited(b)
  /\ \A b \in targets.refused : IsBundle(b) /\ IsRefused(b)
  /\ phase = "traces" /\ ~ missed /\ Credited(records) # <<>> => CreditInSight
  /\ phase = "traces" /\ ~ missed /\ LatelyRefused(records) => RefusalInSight
  /\ phase = "traces" => queue # <<>>
  /\ phase = "done" /\ ~ missed /\ Credited(records) # <<>> => targets.credited # {}
  /\ phase = "done" /\ ~ missed /\ LatelyRefused(records) => targets.refused # {}
  /\ results = [a \in Attacks |-> results[a]]
  /\ phase # "done" => \A a \in Attacks : results[a] = {}
  /\ phase \in {"ledger", "traces", "done", "stuck"}
  /\ PaintedTrue

IInv == ServerInv /\ AuditInv /\ PanelInv /\ BreakInv

-----------------------------------------------------------------------------
(* Chains.                                                                  *)
LEMMA LedgerShape ==
  ASSUME NEW s, IsLedger(s)
  PROVE  /\ Len(s) \in Nat
         /\ DOMAIN s = 1..Len(s)
         /\ \A i \in DOMAIN s : s[i].seq = i - 1
BY DEF IsLedger, ChainValid, RecordHolds

LEMMA LedgerIsTable ==
  ASSUME NEW s, IsLedger(s)
  PROVE  Chains!IsTable(s)
<1>1. \A i \in DOMAIN s : s[i].seq \in Nat
  BY LedgerShape
<1> QED BY <1>1 DEF IsLedger, Chains!IsTable, Chains!Range, Range

LEMMA SameValidity ==
  /\ \A s, i : Chains!RecordHolds(s, i) <=> RecordHolds(s, i)
  /\ \A s : Chains!ChainValid(s) <=> ChainValid(s)
  /\ \A s, d : Chains!LinkDecision(Chains!LastBySeq(s), d) = LinkDecision(LastBySeq(s), d)
<1>1. \A s, i : Chains!RecordHolds(s, i) <=> RecordHolds(s, i)
  BY DEF Chains!RecordHolds, RecordHolds, Chains!ExpectedPrevHash, ExpectedPrevHash,
         Chains!Sha256, Sha256, Chains!GENESIS_HASH, GENESIS_HASH, Chains!BodyOf, BodyOf
<1>2. \A s : Chains!ChainValid(s) <=> ChainValid(s)
  BY <1>1 DEF Chains!ChainValid, ChainValid
<1>3. \A s : Chains!LastBySeq(s) = LastBySeq(s)
  BY DEF Chains!LastBySeq, LastBySeq, Chains!Range, Range
<1>4. \A last, d : Chains!LinkDecision(last, d) = LinkDecision(last, d)
  BY DEF Chains!LinkDecision, LinkDecision, Chains!GENESIS_HASH, GENESIS_HASH,
         Chains!Sha256, Sha256
<1> QED BY <1>1, <1>2, <1>3, <1>4

LEMMA LinkedStaysValid ==
  ASSUME NEW s, IsLedger(s), NEW d
  PROVE  ChainValid(Append(s, LinkDecision(LastBySeq(s), d)))
<1>1. Chains!IsTable(s) /\ Chains!ChainValid(s)
  BY LedgerIsTable, SameValidity DEF IsLedger
<1>2. Chains!ChainValid(Append(s, Chains!LinkDecision(Chains!LastBySeq(s), d)))
  BY <1>1, Chains!LinkKeepsChainValid, MaxRowsAssumption
<1> QED BY <1>2, SameValidity

(* In an edit of a ledger just the rows with other contents fail.           *)
LEMMA EditedRowsFail ==
  ASSUME NEW s, IsLedger(s), NEW edited, IsEditOf(edited, s)
  PROVE  \A i \in DOMAIN s : RecordHolds(edited, i) <=> edited[i].decision = s[i].decision
<1>1. Chains!IsTable(s) /\ Chains!ChainValid(s)
  BY LedgerIsTable, SameValidity DEF IsLedger
<1>2. /\ DOMAIN edited = DOMAIN s
      /\ \A i \in DOMAIN s : /\ edited[i].seq = s[i].seq
                             /\ edited[i].prevHash = s[i].prevHash
                             /\ edited[i].hash = s[i].hash
  <2>1. ASSUME NEW i \in DOMAIN s
        PROVE  /\ edited[i].seq = s[i].seq
               /\ edited[i].prevHash = s[i].prevHash
               /\ edited[i].hash = s[i].hash
    <3>1. edited[i] = [seq |-> s[i].seq, decision |-> edited[i].decision,
                       prevHash |-> s[i].prevHash, hash |-> s[i].hash]
      BY DEF IsEditOf
    <3> QED BY <3>1
  <2> QED BY <2>1 DEF IsEditOf
<1>3. \A i \in DOMAIN s : Chains!RecordHolds(edited, i) <=> edited[i].decision = s[i].decision
  BY <1>1, <1>2, Chains!EditedRecordsFail, MaxRowsAssumption
<1> QED BY <1>3, SameValidity

LEMMA MinOf ==
  ASSUME NEW S \in SUBSET Nat, S # {}
  PROVE  Min(S) \in S /\ \A x \in S : Min(S) <= x
<1>1. \E x \in S : \A y \in S : x <= y
  BY Chains!LeastNat, MaxRowsAssumption
<1> QED BY <1>1 DEF Min

(* A prefix of a ledger is one.                                             *)
LEMMA PrefixShape ==
  ASSUME NEW s, s \in Seq(Range(s)), NEW n \in 0..Len(s)
  PROVE  /\ SubSeq(s, 1, n) \in Seq(Range(s))
         /\ Len(SubSeq(s, 1, n)) = n
         /\ DOMAIN SubSeq(s, 1, n) = 1..n
         /\ \A i \in 1..n : SubSeq(s, 1, n)[i] = s[i]
<1>1. Len(s) \in Nat /\ n \in Nat /\ n <= Len(s)
  OBVIOUS
<1> QED BY <1>1

LEMMA SeqOfItsRange ==
  ASSUME NEW S, NEW s \in Seq(S)
  PROVE  s \in Seq(Range(s)) /\ \A i \in DOMAIN s : s[i] \in S
<1>1. Len(s) \in Nat /\ DOMAIN s = 1..Len(s)
  OBVIOUS
<1>2. \A i \in 1..Len(s) : s[i] \in Range(s)
  BY <1>1 DEF Range
<1> QED BY <1>1, <1>2

LEMMA PrefixIsLedger ==
  ASSUME NEW s, IsLedger(s), NEW n \in 0..Len(s)
  PROVE  IsLedger(SubSeq(s, 1, n))
<1> DEFINE p == SubSeq(s, 1, n)
<1>1. s \in Seq(Range(s)) /\ Len(s) \in Nat /\ DOMAIN s = 1..Len(s)
  BY LedgerShape DEF IsLedger
<1>2. /\ p \in Seq(Range(s)) /\ DOMAIN p = 1..n
      /\ \A i \in 1..n : p[i] = s[i]
  BY <1>1, PrefixShape
<1>3. p \in Seq(Range(p))
  BY <1>2, SeqOfItsRange
<1>4. \A i \in 1..n : i \in DOMAIN s
  BY <1>1
<1> HIDE DEF p
<1>5. ASSUME NEW i \in 1..n PROVE RecordHolds(p, i)
  <2>1. RecordHolds(s, i)
    BY <1>4 DEF IsLedger, ChainValid
  <2>2. i # 1 => i - 1 \in 1..n
    BY <1>1
  <2>3. ExpectedPrevHash(p, i) = ExpectedPrevHash(s, i)
    BY <1>2, <2>2 DEF ExpectedPrevHash
  <2> QED BY <1>2, <2>1, <2>3 DEF RecordHolds
<1>6. ChainValid(p)
  BY <1>2, <1>5 DEF ChainValid
<1>7. \A i \in DOMAIN p : IsRowOf(p[i], i)
  BY <1>2, <1>4 DEF IsLedger
<1> QED BY <1>3, <1>6, <1>7 DEF IsLedger, p

LEMMA WasLedgerIsLedger ==
  ASSUME NEW s, IsLedger(ledger), WasLedger(s)
  PROVE  IsLedger(s)
BY PrefixIsLedger DEF WasLedger

-----------------------------------------------------------------------------
(* The server: what was written stays.                                      *)
LEMMA DecideAppends ==
  ASSUME IsLedger(ledger), NEW action \in ServerActions, Decide(action)
  PROVE  /\ IsLedger(ledger')
         /\ Len(ledger) \in Nat /\ DOMAIN ledger = 1..Len(ledger)
         /\ Len(ledger') = Len(ledger) + 1
         /\ DOMAIN ledger' = 1..(Len(ledger) + 1)
         /\ \A i \in DOMAIN ledger : ledger'[i] = ledger[i]
         /\ ledger'[NewTask].decision = [taskId |-> NewTask, action |-> action]
         /\ \A n \in 0..Len(ledger) : SubSeq(ledger', 1, n) = SubSeq(ledger, 1, n)
<1> DEFINE d == [taskId |-> NewTask, action |-> action]
           r == LinkDecision(LastBySeq(ledger), d)
           n == Len(ledger)
<1>1. ledger' = Append(ledger, r)
  BY DEF Decide
<1>2. n \in Nat /\ DOMAIN ledger = 1..n /\ ledger \in Seq(Range(ledger))
  BY LedgerShape DEF IsLedger
<1>3. IsRow(r) /\ r.decision = d
  BY DEF IsRow, LinkDecision
<1>4. ChainValid(ledger')
  BY <1>1, LinkedStaysValid
<1> HIDE DEF r
<1>5. /\ ledger' \in Seq(Range(ledger) \cup {r})
      /\ Len(ledger') = n + 1
      /\ DOMAIN ledger' = 1..(n + 1)
      /\ ledger'[n + 1] = r
      /\ \A i \in 1..n : ledger'[i] = ledger[i]
  <2>1. ledger \in Seq(Range(ledger) \cup {r})
    BY <1>2
  <2> QED BY <1>1, <1>2, <2>1
<1>6. ledger' \in Seq(Range(ledger'))
  BY <1>5, SeqOfItsRange
<1>7. NewTask = n + 1
  BY DEF NewTask
<1>8. ASSUME NEW i \in 1..(n + 1) PROVE IsRowOf(ledger'[i], i)
  <2>1. CASE i = n + 1
    <3>1. d.action = action
      OBVIOUS
    <3> QED BY <1>3, <1>5, <1>7, <2>1, <3>1 DEF IsRowOf
  <2>2. CASE i # n + 1
    <3>1. i \in 1..n
      BY <1>2, <2>2
    <3> QED BY <1>2, <1>5, <3>1 DEF IsLedger
  <2> QED BY <2>1, <2>2
<1>9. IsLedger(ledger')
  BY <1>4, <1>5, <1>6, <1>8 DEF IsLedger
<1>10. ASSUME NEW m \in 0..n PROVE SubSeq(ledger', 1, m) = SubSeq(ledger, 1, m)
  BY <1>2, <1>5
<1> QED BY <1>2, <1>3, <1>5, <1>7, <1>9, <1>10

Grows ==
  /\ verifications \subseteq verifications'
  /\ credits \subseteq credits'
  /\ retired \subseteq retired'
  /\ \A v \in verifications' : v \in verifications \/ v.taskId \notin DOMAIN ledger
  /\ \A n \in 0..Len(ledger) : n \in 0..Len(ledger') /\ SubSeq(ledger', 1, n) = SubSeq(ledger, 1, n)

LEMMA ServerSteps ==
  ASSUME ServerInv, ServerNext
  PROVE  ServerInv' /\ Grows
<1> USE DEF ServerInv
<1>0. /\ Len(ledger) \in Nat /\ DOMAIN ledger = 1..Len(ledger)
      /\ NewTask = Len(ledger) + 1 /\ NewTask \notin DOMAIN ledger
  BY LedgerShape DEF NewTask
<1>1. ASSUME NEW action \in ServerActions, Decide(action)
      PROVE  /\ IsLedger(ledger')
             /\ \A i \in DOMAIN ledger : i \in DOMAIN ledger' /\ ledger'[i] = ledger[i]
             /\ DOMAIN ledger' = DOMAIN ledger \cup {NewTask}
             /\ ledger'[NewTask].decision.action = action
             /\ \A n \in 0..Len(ledger) :
                  n \in 0..Len(ledger') /\ SubSeq(ledger', 1, n) = SubSeq(ledger, 1, n)
  <2>1. /\ IsLedger(ledger')
        /\ Len(ledger') = Len(ledger) + 1
        /\ DOMAIN ledger' = 1..(Len(ledger) + 1)
        /\ \A i \in DOMAIN ledger : ledger'[i] = ledger[i]
        /\ ledger'[NewTask].decision = [taskId |-> NewTask, action |-> action]
        /\ \A n \in 0..Len(ledger) : SubSeq(ledger', 1, n) = SubSeq(ledger, 1, n)
    BY <1>1, DecideAppends
  <2>2. DOMAIN ledger' = DOMAIN ledger \cup {NewTask}
    BY <1>0, <2>1
  <2>3. \A n \in 0..Len(ledger) : n \in 0..Len(ledger')
    BY <1>0, <2>1
  <2> QED BY <2>1, <2>2, <2>3
<1>2. ASSUME NEW verdict_ \in {"accepted", "needs_review"}, Verify(verdict_)
      PROVE  ServerInv' /\ Grows
  <2> DEFINE new == [taskId |-> NewTask, evidenceId |-> NewTask, verdict |-> verdict_]
  <2>1. Decide("verifyEvidence") /\ "verifyEvidence" \in ServerActions
    BY <1>2 DEF Verify, ServerActions
  <2>2. /\ verifications' = verifications \cup {new}
        /\ credits' = credits /\ retired' = retired
    BY <1>2 DEF Verify
  <2>3. new.taskId = NewTask /\ new.evidenceId = NewTask
    OBVIOUS
  <2> HIDE DEF new
  <2>4. /\ \A v \in verifications' :
             /\ v.taskId \in DOMAIN ledger'
             /\ v.evidenceId = v.taskId
             /\ ledger'[v.taskId].decision.action = "verifyEvidence"
        /\ \A v, w \in verifications' : v.taskId = w.taskId => v = w
        /\ \A c, d \in credits' : c.taskId = d.taskId => c = d
    BY <1>0, <1>1, <2>1, <2>2, <2>3 DEF RowsAgree
  <2>5. \A c \in credits' :
          /\ c.taskId \in DOMAIN ledger'
          /\ ledger'[c.taskId].decision.action = "issueCredit"
          /\ \E v \in verifications' : v.evidenceId = c.evidenceId /\ v.verdict = "accepted"
    BY <1>1, <2>1, <2>2 DEF RowsAgree
  <2>6. \A i \in DOMAIN ledger' : ledger'[i].decision.action = "issueCredit" =>
          \E c \in credits' : c.taskId = i
    BY <1>1, <2>1, <2>2 DEF RowsAgree
  <2>7. \A v \in verifications' : v \in verifications \/ v.taskId \notin DOMAIN ledger
    BY <1>0, <2>2, <2>3
  <2> QED BY <1>1, <2>1, <2>2, <2>4, <2>5, <2>6, <2>7 DEF RowsAgree, Grows
<1>3. ASSUME NEW v \in verifications, Issue(v)
      PROVE  ServerInv' /\ Grows
  <2> DEFINE new == [taskId |-> NewTask, evidenceId |-> v.evidenceId]
  <2>1. Decide("issueCredit") /\ "issueCredit" \in ServerActions
    BY <1>3 DEF Issue, ServerActions
  <2>2. /\ credits' = credits \cup {new}
        /\ verifications' = verifications /\ retired' = retired
        /\ v.verdict = "accepted"
    BY <1>3 DEF Issue
  <2>3. new.taskId = NewTask /\ new.evidenceId = v.evidenceId
    OBVIOUS
  <2> HIDE DEF new
  <2>4. /\ \A w \in verifications' :
             /\ w.taskId \in DOMAIN ledger'
             /\ w.evidenceId = w.taskId
             /\ ledger'[w.taskId].decision.action = "verifyEvidence"
        /\ \A u, w \in verifications' : u.taskId = w.taskId => u = w
        /\ \A c, d \in credits' : c.taskId = d.taskId => c = d
    BY <1>0, <1>1, <2>1, <2>2, <2>3 DEF RowsAgree
  <2>5. \A c \in credits' :
          /\ c.taskId \in DOMAIN ledger'
          /\ ledger'[c.taskId].decision.action = "issueCredit"
          /\ \E w \in verifications' : w.evidenceId = c.evidenceId /\ w.verdict = "accepted"
    BY <1>1, <2>1, <2>2, <2>3 DEF RowsAgree
  <2>6. \A i \in DOMAIN ledger' : ledger'[i].decision.action = "issueCredit" =>
          \E c \in credits' : c.taskId = i
    BY <1>1, <2>1, <2>2, <2>3 DEF RowsAgree
  <2> QED BY <1>1, <2>1, <2>2, <2>4, <2>5, <2>6 DEF RowsAgree, Grows
<1>4. ASSUME NEW c \in credits, Retire(c)
      PROVE  ServerInv' /\ Grows
  <2>1. Decide("retireCredit") /\ "retireCredit" \in ServerActions
    BY <1>4 DEF Retire, ServerActions
  <2>2. /\ credits' = credits /\ verifications' = verifications
        /\ retired' = retired \cup {c.taskId}
    BY <1>4 DEF Retire
  <2>3. RowsAgree'
    BY <1>1, <2>1, <2>2 DEF RowsAgree
  <2> QED BY <1>1, <2>1, <2>2, <2>3 DEF Grows
<1> QED BY <1>2, <1>3, <1>4 DEF ServerNext

LEMMA ServerStays ==
  ASSUME ServerInv, UNCHANGED server
  PROVE  ServerInv' /\ Grows
<1> USE DEF server
<1>1. /\ ledger' = ledger /\ verifications' = verifications
      /\ credits' = credits /\ retired' = retired
  OBVIOUS
<1>2. IsLedger(ledger') /\ RowsAgree'
  BY <1>1 DEF ServerInv, RowsAgree
<1> QED BY <1>1, <1>2 DEF ServerInv, Grows

LEMMA WasLedgerStays ==
  ASSUME Grows, NEW s, WasLedger(s)
  PROVE  \E n \in 0..Len(ledger') : s = SubSeq(ledger', 1, n)
BY DEF Grows, WasLedger

LEMMA LedgerWasLedger ==
  ASSUME IsLedger(ledger)
  PROVE  WasLedger(ledger) /\ WasLedger(<<>>)
<1>1. Len(ledger) \in Nat /\ ledger \in Seq(Range(ledger))
  BY LedgerShape DEF IsLedger
<1>2. ledger = SubSeq(ledger, 1, Len(ledger)) /\ <<>> = SubSeq(ledger, 1, 0)
  BY <1>1
<1>3. 0 \in 0..Len(ledger) /\ Len(ledger) \in 0..Len(ledger)
  BY <1>1
<1>4. WasLedger(ledger)
  BY <1>2, <1>3, Zenon DEF WasLedger
<1>5. WasLedger(<<>>)
  BY <1>2, <1>3, Zenon DEF WasLedger
<1> QED BY <1>4, <1>5

(* What a trace holds.                                                      *)
LEMMA TraceIsBundle ==
  ASSUME ServerInv, NEW id, NEW b \in BuildTrace(id)
  PROVE  IsBundle(b) /\ b.credit = {c \in credits : c.taskId = id}
<1> USE DEF ServerInv, RowsAgree
<1> DEFINE credit == {c \in credits : c.taskId = id}
           own    == {v \in verifications : v.taskId = id}
           its    == {v \in verifications : own = {} /\ \E c \in credit : c.evidenceId = v.evidenceId}
           found  == own \cup its
<1>1. /\ b.credit = credit /\ b.verification = found
      /\ b.evidence = {v.evidenceId : v \in found}
  BY DEF BuildTrace
<1>2. \A c, d \in credit : c.taskId = d.taskId
  OBVIOUS
<1>3. \A v, w \in own : v = w
  OBVIOUS
<1> QED BY <1>1, <1>2, <1>3 DEF IsBundle

LEMMA CreditedTrace ==
  ASSUME ServerInv, NEW id \in DOMAIN ledger, ledger[id].decision.action = "issueCredit",
         NEW b \in BuildTrace(id)
  PROVE  IsCredited(b)
<1> USE DEF ServerInv, RowsAgree
<1> DEFINE credit == {c \in credits : c.taskId = id}
           own    == {v \in verifications : v.taskId = id}
           its    == {v \in verifications : own = {} /\ \E c \in credit : c.evidenceId = v.evidenceId}
<1>1. /\ b.credit = credit
      /\ b.evidence = {v.evidenceId : v \in own \cup its}
  BY DEF BuildTrace
<1>2. own = {}
  OBVIOUS
<1>3. PICK c \in credit : TRUE
  OBVIOUS
<1>4. PICK v \in verifications : v.evidenceId = c.evidenceId
  BY <1>3
<1>5. v \in its
  BY <1>2, <1>3, <1>4
<1>6. c \in b.credit /\ c.evidenceId \in b.evidence
  BY <1>1, <1>3, <1>4, <1>5
<1> QED BY <1>6 DEF IsCredited

LEMMA RefusedTrace ==
  ASSUME ServerInv, NEW v \in verifications, v.verdict # "accepted",
         NEW b \in BuildTrace(v.taskId)
  PROVE  IsRefused(b)
<1> USE DEF ServerInv, RowsAgree
<1>1. b.credit = {c \in credits : c.taskId = v.taskId} /\ v \in b.verification
  BY DEF BuildTrace
<1>2. \A c \in credits : c.taskId # v.taskId
  <2>1. ledger[v.taskId].decision.action = "verifyEvidence"
    OBVIOUS
  <2>2. ASSUME NEW c \in credits PROVE c.taskId # v.taskId
    <3>1. ledger[c.taskId].decision.action = "issueCredit"
      OBVIOUS
    <3> QED BY <2>1, <3>1
  <2> QED BY <2>2
<1> QED BY <1>1, <1>2 DEF IsRefused

-----------------------------------------------------------------------------
(* The Audit screen.                                                        *)
LEMMA AuditStart == Init => AuditInv
<1> SUFFICES ASSUME Init PROVE AuditInv
  OBVIOUS
<1> USE DEF Init, ServerInit, AuditFresh
<1>1. Len(ledger) = 0 /\ SubSeq(ledger, 1, 0) = <<>>
  OBVIOUS
<1>2. WasLedger(<<>>)
  BY <1>1 DEF WasLedger
<1>3. \A l \in Loads : answer[l] = <<>> /\ load[l] \in {"free", "sent", "answered"}
  OBVIOUS
<1>4. load = [l \in Loads |-> load[l]] /\ answer = [l \in Loads |-> answer[l]]
  OBVIOUS
<1>5. IsEditOf(chain, pristine)
  BY DEF IsEditOf
<1>6. pristine = <<>> /\ verdict = {} /\ tamperMode \in BOOLEAN /\ loading \in BOOLEAN
  OBVIOUS
<1> HIDE DEF Init, ServerInit, AuditFresh
<1> QED BY <1>2, <1>3, <1>4, <1>5, <1>6 DEF AuditInv

LEMMA AuditKeeps ==
  ASSUME AuditInv, Grows, UNCHANGED audit
  PROVE  AuditInv'
<1>1. /\ load' = load /\ answer' = answer /\ chain' = chain /\ pristine' = pristine
      /\ verdict' = verdict /\ tamperMode' = tamperMode /\ loading' = loading
  BY DEF audit, screen
<1>2. WasLedger(pristine)'
  BY <1>1, WasLedgerStays DEF AuditInv, WasLedger
<1>3. \A l \in Loads : WasLedger(answer[l])'
  BY <1>1, WasLedgerStays DEF AuditInv, WasLedger
<1> QED BY <1>1, <1>2, <1>3 DEF AuditInv

(* A loaded ledger is on the screen unedited.                               *)
LEMMA Unedited ==
  ASSUME NEW s, IsLedger(s)
  PROVE  IsEditOf(s, s)
BY DEF IsLedger, IsEditOf, IsRowOf, IsRow

LEMMA TamperKeepsRow ==
  ASSUME NEW r, NEW a, r = [seq |-> r.seq, decision |-> r.decision,
                            prevHash |-> r.prevHash, hash |-> r.hash]
  PROVE  LET t == [r EXCEPT !.decision.action = a]
         IN  t = [seq |-> r.seq, decision |-> t.decision,
                  prevHash |-> r.prevHash, hash |-> r.hash]
OBVIOUS

LEMMA AuditSteps ==
  ASSUME ServerInv, AuditInv, AuditNext
  PROVE  AuditInv' /\ UNCHANGED server
<1> USE DEF AuditInv, screen
<1>0. \A s : ledger' = ledger => (WasLedger(s) <=> \E n \in 0..Len(ledger') : s = SubSeq(ledger', 1, n))
  BY DEF WasLedger
<1>1. ASSUME NEW l \in Loads, StartLoad(l)
      PROVE  AuditInv' /\ UNCHANGED server
  <2> USE <1>1 DEF StartLoad
  <2>1. ledger' = ledger
    BY DEF server
  <2> QED BY <2>1 DEF WasLedger
<1>2. ASSUME NEW l \in Loads, Serve(l)
      PROVE  AuditInv' /\ UNCHANGED server
  <2> USE <1>2 DEF Serve
  <2>1. ledger' = ledger /\ WasLedger(ledger)
    BY LedgerWasLedger DEF server, ServerInv
  <2>2. \A m \in Loads : WasLedger(answer'[m])
    BY <2>1
  <2> QED BY <2>1, <2>2 DEF WasLedger
<1>3. ASSUME NEW l \in Loads, Arrive(l)
      PROVE  AuditInv' /\ UNCHANGED server
  <2> USE <1>3 DEF Arrive
  <2>1. ledger' = ledger /\ WasLedger(<<>>)
    BY LedgerWasLedger DEF server, ServerInv
  <2>2. \A m \in Loads : WasLedger(answer'[m])
    BY <2>1
  <2>3. WasLedger(pristine') /\ IsEditOf(chain', pristine')
    BY WasLedgerIsLedger, Unedited DEF ServerInv
  <2>4. IsEditOf(chain, pristine)'
    BY <2>3 DEF IsEditOf
  <2> QED BY <2>1, <2>2, <2>3, <2>4 DEF WasLedger
<1>4. ASSUME NEW l \in Loads, LoadFails(l)
      PROVE  AuditInv' /\ UNCHANGED server
  <2> USE <1>4 DEF LoadFails
  <2>1. ledger' = ledger /\ WasLedger(<<>>)
    BY LedgerWasLedger DEF server, ServerInv
  <2>2. \A m \in Loads : WasLedger(answer'[m])
    BY <2>1
  <2> QED BY <2>1, <2>2 DEF WasLedger
<1>5. ASSUME PressTamperDemo
      PROVE  AuditInv' /\ UNCHANGED server
  <2> USE <1>5 DEF PressTamperDemo
  <2>1. ledger' = ledger
    BY DEF server
  <2> QED BY <2>1 DEF WasLedger
<1>6. ASSUME NEW seq \in 0..MaxRows, NEW action \in Actions, Tamper(seq, action)
      PROVE  AuditInv' /\ UNCHANGED server
  <2> USE <1>6 DEF Tamper
  <2>1. ledger' = ledger
    BY DEF server
  <2>2. ASSUME NEW i \in DOMAIN pristine
        PROVE  chain'[i] = [seq |-> pristine[i].seq, decision |-> chain'[i].decision,
                            prevHash |-> pristine[i].prevHash, hash |-> pristine[i].hash]
    <3>1. i \in DOMAIN chain
      BY DEF IsEditOf
    <3>2. chain[i] = [seq |-> pristine[i].seq, decision |-> chain[i].decision,
                      prevHash |-> pristine[i].prevHash, hash |-> pristine[i].hash]
      BY DEF IsEditOf
    <3>3. /\ chain[i].seq = pristine[i].seq /\ chain[i].prevHash = pristine[i].prevHash
          /\ chain[i].hash = pristine[i].hash
      BY <3>2
    <3>4. chain'[i] = IF chain[i].seq = seq THEN [chain[i] EXCEPT !.decision.action = action] ELSE chain[i]
      BY <3>1
    <3>5. CASE chain[i].seq = seq
      BY <3>2, <3>3, <3>4, <3>5, TamperKeepsRow
    <3>6. CASE chain[i].seq # seq
      BY <3>2, <3>4, <3>6
    <3> QED BY <3>5, <3>6
  <2>3. DOMAIN chain' = DOMAIN pristine
    BY DEF IsEditOf
  <2>4. IsEditOf(chain, pristine)'
    BY <2>2, <2>3 DEF IsEditOf
  <2> QED BY <2>1, <2>4 DEF WasLedger
<1>7. ASSUME PressVerify
      PROVE  AuditInv' /\ UNCHANGED server
  <2> USE <1>7 DEF PressVerify
  <2>1. ledger' = ledger /\ chain' = chain
    BY DEF server
  <2>2. VerifyChain(chain)' = VerifyChain(chain)
    BY <2>1
  <2> QED BY <2>1, <2>2 DEF WasLedger, IsEditOf
<1>8. ASSUME PressRestore
      PROVE  AuditInv' /\ UNCHANGED server
  <2> USE <1>8 DEF PressRestore
  <2>1. ledger' = ledger
    BY DEF server
  <2>2. IsEditOf(pristine, pristine)
    BY WasLedgerIsLedger, Unedited DEF ServerInv
  <2>3. IsEditOf(chain, pristine)'
    BY <2>2 DEF IsEditOf
  <2> QED BY <2>1, <2>3 DEF WasLedger
<1> QED BY <1>1, <1>2, <1>3, <1>4, <1>5, <1>6, <1>7, <1>8 DEF AuditNext, PressReload, Refresh

LEMMA AuditHolds ==
  ASSUME ServerInv, AuditInv
  PROVE  AuditIsTrue
<1> USE DEF AuditInv
<1>1. PICK n \in 0..Len(ledger) : pristine = SubSeq(ledger, 1, n)
  BY DEF WasLedger
<1>2. ledger \in Seq(Range(ledger)) /\ Len(ledger) \in Nat
  BY LedgerShape DEF ServerInv, IsLedger
<1>3. PristineIsLedgerPrefix
  <2>1. Len(pristine) = n
    BY <1>1, <1>2, PrefixShape
  <2> QED BY <1>1, <1>2, <2>1 DEF PristineIsLedgerPrefix
<1>4. IsLedger(pristine)
  BY WasLedgerIsLedger DEF ServerInv
<1>5. AuditTypeOK
  <2>1. Cardinality(verdict) <= 1
    <3>1. CASE verdict = {}
      BY <3>1, FS_EmptySet
    <3>2. CASE verdict = {VerifyChain(chain)}
      <4>1. Cardinality({VerifyChain(chain)}) = 1
        BY FS_Singleton
      <4> QED BY <3>2, <4>1
    <3> QED BY <3>1, <3>2
  <2>2. DOMAIN chain = DOMAIN pristine
    BY DEF IsEditOf
  <2> QED BY <2>1, <2>2 DEF AuditTypeOK
<1>6. VerdictIsOfThisChain
  BY DEF VerdictIsOfThisChain
<1>7. BreaksWhereEdited
  <2> SUFFICES ASSUME NEW v \in verdict
               PROVE  /\ v.valid = (Edited = {})
                      /\ ~ v.valid => v.brokenAtSeq = Min(Edited) - 1
    BY DEF BreaksWhereEdited
  <2>1. v = VerifyChain(chain)
    OBVIOUS
  <2>2. DOMAIN chain = DOMAIN pristine /\ DOMAIN pristine = 1..Len(pristine)
    BY <1>4, LedgerShape DEF IsEditOf
  <2>3. ASSUME NEW i \in DOMAIN pristine
        PROVE  /\ chain[i].seq = i - 1
               /\ RecordHolds(chain, i) <=> chain[i] = pristine[i]
    <3>1. chain[i] = [seq |-> pristine[i].seq, decision |-> chain[i].decision,
                      prevHash |-> pristine[i].prevHash, hash |-> pristine[i].hash]
      BY DEF IsEditOf
    <3>2. chain[i].seq = i - 1
      BY <1>4, <3>1, LedgerShape
    <3>3. pristine[i] = [seq |-> pristine[i].seq, decision |-> pristine[i].decision,
                         prevHash |-> pristine[i].prevHash, hash |-> pristine[i].hash]
      BY <1>4 DEF IsLedger, IsRowOf, IsRow
    <3>4. chain[i] = pristine[i] <=> chain[i].decision = pristine[i].decision
      BY <3>1, <3>3
    <3>5. RecordHolds(chain, i) <=> chain[i].decision = pristine[i].decision
      BY <1>4, EditedRowsFail
    <3> QED BY <3>2, <3>4, <3>5
  <2>4. Edited = {i \in DOMAIN chain : ~ RecordHolds(chain, i)}
    BY <2>2, <2>3 DEF Edited
  <2>5. ChainValid(chain) <=> Edited = {}
    BY <2>4 DEF ChainValid
  <2>6. CASE Edited = {}
    <3>1. v = [valid |-> TRUE]
      BY <2>1, <2>5, <2>6 DEF VerifyChain
    <3> QED BY <2>6, <3>1
  <2>7. CASE Edited # {}
    <3>1. v = [valid |-> FALSE, brokenAtSeq |-> BrokenAtSeq(chain)]
      BY <2>1, <2>5, <2>7 DEF VerifyChain
    <3>2. Edited \in SUBSET Nat
      BY <2>2 DEF Edited
    <3>3. Min(Edited) \in Edited
      BY <2>7, <3>2, MinOf
    <3>4. Min(Edited) \in DOMAIN pristine
      BY <2>2, <3>3 DEF Edited
    <3>5. BrokenAtSeq(chain) = Min(Edited) - 1
      BY <2>3, <2>4, <3>4 DEF BrokenAtSeq
    <3> QED BY <2>7, <3>1, <3>5
  <2> QED BY <2>6, <2>7
<1> QED BY <1>3, <1>5, <1>6, <1>7 DEF AuditIsTrue

-----------------------------------------------------------------------------
(* The credential panel.                                                    *)
LEMMA PanelStart == Init => PanelInv
<1> SUFFICES ASSUME Init PROVE PanelInv
  OBVIOUS
<1> USE DEF Init, PanelFresh
<1>1. check = [k \in Kinds |-> [state |-> check[k].state, of |-> check[k].of]]
  BY DEF Idle, Kinds
<1>2. \A k \in Kinds : check[k].state = "idle"
  BY DEF Idle, Kinds
<1>3. lookup = [k \in Lookups |-> lookup[k]] /\ \A k \in Lookups : lookup[k] = None
  OBVIOUS
<1>4. overtaken = FALSE /\ jobs = {} /\ trace = {}
  OBVIOUS
<1>5. "list" \in Kinds
  BY DEF Kinds
<1> QED BY <1>1, <1>2, <1>3, <1>4, <1>5 DEF PanelInv

LEMMA PanelKeeps ==
  ASSUME PanelInv, Grows, UNCHANGED panel
  PROVE  PanelInv'
<1>1. /\ lookup' = lookup /\ trace' = trace /\ check' = check /\ jobs' = jobs
      /\ overtaken' = overtaken
  BY DEF panel
<1>2. ShownIds' = ShownIds
  BY <1>1 DEF ShownIds, Credit
<1>3. credits \subseteq credits' /\ retired \subseteq retired'
  BY DEF Grows
<1> QED BY <1>1, <1>2, <1>3 DEF PanelInv, Idle

LEMMA FinishKeeps ==
  ASSUME PanelInv, NEW job \in jobs, NEW state, Finish(job, state),
         job.kind = "list" /\ state = "revoked" => job.of \in retired
  PROVE  PanelInv' /\ UNCHANGED server
<1> USE DEF Finish, PanelInv
<1>1. /\ lookup' = lookup /\ trace' = trace /\ overtaken' = overtaken /\ UNCHANGED server
      /\ credits' = credits /\ retired' = retired
      /\ jobs' = jobs \ {job} /\ job.kind \in Kinds
  BY DEF server
<1>2. ShownIds' = ShownIds
  BY <1>1 DEF ShownIds, Credit
<1>3. \A k \in Kinds : check'[k] = IF k = job.kind THEN [state |-> state, of |-> job.of] ELSE check[k]
  OBVIOUS
<1>4. check' = [k \in Kinds |-> [state |-> check'[k].state, of |-> check'[k].of]]
  BY <1>1, <1>3
<1>5. ~ overtaken => ~ \E k \in Lookups : lookup[k] # None
  OBVIOUS
<1>6. "list" \in Kinds
  BY DEF Kinds
<1>7. \A kind \in Kinds : ~ overtaken =>
        (check'[kind].state = "idle" \/ check'[kind].of \in ShownIds)
  BY <1>3
<1>8. check'["list"].state = "revoked" => check'["list"].of \in retired
  BY <1>3, <1>6
<1> QED BY <1>1, <1>2, <1>4, <1>5, <1>7, <1>8

LEMMA PanelSteps ==
  ASSUME ServerInv, PanelInv, PanelNext
  PROVE  PanelInv' /\ UNCHANGED server
<1> USE DEF PanelInv
<1>1. ASSUME NEW k \in Lookups, NEW id \in 1..MaxRows, Lookup(k, id)
      PROVE  PanelInv' /\ UNCHANGED server
  <2> USE <1>1 DEF Lookup
  <2>1. /\ trace' = trace /\ jobs' = jobs /\ UNCHANGED server
        /\ credits' = credits /\ retired' = retired /\ overtaken' = (jobs # {})
    BY DEF server
  <2>2. lookup' = [j \in Lookups |-> lookup'[j]] /\ check' = Idle /\ Idle' = Idle
    BY DEF Idle
  <2>3. \A kind \in Kinds : Idle[kind].state = "idle"
    BY DEF Idle
  <2>4. Idle = [kind \in Kinds |-> [state |-> Idle[kind].state, of |-> Idle[kind].of]]
    BY DEF Idle
  <2>5. "list" \in Kinds
    BY DEF Kinds
  <2> QED BY <2>1, <2>2, <2>3, <2>4, <2>5
<1>2. ASSUME NEW k \in Lookups, LookupAnswers(k) \/ LookupFails(k)
      PROVE  PanelInv' /\ UNCHANGED server
  <2> USE <1>2
  <2>1. /\ check' = check /\ jobs' = jobs /\ overtaken' = overtaken /\ UNCHANGED server
        /\ credits' = credits /\ retired' = retired
        /\ lookup[k] # None /\ lookup' = [lookup EXCEPT ![k] = None]
        /\ trace' = BuildTrace(lookup[k]) \/ trace' = {}
    BY DEF server, LookupAnswers, LookupFails
  <2>2. \A b \in trace' : b.credit \subseteq credits
    BY <2>1, TraceIsBundle DEF IsBundle
  <2>3. ~ overtaken => jobs = {} /\ check = Idle
    BY <2>1
  <2>4. \A kind \in Kinds : Idle[kind].state = "idle"
    BY DEF Idle
  <2>5. lookup' = [j \in Lookups |-> lookup'[j]]
    BY <2>1
  <2> QED BY <2>1, <2>2, <2>3, <2>4, <2>5 DEF Idle
<1>3. ASSUME NEW kind \in Kinds, Press(kind)
      PROVE  PanelInv' /\ UNCHANGED server
  <2> USE <1>3 DEF Press
  <2>1. /\ lookup' = lookup /\ trace' = trace /\ UNCHANGED server
        /\ credits' = credits /\ retired' = retired
        /\ overtaken' = (overtaken \/ \E k \in Lookups : lookup[k] # None)
    BY DEF server
  <2>2. PICK c \in Credit :
          /\ jobs' = jobs \cup {[kind |-> kind, of |-> c.taskId]}
          /\ check' = [check EXCEPT ![kind] = [state |-> "checking", of |-> c.taskId]]
    OBVIOUS
  <2>3. ShownIds' = ShownIds /\ c.taskId \in ShownIds
    BY <2>1 DEF ShownIds, Credit
  <2>4. \A k \in Kinds : check'[k] = IF k = kind THEN [state |-> "checking", of |-> c.taskId] ELSE check[k]
    BY <2>2
  <2>5. check' = [k \in Kinds |-> [state |-> check'[k].state, of |-> check'[k].of]]
    BY <2>2, <2>4
  <2>6. \A job \in jobs' : job.kind \in Kinds /\ (job \in jobs \/ job.of \in ShownIds)
    BY <2>2, <2>3
  <2>7. "list" \in Kinds
    BY DEF Kinds
  <2>8. check'["list"].state = "revoked" => check'["list"].of \in retired
    BY <2>4, <2>7
  <2>9. \A k \in Kinds : ~ overtaken => (check'[k].state = "idle" \/ check'[k].of \in ShownIds)
    BY <2>3, <2>4
  <2> QED BY <2>1, <2>3, <2>5, <2>6, <2>8, <2>9
<1>4. ASSUME NEW job \in jobs, SignatureVerifies(job) \/ ListIsRead(job) \/ CheckFails(job)
      PROVE  PanelInv' /\ UNCHANGED server
  <2> HIDE DEF PanelInv
  <2>1. CASE SignatureVerifies(job)
    BY <2>1, FinishKeeps DEF SignatureVerifies
  <2>2. CASE ListIsRead(job)
    BY <2>2, FinishKeeps DEF ListIsRead, BitAt
  <2>3. CASE CheckFails(job)
    BY <2>3, FinishKeeps DEF CheckFails
  <2> QED BY <1>4, <2>1, <2>2, <2>3
<1> QED BY <1>1, <1>2, <1>3, <1>4 DEF PanelNext

LEMMA PanelHolds ==
  ASSUME PanelInv
  PROVE  ChecksAreOfThisCredential
BY DEF PanelInv, ChecksAreOfThisCredential, ShownIds

-----------------------------------------------------------------------------
(* The Break It screen.  Task i of a ledger is the one of row i.            *)
LEMMA TasksAreRows ==
  ASSUME NEW s, IsLedger(s)
  PROVE  /\ TaskIds(s) = DOMAIN s
         /\ \A i \in DOMAIN s : FirstAt(s, i) = i
         /\ \A action : \A i \in DOMAIN s : Did(s, i, action) <=> s[i].decision.action = action
<1>1. DOMAIN s = 1..Len(s)
  BY LedgerShape
<1>2. \A i \in DOMAIN s : s[i].decision.taskId = i
  <2>1. ASSUME NEW i \in DOMAIN s PROVE s[i].decision.taskId = i
    <3>1. s[i].decision = [taskId |-> i, action |-> s[i].decision.action]
      BY DEF IsLedger, IsRowOf
    <3> QED BY <3>1
  <2> QED BY <2>1
<1>3. TaskIds(s) = DOMAIN s
  BY <1>2 DEF TaskIds
<1>4. ASSUME NEW i \in DOMAIN s PROVE FirstAt(s, i) = i
  <2>1. {j \in DOMAIN s : s[j].decision.taskId = i} = {i}
    BY <1>2
  <2>2. {i} \in SUBSET Nat
    BY <1>1
  <2>3. Min({i}) \in {i}
    BY <2>2, MinOf
  <2> QED BY <2>1, <2>3 DEF FirstAt
<1> QED BY <1>2, <1>3, <1>4 DEF Did

LEMMA NewestShape ==
  ASSUME NEW s, IsLedger(s), NEW ids \in SUBSET TaskIds(s)
  PROVE  /\ Cardinality(ids) \in Nat
         /\ Cardinality(ids) = 0 <=> ids = {}
         /\ Len(NewestFirst(s, ids)) = Cardinality(ids)
         /\ NewestFirst(s, ids) \in Seq(Range(NewestFirst(s, ids)))
<1> DEFINE f == NewestFirst(s, ids)
           n == Cardinality(ids)
<1>1. IsFiniteSet(ids)
  <2>1. ids \subseteq 1..Len(s) /\ Len(s) \in Int
    BY TasksAreRows, LedgerShape
  <2>2. IsFiniteSet(1..Len(s))
    BY <2>1, FS_Interval
  <2> QED BY <2>1, <2>2, FS_Subset
<1>2. n \in Nat /\ (n = 0 <=> ids = {})
  BY <1>1, FS_CardinalityType, FS_EmptySet
<1> DEFINE kth(k) ==
      CHOOSE id \in ids :
        Cardinality({newer \in ids : FirstAt(s, newer) > FirstAt(s, id)}) = k - 1
<1>3. f = [k \in 1..n |-> kth(k)]
  BY DEF NewestFirst
<1> HIDE DEF f, n, kth
<1>4. f \in [1..n -> Range(f)]
  BY <1>3 DEF Range
<1>5. f \in Seq(Range(f)) /\ Len(f) = n
  BY <1>2, <1>4
<1> QED BY <1>2, <1>5 DEF f, n

(* The first is the newest there is.                                        *)
LEMMA NewestIsOne ==
  ASSUME NEW s, IsLedger(s), NEW ids \in SUBSET TaskIds(s), ids # {}
  PROVE  NewestFirst(s, ids)[1] \in ids
<1> DEFINE Newer(id) == {newer \in ids : FirstAt(s, newer) > FirstAt(s, id)}
           n == Len(s)
<1>1. n \in Nat /\ ids \subseteq 1..n /\ \A i \in ids : FirstAt(s, i) = i
  BY TasksAreRows, LedgerShape
<1>2. Cardinality(ids) \in Nat /\ Cardinality(ids) # 0
  BY NewestShape
<1> HIDE DEF n
<1>3. PICK m \in {n - i : i \in ids} : \A k \in {n - i : i \in ids} : m <= k
  <2>1. {n - i : i \in ids} \in SUBSET Nat /\ {n - i : i \in ids} # {}
    <3>1. ASSUME NEW i \in ids PROVE n - i \in Nat
      BY <1>1
    <3>2. ids # {}
      OBVIOUS
    <3> QED BY <3>1, <3>2
  <2> QED BY <2>1, MinOf
<1>4. PICK newest \in ids : m = n - newest
  BY <1>3
<1>5. \A i \in ids : n - newest <= n - i
  BY <1>3, <1>4
<1>6. \A i \in ids : ~ (i > newest)
  <2>1. ASSUME NEW i \in ids PROVE ~ (i > newest)
    <3>1. i \in Int /\ newest \in Int /\ n \in Int /\ n - newest <= n - i
      BY <1>1, <1>5
    <3> QED BY <3>1
  <2> QED BY <2>1
<1>7. Newer(newest) = {}
  BY <1>1, <1>6
<1>8. Cardinality(Newer(newest)) = 1 - 1
  BY <1>7, FS_EmptySet
<1>9. (CHOOSE id \in ids : Cardinality(Newer(id)) = 1 - 1) \in ids
  BY <1>8
<1>10. NewestFirst(s, ids)[1] = CHOOSE id \in ids : Cardinality(Newer(id)) = 1 - 1
  <2>1. 1 \in 1..Cardinality(ids)
    BY <1>2
  <2> QED BY <2>1 DEF NewestFirst
<1> QED BY <1>9, <1>10

CreditedIds(s) == {id \in TaskIds(s) : Did(s, id, "issueCredit")}

LEMMA NewestCreditedTask ==
  ASSUME NEW s, IsLedger(s), Credited(s) # <<>>
  PROVE  /\ Credited(s)[1] \in DOMAIN s
         /\ s[Credited(s)[1]].decision.action = "issueCredit"
<1>1. CreditedIds(s) \in SUBSET TaskIds(s) /\ Credited(s) = NewestFirst(s, CreditedIds(s))
  BY DEF CreditedIds, Credited
<1>2. CreditedIds(s) # {}
  <2>1. Len(Credited(s)) # 0
    BY <1>1, NewestShape
  <2> QED BY <1>1, <2>1, NewestShape
<1>3. Credited(s)[1] \in CreditedIds(s)
  BY <1>1, <1>2, NewestIsOne
<1> QED BY <1>3, TasksAreRows DEF CreditedIds

VerifiedIds(s) ==
  {id \in TaskIds(s) : ~ Did(s, id, "issueCredit") /\ Did(s, id, "verifyEvidence")}

LEMMA NewestVerifiedTask ==
  ASSUME NEW s, IsLedger(s), Refused(s) # <<>>
  PROVE  Refused(s)[1] \in DOMAIN s
<1>1. VerifiedIds(s) \in SUBSET TaskIds(s) /\ Refused(s) = NewestFirst(s, VerifiedIds(s))
  BY DEF VerifiedIds, Refused
<1>2. VerifiedIds(s) # {}
  <2>1. Len(Refused(s)) # 0
    BY <1>1, NewestShape
  <2> QED BY <1>1, <2>1, NewestShape
<1>3. Refused(s)[1] \in VerifiedIds(s)
  BY <1>1, <1>2, NewestIsOne
<1> QED BY <1>3, TasksAreRows DEF VerifiedIds

(* The newest task of each kind is among the first two to be fetched,       *)
(* however many of the other are newer.                                     *)
LEMMA BothAreSoon ==
  ASSUME NEW s, IsLedger(s)
  PROVE  /\ OrderTaskIds(s) \in Seq(Range(OrderTaskIds(s)))
         /\ Credited(s) # <<>> =>
              \E k \in {1, 2} \cap DOMAIN OrderTaskIds(s) : OrderTaskIds(s)[k] = Credited(s)[1]
         /\ Refused(s) # <<>> =>
              \E k \in {1, 2} \cap DOMAIN OrderTaskIds(s) : OrderTaskIds(s)[k] = Refused(s)[1]
<1> DEFINE refused  == Refused(s)
           credited == Credited(s)
           r        == Len(refused)
           c        == Len(credited)
           both     == Min({r, c})
           longer   == IF r > c THEN refused ELSE credited
           f        == [k \in 1..(r + c) |->
                          IF k > 2 * both THEN longer[k - both]
                          ELSE IF k % 2 = 1 THEN refused[(k + 1) \div 2] ELSE credited[k \div 2]]
<1>1. OrderTaskIds(s) = f
  BY DEF OrderTaskIds
<1>2. r \in Nat /\ c \in Nat /\ (c = 0 => credited = <<>>) /\ (r = 0 => refused = <<>>)
  <2>1. /\ CreditedIds(s) \in SUBSET TaskIds(s)
        /\ Credited(s) = NewestFirst(s, CreditedIds(s))
    BY DEF CreditedIds, Credited
  <2>2. c \in Nat /\ (c = 0 => credited = <<>>)
    BY <2>1, NewestShape
  <2>3. r \in Nat /\ (r = 0 => refused = <<>>)
    <3>1. /\ VerifiedIds(s) \in SUBSET TaskIds(s)
          /\ Refused(s) = NewestFirst(s, VerifiedIds(s))
      BY DEF VerifiedIds, Refused
    <3> QED BY <3>1, NewestShape
  <2> QED BY <2>2, <2>3
<1> HIDE DEF r, c, refused, credited
<1>3. both \in {r, c} /\ both <= r /\ both <= c
  BY <1>2, MinOf
<1> HIDE DEF both, longer
<1>4. f \in [1..(r + c) -> Range(f)]
  BY DEF Range
<1>5. DOMAIN f = 1..(r + c)
  OBVIOUS
<1>6. f \in Seq(Range(f))
  <2> HIDE DEF f
  <2> QED BY <1>2, <1>4
<1>7. ASSUME credited # <<>>
      PROVE  \E k \in {1, 2} \cap DOMAIN f : f[k] = credited[1]
  <2>1. c > 0
    BY <1>2, <1>7
  <2>2. CASE r = 0
    <3>1. both = 0 /\ 1 \in 1..(r + c)
      BY <1>2, <1>3, <2>1, <2>2
    <3>2. f[1] = longer[1]
      BY <3>1
    <3>3. longer = credited
      BY <1>2, <2>1, <2>2 DEF longer
    <3> QED BY <1>5, <3>1, <3>2, <3>3
  <2>3. CASE r # 0
    <3>1. both >= 1 /\ 2 \in 1..(r + c) /\ both \in Nat
      BY <1>2, <1>3, <2>1, <2>3
    <3>2. ~ (2 > 2 * both) /\ 2 % 2 = 0 /\ 2 \div 2 = 1
      BY <3>1
    <3>3. f[2] = credited[1]
      BY <3>1, <3>2
    <3> QED BY <1>5, <3>1, <3>3
  <2> QED BY <2>2, <2>3
<1>8. ASSUME refused # <<>>
      PROVE  \E k \in {1, 2} \cap DOMAIN f : f[k] = refused[1]
  <2>1. r > 0 /\ 1 \in 1..(r + c)
    BY <1>2, <1>8
  <2>2. CASE c = 0
    <3>1. both = 0
      BY <1>2, <1>3, <2>2
    <3>2. f[1] = longer[1]
      BY <2>1, <3>1
    <3>3. longer = refused
      BY <1>2, <2>1, <2>2 DEF longer
    <3> QED BY <1>5, <2>1, <3>2, <3>3
  <2>3. CASE c # 0
    <3>1. both >= 1 /\ both \in Nat
      BY <1>2, <1>3, <2>1, <2>3
    <3>2. ~ (1 > 2 * both) /\ 1 % 2 = 1 /\ (1 + 1) \div 2 = 1
      BY <3>1
    <3>3. f[1] = refused[1]
      BY <2>1, <3>2
    <3> QED BY <1>5, <2>1, <3>3
  <2> QED BY <2>2, <2>3
<1> HIDE DEF f
<1> QED BY <1>1, <1>6, <1>7, <1>8 DEF credited, refused

LEMMA PickedAreReal ==
  ASSUME NEW bs, bs \in Seq(Range(bs)), \A k \in DOMAIN bs : IsBundle(bs[k])
  PROVE  /\ \A b \in PickTargets(bs).credited : IsBundle(b) /\ IsCredited(b)
         /\ \A b \in PickTargets(bs).refused : IsBundle(b) /\ IsRefused(b)
         /\ (\E k \in DOMAIN bs : IsCredited(bs[k])) => PickTargets(bs).credited # {}
         /\ (\E k \in DOMAIN bs : IsRefused(bs[k])) => PickTargets(bs).refused # {}
<1> DEFINE C == {i \in DOMAIN bs : IsCredited(bs[i])}
           R == {i \in DOMAIN bs : IsRefused(bs[i])}
<1>1. PickTargets(bs).credited = FirstOf(bs, C) /\ PickTargets(bs).refused = FirstOf(bs, R)
  BY DEF PickTargets
<1>2. \A b \in FirstOf(bs, C) : \E k \in C : b = bs[k]
  BY DEF FirstOf
<1>3. \A b \in FirstOf(bs, R) : \E k \in R : b = bs[k]
  BY DEF FirstOf
<1>4. ASSUME NEW S \in SUBSET DOMAIN bs, S # {} PROVE FirstOf(bs, S) # {}
  <2>1. S \in SUBSET Nat
    OBVIOUS
  <2>2. Min(S) \in S /\ \A j \in S : Min(S) <= j
    BY <1>4, <2>1, MinOf
  <2>3. bs[Min(S)] \in FirstOf(bs, S)
    BY <2>2 DEF FirstOf
  <2> QED BY <2>3
<1>5. /\ \A k \in C : k \in DOMAIN bs /\ IsCredited(bs[k])
      /\ \A k \in R : k \in DOMAIN bs /\ IsRefused(bs[k])
      /\ (\E k \in DOMAIN bs : IsCredited(bs[k])) => C # {}
      /\ (\E k \in DOMAIN bs : IsRefused(bs[k])) => R # {}
      /\ C \in SUBSET DOMAIN bs /\ R \in SUBSET DOMAIN bs
  OBVIOUS
<1> HIDE DEF C, R
<1> QED BY <1>1, <1>2, <1>3, <1>4, <1>5

LEMMA BreakStart == Init => BreakInv
<1> SUFFICES ASSUME Init PROVE BreakInv
  OBVIOUS
<1> USE DEF Init, ServerInit, BreakItFresh
<1>1. WasLedger(records)
  <2>1. Len(ledger) = 0 /\ SubSeq(ledger, 1, 0) = <<>>
    OBVIOUS
  <2> QED BY <2>1 DEF WasLedger
<1>2. queue \in Seq(Range(queue)) /\ bundles \in Seq(Range(bundles)) /\ DOMAIN bundles = {}
  OBVIOUS
<1>3. targets.credited = {} /\ targets.refused = {}
  BY DEF NoTargets
<1>4. results = [a \in Attacks |-> results[a]] /\ \A a \in Attacks : results[a] = {}
  OBVIOUS
<1>5. phase = "ledger" /\ guarded \in BOOLEAN
  OBVIOUS
<1> HIDE DEF Init, ServerInit, BreakItFresh
<1> QED BY <1>1, <1>2, <1>3, <1>4, <1>5 DEF BreakInv, PaintedTrue

LEMMA BreakKeeps ==
  ASSUME ServerInv, BreakInv, Grows, UNCHANGED breakIt
  PROVE  BreakInv'
<1>1. /\ phase' = phase /\ queue' = queue /\ bundles' = bundles /\ missed' = missed
      /\ records' = records /\ targets' = targets /\ results' = results /\ breached' = breached
      /\ guarded' = guarded
  BY DEF breakIt, finding
<1>2. WasLedger(records)'
  BY <1>1, WasLedgerStays DEF BreakInv, WasLedger
<1>3. /\ \A k \in DOMAIN bundles' : IsBundle(bundles[k])'
      /\ \A b \in targets.credited : IsBundle(b)'
      /\ \A b \in targets.refused : IsBundle(b)'
  BY <1>1 DEF BreakInv, IsBundle, Grows
<1>4. CreditInSight' <=> CreditInSight
  BY <1>1 DEF CreditInSight, NewestCredited
<1>5. PaintedTrue' <=> PaintedTrue
  BY <1>1 DEF PaintedTrue
<1>6. RefusalInSight' <=> RefusalInSight
  BY <1>1 DEF RefusalInSight, NewestVerified
<1>7. LatelyRefused(records)' => LatelyRefused(records)
  <2> SUFFICES ASSUME LatelyRefused(records)' PROVE LatelyRefused(records)
    OBVIOUS
  <2>1. Refused(records) # <<>>
    BY <1>1 DEF LatelyRefused
  <2>2. PICK v \in verifications' : v.taskId = Refused(records)[1] /\ v.verdict # "accepted"
    BY <1>1 DEF LatelyRefused
  <2>3. Refused(records)[1] \in DOMAIN records
    <3>1. IsLedger(records)
      BY WasLedgerIsLedger DEF ServerInv, BreakInv
    <3> QED BY <2>1, <3>1, NewestVerifiedTask
  <2>4. DOMAIN records \subseteq DOMAIN ledger
    <3>1. PICK m \in 0..Len(ledger) : records = SubSeq(ledger, 1, m)
      BY DEF BreakInv, WasLedger
    <3>2. DOMAIN records = 1..m /\ DOMAIN ledger = 1..Len(ledger) /\ Len(ledger) \in Nat
      BY <3>1, PrefixShape, LedgerShape DEF ServerInv, IsLedger
    <3> QED BY <3>2
  <2>5. v \in verifications
    BY <2>2, <2>3, <2>4 DEF Grows
  <2> QED BY <2>1, <2>2, <2>5 DEF LatelyRefused
<1> QED BY <1>1, <1>2, <1>3, <1>4, <1>5, <1>6, <1>7 DEF BreakInv

(* discover() goes on with the bundles bs and the ids q to be fetched.      *)
LEMMA ContinueKeeps ==
  ASSUME BreakInv, UNCHANGED <<server, guarded, breached, results>>, phase # "done",
         NEW bs, bs \in Seq(Range(bs)), \A k \in DOMAIN bs : IsBundle(bs[k]),
         NEW q, q \in Seq(Range(q)), Continue(bs, q), WasLedger(records'),
         ~ missed' /\ Credited(records') # <<>> =>
           \/ \E k \in DOMAIN q : q[k] = Credited(records')[1]
           \/ \E k \in DOMAIN bs : IsCredited(bs[k]),
         ~ missed' /\ LatelyRefused(records') =>
           \/ \E k \in DOMAIN q : q[k] = Refused(records')[1]
           \/ \E k \in DOMAIN bs : IsRefused(bs[k])
  PROVE  BreakInv'
<1> USE DEF BreakInv
<1>1. /\ ledger' = ledger /\ verifications' = verifications /\ credits' = credits
      /\ results' = results /\ breached' = breached /\ guarded' = guarded
  BY DEF server
<1>2. /\ bundles' = bs /\ queue' = q
      /\ \/ /\ q = <<>> \/ HaveBothTargets(PickTargets(bs))
            /\ phase' = "done" /\ targets' = PickTargets(bs)
         \/ /\ q # <<>>
            /\ phase' = "traces" /\ targets' = targets
  BY DEF Continue
<1>3. WasLedger(records)'
  BY <1>1 DEF WasLedger
<1>4. \A b : IsBundle(b) <=> IsBundle(b)'
  BY <1>1 DEF IsBundle
<1>5. /\ \A b \in PickTargets(bs).credited : IsBundle(b) /\ IsCredited(b)
      /\ \A b \in PickTargets(bs).refused : IsBundle(b) /\ IsRefused(b)
      /\ (\E k \in DOMAIN bs : IsCredited(bs[k])) => PickTargets(bs).credited # {}
      /\ (\E k \in DOMAIN bs : IsRefused(bs[k])) => PickTargets(bs).refused # {}
  BY PickedAreReal
<1>6. HaveBothTargets(PickTargets(bs)) =>
        PickTargets(bs).credited # {} /\ PickTargets(bs).refused # {}
  BY DEF HaveBothTargets
<1>7. phase' = "done" /\ ~ missed' /\ Credited(records') # <<>> => targets'.credited # {}
  <2>1. q = <<>> => DOMAIN q = {}
    OBVIOUS
  <2> QED BY <1>2, <1>5, <1>6, <2>1
<1>8. phase' = "traces" /\ ~ missed' /\ Credited(records') # <<>> => CreditInSight'
  BY <1>2 DEF CreditInSight, NewestCredited
<1>9. \A a \in Attacks : results'[a] = {}
  BY <1>1
<1>10. PaintedTrue'
  BY <1>9 DEF PaintedTrue
<1>11. /\ \A k \in DOMAIN bundles' : IsBundle(bundles[k])'
       /\ \A b \in targets'.credited : IsBundle(b)' /\ IsCredited(b)
       /\ \A b \in targets'.refused : IsBundle(b)' /\ IsRefused(b)
  BY <1>2, <1>4, <1>5
<1>12. LatelyRefused(records)' <=> LatelyRefused(records')
  BY <1>1 DEF LatelyRefused
<1>13. phase' = "done" /\ ~ missed' /\ LatelyRefused(records)' => targets'.refused # {}
  <2>1. q = <<>> => DOMAIN q = {}
    OBVIOUS
  <2> QED BY <1>2, <1>5, <1>6, <1>12, <2>1
<1>14. phase' = "traces" /\ ~ missed' /\ LatelyRefused(records)' => RefusalInSight'
  BY <1>2, <1>12 DEF RefusalInSight, NewestVerified
<1> QED BY <1>1, <1>2, <1>3, <1>7, <1>8, <1>9, <1>10, <1>11, <1>13, <1>14

LEMMA LedgerAnswersKeeps ==
  ASSUME ServerInv, BreakInv, LedgerAnswers
  PROVE  BreakInv' /\ UNCHANGED server
<1> USE DEF LedgerAnswers
<1> DEFINE ids == OrderTaskIds(ledger)
           n   == Min({Len(ids), MAX_TRACE_FETCHES})
           q   == SubSeq(ids, 1, n)
<1>1. IsLedger(ledger) /\ WasLedger(ledger)
  BY LedgerWasLedger DEF ServerInv
<1>2. /\ ids \in Seq(Range(ids))
      /\ Credited(ledger) # <<>> => \E k \in {1, 2} \cap DOMAIN ids : ids[k] = Credited(ledger)[1]
      /\ Refused(ledger) # <<>> => \E k \in {1, 2} \cap DOMAIN ids : ids[k] = Refused(ledger)[1]
  BY <1>1, BothAreSoon
<1> HIDE DEF ids
<1>3. Len(ids) \in Nat /\ DOMAIN ids = 1..Len(ids)
  BY <1>2
<1>4. n \in {Len(ids), MAX_TRACE_FETCHES} /\ n <= Len(ids)
  BY <1>3, MinOf, FetchesAssumption
<1>5. n \in 0..Len(ids)
  BY <1>3, <1>4, FetchesAssumption
<1> HIDE DEF n
<1>6. /\ q \in Seq(Range(ids)) /\ DOMAIN q = 1..n
      /\ \A i \in 1..n : q[i] = ids[i]
  BY <1>2, <1>5, PrefixShape
<1>7. q \in Seq(Range(q))
  BY <1>6, SeqOfItsRange
<1>8. \A k \in {1, 2} \cap DOMAIN ids : k \in 1..n
  BY <1>3, <1>4, FetchesAssumption
<1>9. records' = ledger /\ phase = "ledger" /\ UNCHANGED <<server, guarded, breached, results>>
  OBVIOUS
<1>10. Continue(<<>>, q)
  BY DEF n, ids
<1> HIDE DEF q
<1>11. /\ Credited(ledger) # <<>> => \E k \in DOMAIN q : q[k] = Credited(ledger)[1]
       /\ LatelyRefused(ledger) => \E k \in DOMAIN q : q[k] = Refused(ledger)[1]
  BY <1>2, <1>6, <1>8 DEF LatelyRefused
<1>12. <<>> \in Seq(Range(<<>>)) /\ DOMAIN <<>> = {}
  OBVIOUS
<1> HIDE DEF LedgerAnswers
<1> QED BY <1>1, <1>7, <1>9, <1>10, <1>11, <1>12, ContinueKeeps

LEMMA LedgerFailsKeeps ==
  ASSUME ServerInv, BreakInv, LedgerFails
  PROVE  BreakInv' /\ UNCHANGED server
<1> USE DEF LedgerFails, BreakInv
<1>1. /\ ledger' = ledger /\ verifications' = verifications /\ credits' = credits
      /\ UNCHANGED server
  BY DEF server
<1>2. WasLedger(records)'
  BY <1>1 DEF WasLedger
<1>3. \A b : IsBundle(b) <=> IsBundle(b)'
  BY <1>1 DEF IsBundle
<1>4. PaintedTrue'
  BY DEF PaintedTrue
<1> QED BY <1>1, <1>2, <1>3, <1>4

LEMMA UnreadableKeeps ==
  ASSUME BreakInv, Unreadable
  PROVE  BreakInv' /\ UNCHANGED server
<1> USE DEF Unreadable, BreakInv
<1>1. /\ ledger' = ledger /\ verifications' = verifications /\ credits' = credits
      /\ UNCHANGED server
  BY DEF server
<1>2. WasLedger(records)'
  BY <1>1 DEF WasLedger
<1>3. \A b : IsBundle(b) <=> IsBundle(b)'
  BY <1>1 DEF IsBundle
<1>4. PaintedTrue'
  BY DEF PaintedTrue
<1> QED BY <1>1, <1>2, <1>3, <1>4

LEMMA OpenAgainKeeps ==
  ASSUME ServerInv, BreakInv, OpenAgain
  PROVE  BreakInv' /\ UNCHANGED server
<1> USE DEF OpenAgain
<1>1. /\ ledger' = ledger /\ results' = results /\ guarded' = guarded
      /\ UNCHANGED server /\ \A a \in Attacks : results[a] = {}
      /\ phase' = "ledger" /\ records' = <<>>
      /\ queue' = <<>> /\ bundles' = <<>> /\ targets' = NoTargets
  BY DEF server, BreakInv
<1>2. WasLedger(records)'
  <2>1. WasLedger(<<>>)
    BY LedgerWasLedger DEF ServerInv
  <2> QED BY <1>1, <2>1 DEF WasLedger
<1>3. queue' \in Seq(Range(queue')) /\ bundles' \in Seq(Range(bundles')) /\ DOMAIN bundles' = {}
  BY <1>1
<1>4. targets'.credited = {} /\ targets'.refused = {}
  BY <1>1 DEF NoTargets
<1>5. PaintedTrue'
  BY <1>1 DEF PaintedTrue
<1> HIDE DEF OpenAgain
<1> QED BY <1>1, <1>2, <1>3, <1>4, <1>5 DEF BreakInv

LEMMA TailShape ==
  ASSUME NEW q, q \in Seq(Range(q)), q # <<>>
  PROVE  /\ Tail(q) \in Seq(Range(Tail(q)))
         /\ 1 \in DOMAIN q /\ Head(q) = q[1]
         /\ \A k \in DOMAIN q : k # 1 => k - 1 \in DOMAIN Tail(q) /\ Tail(q)[k - 1] = q[k]
<1>1. Len(q) \in Nat /\ DOMAIN q = 1..Len(q) /\ Tail(q) \in Seq(Range(q)) /\ Len(q) # 0
  OBVIOUS
<1>2. DOMAIN Tail(q) = 1..(Len(q) - 1) /\ \A k \in 1..(Len(q) - 1) : Tail(q)[k] = q[k + 1]
  BY <1>1
<1>3. Tail(q) \in Seq(Range(Tail(q)))
  BY <1>1, SeqOfItsRange
<1>4. ASSUME NEW k \in DOMAIN q, k # 1
      PROVE  k - 1 \in DOMAIN Tail(q) /\ Tail(q)[k - 1] = q[k]
  <2>1. k - 1 \in 1..(Len(q) - 1) /\ (k - 1) + 1 = k
    BY <1>1, <1>4
  <2> QED BY <1>2, <2>1
<1> QED BY <1>1, <1>3, <1>4

LEMMA TraceFailsKeeps ==
  ASSUME ServerInv, BreakInv, TraceFails
  PROVE  BreakInv' /\ UNCHANGED server
<1> USE DEF TraceFails
<1>1. /\ phase = "traces" /\ missed' = TRUE /\ Continue(bundles, Tail(queue))
      /\ records' = records /\ UNCHANGED <<server, guarded, breached, results>>
  OBVIOUS
<1>2. queue \in Seq(Range(queue)) /\ queue # <<>>
  BY <1>1 DEF BreakInv
<1>3. Tail(queue) \in Seq(Range(Tail(queue)))
  BY <1>2, TailShape
<1>4. /\ bundles \in Seq(Range(bundles)) /\ WasLedger(records')
      /\ \A k \in DOMAIN bundles : IsBundle(bundles[k])
  BY <1>1 DEF BreakInv
<1> HIDE DEF TraceFails
<1> QED BY <1>1, <1>3, <1>4, ContinueKeeps

LEMMA TraceAnswersKeeps ==
  ASSUME ServerInv, BreakInv, TraceAnswers
  PROVE  BreakInv' /\ UNCHANGED server
<1> USE DEF TraceAnswers
<1>1. /\ phase = "traces" /\ missed' = missed
      /\ records' = records /\ UNCHANGED <<server, guarded, breached, results>>
  OBVIOUS
<1>2. PICK b \in BuildTrace(Head(queue)) : Continue(Append(bundles, b), Tail(queue))
  OBVIOUS
<1> DEFINE bs == Append(bundles, b)
           q  == Tail(queue)
           n  == Len(bundles)
<1>3. queue \in Seq(Range(queue)) /\ queue # <<>>
  BY <1>1 DEF BreakInv
<1>4. /\ q \in Seq(Range(q))
      /\ Head(queue) = queue[1]
      /\ \A k \in DOMAIN queue : k # 1 => k - 1 \in DOMAIN q /\ q[k - 1] = queue[k]
  BY <1>3, TailShape
<1>5. /\ bundles \in Seq(Range(bundles)) /\ WasLedger(records') /\ WasLedger(records)
      /\ \A k \in DOMAIN bundles : IsBundle(bundles[k])
  BY <1>1 DEF BreakInv
<1>6. n \in Nat /\ DOMAIN bundles = 1..n
  BY <1>5
<1>7. /\ bs \in Seq(Range(bundles) \cup {b})
      /\ DOMAIN bs = 1..(n + 1) /\ bs[n + 1] = b
      /\ \A k \in 1..n : bs[k] = bundles[k]
  <2>1. bundles \in Seq(Range(bundles) \cup {b})
    BY <1>5
  <2> QED BY <1>6, <2>1
<1>8. bs \in Seq(Range(bs))
  BY <1>7, SeqOfItsRange
<1>9. IsBundle(b)
  BY <1>2, TraceIsBundle
<1>10. \A k \in DOMAIN bs : IsBundle(bs[k])
  <2>1. \A k \in 1..(n + 1) : k = n + 1 \/ k \in 1..n
    BY <1>6
  <2> QED BY <1>5, <1>6, <1>7, <1>9, <2>1
<1>11. Credited(records) # <<>> /\ Head(queue) = NewestCredited => IsCredited(b)
  <2> SUFFICES ASSUME Credited(records) # <<>>, Head(queue) = NewestCredited
               PROVE  IsCredited(b)
    OBVIOUS
  <2> DEFINE id == Head(queue)
  <2>1. IsLedger(ledger) /\ IsLedger(records)
    BY <1>5, WasLedgerIsLedger DEF ServerInv
  <2>2. id \in DOMAIN records /\ records[id].decision.action = "issueCredit"
    BY <2>1, NewestCreditedTask DEF NewestCredited
  <2>3. PICK m \in 0..Len(ledger) : records = SubSeq(ledger, 1, m)
    BY <1>5 DEF WasLedger
  <2>4. DOMAIN records = 1..m /\ \A i \in 1..m : records[i] = ledger[i]
    BY <2>1, <2>3, PrefixShape DEF IsLedger
  <2>5. Len(ledger) \in Nat /\ DOMAIN ledger = 1..Len(ledger)
    BY <2>1, LedgerShape
  <2>6. id \in DOMAIN ledger /\ ledger[id].decision.action = "issueCredit"
    BY <2>2, <2>4, <2>5
  <2> QED BY <1>2, <2>6, CreditedTrace
<1>12. ~ missed' /\ Credited(records') # <<>> =>
         \/ \E k \in DOMAIN q : q[k] = Credited(records')[1]
         \/ \E k \in DOMAIN bs : IsCredited(bs[k])
  <2> SUFFICES ASSUME ~ missed', Credited(records') # <<>>
               PROVE  \/ \E k \in DOMAIN q : q[k] = Credited(records')[1]
                      \/ \E k \in DOMAIN bs : IsCredited(bs[k])
    OBVIOUS
  <2>1. ~ missed /\ Credited(records) # <<>> /\ NewestCredited = Credited(records')[1]
    BY <1>1 DEF NewestCredited
  <2>2. CreditInSight
    BY <1>1, <2>1 DEF BreakInv
  <2>3. CASE \E k \in DOMAIN queue : queue[k] = NewestCredited
    <3>1. PICK k \in DOMAIN queue : queue[k] = NewestCredited
      BY <2>3
    <3>2. CASE k = 1
      <4>1. IsCredited(bs[n + 1]) /\ n + 1 \in DOMAIN bs
        BY <1>4, <1>6, <1>7, <1>11, <2>1, <3>1, <3>2
      <4> QED BY <4>1
    <3>3. CASE k # 1
      BY <1>4, <2>1, <3>1, <3>3
    <3> QED BY <3>2, <3>3
  <2>4. CASE \E k \in DOMAIN bundles : IsCredited(bundles[k])
    <3>1. PICK k \in DOMAIN bundles : IsCredited(bundles[k])
      BY <2>4
    <3>2. k \in DOMAIN bs /\ bs[k] = bundles[k]
      BY <1>6, <1>7
    <3> QED BY <3>1, <3>2
  <2> QED BY <2>2, <2>3, <2>4 DEF CreditInSight
<1>13. Continue(bs, q) /\ phase # "done"
  BY <1>1, <1>2
<1>14. LatelyRefused(records) /\ Head(queue) = NewestVerified => IsRefused(b)
  <2> SUFFICES ASSUME LatelyRefused(records), Head(queue) = NewestVerified
               PROVE  IsRefused(b)
    OBVIOUS
  <2>1. PICK v \in verifications : v.taskId = Head(queue) /\ v.verdict # "accepted"
    BY DEF LatelyRefused, NewestVerified
  <2> QED BY <1>2, <2>1, RefusedTrace
<1>15. ~ missed' /\ LatelyRefused(records') =>
         \/ \E k \in DOMAIN q : q[k] = Refused(records')[1]
         \/ \E k \in DOMAIN bs : IsRefused(bs[k])
  <2> SUFFICES ASSUME ~ missed', LatelyRefused(records')
               PROVE  \/ \E k \in DOMAIN q : q[k] = Refused(records')[1]
                      \/ \E k \in DOMAIN bs : IsRefused(bs[k])
    OBVIOUS
  <2>1. ~ missed /\ LatelyRefused(records) /\ NewestVerified = Refused(records')[1]
    BY <1>1 DEF NewestVerified
  <2>2. RefusalInSight
    BY <1>1, <2>1 DEF BreakInv
  <2>3. CASE \E k \in DOMAIN queue : queue[k] = NewestVerified
    <3>1. PICK k \in DOMAIN queue : queue[k] = NewestVerified
      BY <2>3
    <3>2. CASE k = 1
      <4>1. IsRefused(bs[n + 1]) /\ n + 1 \in DOMAIN bs
        BY <1>4, <1>6, <1>7, <1>14, <2>1, <3>1, <3>2
      <4> QED BY <4>1
    <3>3. CASE k # 1
      BY <1>4, <2>1, <3>1, <3>3
    <3> QED BY <3>2, <3>3
  <2>4. CASE \E k \in DOMAIN bundles : IsRefused(bundles[k])
    <3>1. PICK k \in DOMAIN bundles : IsRefused(bundles[k])
      BY <2>4
    <3>2. k \in DOMAIN bs /\ bs[k] = bundles[k]
      BY <1>6, <1>7
    <3> QED BY <3>1, <3>2
  <2> QED BY <2>2, <2>3, <2>4 DEF RefusalInSight
<1> HIDE DEF TraceAnswers, bs, q
<1> QED BY <1>1, <1>4, <1>5, <1>8, <1>10, <1>12, <1>13, <1>15, ContinueKeeps

LEMMA ShowKeeps ==
  ASSUME BreakInv, phase = "done", UNCHANGED <<server, guarded, finding>>,
         NEW attack \in Attacks, NEW state, Show(attack, state),
         \A a \in Attacks : a # attack => (a \in breached' <=> a \in breached),
         attack # "tamper_ledger" /\ state # "unknown" =>
           ((state = "broken") <=> (attack \in breached')),
         attack = "tamper_ledger" =>
           state = (IF records = <<>> THEN "unknown" ELSE "held")
  PROVE  BreakInv'
<1>1. /\ ledger' = ledger /\ verifications' = verifications /\ credits' = credits
      /\ phase' = phase /\ queue' = queue /\ bundles' = bundles /\ missed' = missed
      /\ records' = records /\ targets' = targets /\ guarded' = guarded
  BY DEF server, finding
<1>2. WasLedger(records)'
  BY <1>1 DEF BreakInv, WasLedger
<1>3. \A b : IsBundle(b) <=> IsBundle(b)'
  BY <1>1 DEF IsBundle
<1> DEFINE shown == {[state |-> state, on |-> Target(attack)]}
<1>4. results' = [results EXCEPT ![attack] = shown]
  BY DEF Show
<1>5. \A r \in shown : r.state = state
  OBVIOUS
<1> HIDE DEF shown
<1>6. \A a \in Attacks : results'[a] = IF a = attack THEN shown ELSE results[a]
  BY <1>4 DEF BreakInv
<1>7. PaintedTrue'
  BY <1>1, <1>5, <1>6 DEF BreakInv, PaintedTrue
<1>8. results' = [a \in Attacks |-> results'[a]]
  BY <1>4 DEF BreakInv
<1>9. LatelyRefused(records)' <=> LatelyRefused(records)
  BY <1>1 DEF LatelyRefused
<1> QED BY <1>1, <1>2, <1>3, <1>7, <1>8, <1>9 DEF BreakInv

LEMMA AttackKeeps ==
  ASSUME BreakInv, NEW attack \in Attacks, Attack(attack)
  PROVE  BreakInv' /\ UNCHANGED server
<1> USE DEF Attack
<1>1. /\ phase = "done" /\ attack # "tamper_ledger"
      /\ UNCHANGED <<server, guarded, finding>>
  OBVIOUS
<1>2. CASE Target(attack) = {}
  <2>1. Show(attack, "unknown") /\ UNCHANGED breached
    BY <1>2
  <2> HIDE DEF Attack
  <2> QED BY <1>1, <2>1, ShowKeeps
<1>3. CASE Target(attack) # {}
  <2>1. PICK o \in Outcomes :
          /\ Show(attack, JudgeHttp(o.answer, 400))
          /\ breached' = IF o.through THEN breached \cup {attack} ELSE breached \ {attack}
    BY <1>3
  <2> DEFINE state == JudgeHttp(o.answer, 400)
  <2>2. state # "unknown" => (state = "broken") = o.through
    <3>1. JudgeHttp(NoAnswer, 400) = "unknown"
      BY DEF JudgeHttp, NoAnswer
    <3>2. JudgeHttp(Answer(500), 400) = "unknown"
      BY DEF JudgeHttp, Answer
    <3>3. JudgeHttp(Answer(404), 400) = "held" /\ JudgeHttp(Answer(400), 400) = "held"
      BY DEF JudgeHttp, Answer
    <3>4. JudgeHttp(Answer(200), 400) = "broken"
      BY DEF JudgeHttp, Answer
    <3>5. \/ o.answer \in {NoAnswer, Answer(500)}
          \/ o.through = FALSE /\ o.answer \in {Answer(400), Answer(404)}
          \/ o.through = TRUE /\ o.answer = Answer(200)
      <4>1. \/ \E r \in {NoAnswer, Answer(500), Answer(IF guarded THEN 400 ELSE 200)} :
                 o = [through |-> ~ guarded, answer |-> r]
            \/ \E r \in {NoAnswer, Answer(500), Answer(404)} :
                 o = [through |-> FALSE, answer |-> r]
        BY DEF Outcomes
      <4>2. CASE \E r \in {NoAnswer, Answer(500), Answer(404)} :
                   o = [through |-> FALSE, answer |-> r]
        BY <4>2
      <4>3. CASE \E r \in {NoAnswer, Answer(500), Answer(IF guarded THEN 400 ELSE 200)} :
                   o = [through |-> ~ guarded, answer |-> r]
        <5>1. PICK r \in {NoAnswer, Answer(500), Answer(IF guarded THEN 400 ELSE 200)} :
                o = [through |-> ~ guarded, answer |-> r]
          BY <4>3
        <5>2. o.answer = r /\ o.through = (~ guarded)
          BY <5>1
        <5>3. CASE guarded = TRUE
          <6>1. (~ guarded) = FALSE
            BY <5>3, Zenon
          <6> QED BY <5>1, <5>2, <5>3, <6>1
        <5>4. CASE guarded = FALSE
          <6>1. (~ guarded) = TRUE
            BY <5>4, Zenon
          <6> QED BY <5>1, <5>2, <5>4, <6>1
        <5> QED BY <5>3, <5>4 DEF BreakInv
      <4> QED BY <4>1, <4>2, <4>3
    <3>6. CASE o.answer \in {NoAnswer, Answer(500)}
      BY <3>1, <3>2, <3>6
    <3>7. CASE o.through = FALSE /\ o.answer \in {Answer(400), Answer(404)}
      BY <3>3, <3>7
    <3>8. CASE o.through = TRUE /\ o.answer = Answer(200)
      BY <3>4, <3>8
    <3> QED BY <3>5, <3>6, <3>7, <3>8
  <2> HIDE DEF Attack, state
  <2>3. \A a \in Attacks : a # attack => (a \in breached' <=> a \in breached)
    BY <2>1
  <2>4. o.through <=> attack \in breached'
    BY <2>1
  <2>5. state # "unknown" => ((state = "broken") <=> (attack \in breached'))
    BY <2>2, <2>4
  <2>6. Show(attack, state)
    BY <2>1 DEF state
  <2> QED BY <1>1, <2>3, <2>5, <2>6, ShowKeeps
<1> QED BY <1>2, <1>3

(* An edit of one record is found, at that record.                          *)
LEMMA TamperIsFound ==
  ASSUME NEW s, IsLedger(s), NEW p \in DOMAIN s
  PROVE  JudgeTamper(s, TamperAt(s, s[p].seq), s[p].seq) = "held"
<1> DEFINE t == TamperAt(s, s[p].seq)
<1>1. DOMAIN s = 1..Len(s) /\ Len(s) \in Nat /\ \A i \in DOMAIN s : s[i].seq = i - 1
  BY LedgerShape
<1>2. \A i \in DOMAIN s : s[i].seq = s[p].seq <=> i = p
  BY <1>1
<1>3. /\ DOMAIN t = DOMAIN s
      /\ \A i \in DOMAIN s :
           t[i] = IF i = p THEN [s[p] EXCEPT !.decision.action = "edited"] ELSE s[i]
  BY <1>2 DEF TamperAt
<1>4. \A i \in DOMAIN s :
        s[i] = [seq |-> s[i].seq, decision |-> s[i].decision,
                prevHash |-> s[i].prevHash, hash |-> s[i].hash]
  BY DEF IsLedger, IsRowOf, IsRow
<1>5. IsEditOf(t, s)
  <2>1. ASSUME NEW i \in DOMAIN s
        PROVE  t[i] = [seq |-> s[i].seq, decision |-> t[i].decision,
                       prevHash |-> s[i].prevHash, hash |-> s[i].hash]
    <3>1. CASE i = p
      BY <1>3, <1>4, <3>1, TamperKeepsRow
    <3>2. CASE i # p
      BY <1>3, <1>4, <3>2
    <3> QED BY <3>1, <3>2
  <2> QED BY <1>3, <2>1 DEF IsEditOf
<1>6. t[p].decision # s[p].decision
  <2>1. s[p].decision = [taskId |-> p, action |-> s[p].decision.action]
        /\ s[p].decision.action # "edited"
    BY DEF IsLedger, IsRowOf, ServerActions
  <2>2. t[p].decision = [s[p].decision EXCEPT !.action = "edited"]
    BY <1>3, <1>4
  <2>3. t[p].decision.action = "edited"
    BY <2>1, <2>2
  <2> QED BY <2>1, <2>3
<1> HIDE DEF t
<1>7. \A i \in DOMAIN s : RecordHolds(t, i) <=> i # p
  BY <1>3, <1>5, <1>6, EditedRowsFail
<1>8. {i \in DOMAIN t : ~ RecordHolds(t, i)} = {p}
  BY <1>3, <1>7
<1>9. ~ ChainValid(t)
  BY <1>3, <1>7 DEF ChainValid
<1>10. BrokenAtSeq(t) = s[p].seq
  <2>1. {p} \in SUBSET Nat
    BY <1>1
  <2>2. Min({p}) = p
    BY <2>1, MinOf
  <2>3. BrokenAtSeq(t) = t[p].seq
    BY <1>8, <2>2 DEF BrokenAtSeq
  <2>4. t[p] = [seq |-> s[p].seq, decision |-> t[p].decision,
                prevHash |-> s[p].prevHash, hash |-> s[p].hash]
    BY <1>5 DEF IsEditOf
  <2> QED BY <2>3, <2>4
<1>11. ChainValid(s)
  BY DEF IsLedger
<1> QED BY <1>9, <1>10, <1>11 DEF JudgeTamper, t

LEMMA AttackLedgerKeeps ==
  ASSUME ServerInv, BreakInv, AttackLedger
  PROVE  BreakInv' /\ UNCHANGED server
<1> DEFINE p     == Len(records) \div 2 + 1
           state == IF records = <<>> THEN "unknown"
                    ELSE JudgeTamper(records, TamperAt(records, records[p].seq), records[p].seq)
<1>1. /\ phase = "done" /\ UNCHANGED <<server, guarded, finding>> /\ UNCHANGED breached
      /\ Show("tamper_ledger", state)
  BY DEF AttackLedger
<1>2. IsLedger(records)
  BY WasLedgerIsLedger DEF BreakInv, ServerInv
<1>3. state = IF records = <<>> THEN "unknown" ELSE "held"
  <2>1. CASE records = <<>>
    BY <2>1
  <2>2. CASE records # <<>>
    <3>1. Len(records) \in Nat \ {0} /\ DOMAIN records = 1..Len(records)
      BY <1>2, <2>2, LedgerShape DEF IsLedger
    <3>2. p \in DOMAIN records
      BY <3>1
    <3> HIDE DEF p
    <3> QED BY <1>2, <2>2, <3>2, TamperIsFound
  <2> QED BY <2>1, <2>2
<1> HIDE DEF state
<1>4. "tamper_ledger" \in Attacks
  BY DEF Attacks
<1> QED BY <1>1, <1>3, <1>4, ShowKeeps

LEMMA BreakSteps ==
  ASSUME ServerInv, BreakInv, BreakItNext
  PROVE  BreakInv' /\ UNCHANGED server
BY LedgerAnswersKeeps, LedgerFailsKeeps, TraceAnswersKeeps, TraceFailsKeeps,
   UnreadableKeeps, OpenAgainKeeps, AttackKeeps, AttackLedgerKeeps DEF BreakItNext

LEMMA TargetsHold ==
  ASSUME ServerInv, BreakInv
  PROVE  TargetsAreReal
<1> USE DEF ServerInv, BreakInv
<1>1. \A b \in targets.credited : \E c \in credits : c.evidenceId \in b.evidence
  BY DEF IsBundle, IsCredited
<1>2. ASSUME NEW b \in targets.refused
      PROVE  /\ \E v \in verifications : v.evidenceId \in b.evidence /\ v.verdict # "accepted"
             /\ \A c \in credits : c.evidenceId \notin b.evidence
  <2>1. PICK v \in b.verification : v.verdict # "accepted"
    BY DEF IsRefused
  <2>2. v \in verifications /\ b.evidence = {v.evidenceId}
    BY DEF IsBundle
  <2>3. ASSUME NEW c \in credits, c.evidenceId = v.evidenceId PROVE FALSE
    <3>1. PICK w \in verifications : w.evidenceId = c.evidenceId /\ w.verdict = "accepted"
      BY DEF RowsAgree
    <3>2. w = v
      BY <2>2, <2>3, <3>1 DEF RowsAgree
    <3> QED BY <2>1, <3>1, <3>2
  <2> QED BY <2>1, <2>2, <2>3
<1> QED BY <1>1, <1>2 DEF TargetsAreReal

-----------------------------------------------------------------------------
LEMMA Start == Init => IInv
<1> SUFFICES ASSUME Init PROVE IInv
  OBVIOUS
<1>1. ServerInv
  BY DEF Init, ServerInit, ServerInv, IsLedger, ChainValid, RowsAgree
<1> QED BY <1>1, AuditStart, PanelStart, BreakStart DEF IInv

LEMMA Step == IInv /\ [Next]_vars => IInv'
<1> SUFFICES ASSUME IInv, [Next]_vars PROVE IInv'
  OBVIOUS
<1> USE DEF IInv
<1>1. CASE ServerNext /\ UNCHANGED <<view, audit, panel, breakIt>>
  BY <1>1, ServerSteps, AuditKeeps, PanelKeeps, BreakKeeps
<1>2. CASE view = "audit" /\ AuditNext /\ UNCHANGED <<view, panel, breakIt>>
  <2>1. AuditInv' /\ UNCHANGED server
    BY <1>2, AuditSteps
  <2> QED BY <1>2, <2>1, ServerStays, PanelKeeps, BreakKeeps
<1>3. CASE view = "credential" /\ PanelNext /\ UNCHANGED <<view, audit, breakIt>>
  <2>1. PanelInv' /\ UNCHANGED server
    BY <1>3, PanelSteps
  <2> QED BY <1>3, <2>1, ServerStays, AuditKeeps, BreakKeeps
<1>4. CASE view = "breakit" /\ BreakItNext /\ UNCHANGED <<view, audit, panel>>
  <2>1. BreakInv' /\ UNCHANGED server
    BY <1>4, BreakSteps
  <2> QED BY <1>4, <2>1, ServerStays, AuditKeeps, PanelKeeps
<1>5. CASE UNCHANGED vars
  BY <1>5, ServerStays, AuditKeeps, PanelKeeps, BreakKeeps DEF vars
<1> QED BY <1>1, <1>2, <1>3, <1>4, <1>5 DEF Next

LEMMA Always == Spec => []IInv
<1>1. Init => IInv
  BY Start
<1>2. IInv /\ [Next]_vars => IInv'
  BY Step
<1> QED BY <1>1, <1>2, PTL DEF Spec

(* The Audit screen: the banner is the audit of the records under it, an    *)
(* edited ledger is reported broken at the first edited record and an       *)
(* unedited one valid, however late and in whatever order loads came.       *)
THEOREM AuditAlwaysTrue == Spec => []AuditIsTrue
<1>1. IInv => AuditIsTrue
  BY AuditHolds DEF IInv
<1> QED BY <1>1, Always, PTL

(* The credential panel: a check stands beside the credential it was made   *)
(* of unless a lookup overlapped it, and a credential it calls revoked is   *)
(* retired for good.                                                        *)
THEOREM ChecksNeverOfAnother == Spec => []ChecksAreOfThisCredential
<1>1. IInv => ChecksAreOfThisCredential
  BY PanelHolds DEF IInv
<1> QED BY <1>1, Always, PTL

(* The Break It screen attacks batches that are what it takes them for,     *)
(* however the ledger grew since it was read, and never misses the credits  *)
(* of a ledger that has any, nor the newest verification if it refused,     *)
(* however long the ledger is and whichever of the two are more.            *)
THEOREM TargetsAlwaysReal == Spec => []TargetsAreReal
<1>1. IInv => TargetsAreReal
  BY TargetsHold DEF IInv
<1> QED BY <1>1, Always, PTL

(* The Break It screen paints an attack held or broken only as the API held *)
(* or broke, and finds every edit of a ledger at the record edited.         *)
THEOREM NothingPaintedFalsely == Spec => []PaintedTrue
<1>1. IInv => PaintedTrue
  BY DEF IInv, BreakInv
<1> QED BY <1>1, Always, PTL
=============================================================================
