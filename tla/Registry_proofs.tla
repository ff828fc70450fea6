--------------------------- MODULE Registry_proofs ---------------------------
(* Registry's invariants for any number of calls, pieces of evidence,       *)
(* matches and holders, and any length of the status list.                  *)
EXTENDS Registry, Rules, FiniteSetTheorems, TLAPS

LEMMA InitIInv == Init => IInv
<1> SUFFICES ASSUME Init PROVE IInv
  OBVIOUS
<1> USE DEF Init
<1>1. TypeOK
  <2>1. get \in [Gets -> GetRows]
    BY DEF NoGet, GetRows
  <2> QED BY <2>1 DEF TypeOK
<1>2. CallInv /\ IndexInv /\ IdInv /\ HeadInv /\ ListInv
  <2>1. ListInv
    BY DEF ListInv, NoGet
  <2> QED BY <2>1 DEF CallInv, IndexInv, IdInv, HeadInv, HasIndex, IssueSteps, RetireSteps
<1>3. OneCreditPerEvidence /\ CreditIsEarned /\ IndexNeverCollides /\ CustodyHead /\ OnlyHolderRetires
  BY DEF OneCreditPerEvidence, CreditIsEarned, IndexNeverCollides, CustodyHead, OnlyHolderRetires
<1> QED BY <1>1, <1>2, <1>3 DEF IInv

(* One step per action.  Most leave most of it alone; the work is in       *)
(* InsertCredit and MarkRetired, which change rows, and in the three        *)
(* appends, which make the ledger longer.                                   *)
LEMMA NextIInv == IInv /\ [Next]_vars => IInv'
<1> SUFFICES ASSUME IInv, [Next]_vars PROVE IInv'
  OBVIOUS
<1> USE DEF IInv
<1>1. ASSUME NEW e \in Evidence, NEW v \in Verdicts, VerifierRecords(e, v) PROVE IInv'
  <2> USE <1>1 DEF VerifierRecords
  <2>entry.
        /\ Decision("verifyEvidence", e) \in DecisionRows
        /\ ledger' = Append(ledger, Decision("verifyEvidence", e))
    BY DEF DecisionRows, Decision
  <2>longer.
        /\ ledger' \in Seq(DecisionRows) /\ Len(ledger') = Len(ledger) + 1
        /\ DOMAIN ledger = 1..Len(ledger) /\ DOMAIN ledger' = 1..Len(ledger) + 1
        /\ \A i \in 1..Len(ledger) : ledger'[i] = ledger[i]
        /\ ledger'[Len(ledger) + 1] = Decision("verifyEvidence", e)
    BY <2>entry DEF TypeOK
  <2>1. TypeOK'
    BY <2>longer DEF TypeOK, IssueSteps, RetireSteps, Ends
  <2>2. CallInv'
    BY DEF TypeOK, CallInv, HasIndex, IssueSteps, RetireSteps
  <2>3. IndexInv' /\ IndexNeverCollides'
    BY DEF TypeOK, IndexInv, IndexNeverCollides, HasIndex
  <2>4. IdInv'
    BY DEF TypeOK, IdInv
  <2>5. HeadInv' /\ CustodyHead'
    <3>1. \A i \in DOMAIN ledger', d \in Calls :
            ledger'[i] = Decision("issueCredit", d) => i \in 1..Len(ledger)
      BY <2>longer DEF Decision
    <3>2. HeadInv'
      <4>1. \A f \in Evidence : verdicts'[f] # "none" =>
              \E i \in DOMAIN ledger' : ledger'[i] = Decision("verifyEvidence", f)
        <5> TAKE f \in Evidence
        <5> HAVE verdicts'[f] # "none"
        <5>1. CASE f = e
          <6>1. Len(ledger) + 1 \in DOMAIN ledger'
            BY <2>longer
          <6> QED BY <5>1, <6>1, <2>longer
        <5>2. CASE f # e
          <6>1. PICK i \in DOMAIN ledger : ledger[i] = Decision("verifyEvidence", f)
            BY <5>2 DEF TypeOK, HeadInv
          <6> QED BY <2>longer, <6>1
        <5> QED BY <5>1, <5>2
      <4>2. \A d \in Calls : pc'[d] = "insertCredit" =>
              /\ head[d] <= Len(ledger) + 1
              /\ \E i \in 1..head[d] : ledger'[i] = Decision("verifyEvidence", input[d].evidence)
        <5> TAKE d \in Calls
        <5> HAVE pc'[d] = "insertCredit"
        <5>1. head[d] \in Nat /\ head[d] <= Len(ledger)
          BY DEF TypeOK, HeadInv
        <5>2. PICK i \in 1..head[d] : ledger[i] = Decision("verifyEvidence", input[d].evidence)
          BY DEF TypeOK, HeadInv
        <5>3. ledger'[i] = ledger[i]
          BY <2>longer, <5>1
        <5> QED BY <2>longer, <5>1, <5>2, <5>3
      <4>3. \A i \in DOMAIN ledger', d \in Calls :
              ledger'[i] = Decision("issueCredit", d) => pc'[d] = "done"
        BY <2>longer, <3>1 DEF TypeOK, HeadInv
      <4>4. \A r \in credits' : r.head <= Len(ledger')
        BY <2>longer DEF TypeOK, HeadInv, CreditRows
      <4> QED BY <2>longer, <4>1, <4>2, <4>3, <4>4 DEF HeadInv
    <3>3. CustodyHead'
      BY <2>longer, <3>1 DEF TypeOK, HeadInv, CustodyHead, CreditRows
    <3> QED BY <3>2, <3>3
  <2>6. ListInv'
    BY DEF ListInv, RetiredIndices
  <2>7. OneCreditPerEvidence' /\ CreditIsEarned'
    BY DEF TypeOK, OneCreditPerEvidence, CreditIsEarned
  <2>8. OnlyHolderRetires'
    BY DEF TypeOK, OnlyHolderRetires, CallInv
  <2> QED BY <2>1, <2>2, <2>3, <2>4, <2>5, <2>6, <2>7, <2>8
<1>2. ASSUME NEW c \in Calls, NEW in \in IssueInputs, StartIssue(c, in) PROVE IInv'
  <2> USE <1>2 DEF StartIssue, Goto
  <2>1. TypeOK'
    BY DEF TypeOK, IssueSteps, RetireSteps, Ends
  <2>2. CallInv'
    BY DEF TypeOK, CallInv, HasIndex, IssueSteps, RetireSteps
  <2>3. IndexInv' /\ IndexNeverCollides'
    BY DEF TypeOK, IndexInv, IndexNeverCollides, HasIndex
  <2>4. IdInv'
    BY DEF TypeOK, IdInv
  <2>5. HeadInv' /\ CustodyHead'
    BY DEF TypeOK, HeadInv, CustodyHead
  <2>6. ListInv'
    BY DEF ListInv, RetiredIndices
  <2>7. OneCreditPerEvidence' /\ CreditIsEarned'
    BY DEF TypeOK, OneCreditPerEvidence, CreditIsEarned
  <2>8. OnlyHolderRetires'
    <3>1. \A d \in Calls, r \in credits :
            input[d] = [skill |-> "retire", credit |-> r.id, by |-> r.holder] => input'[d] = input[d]
      BY DEF TypeOK, CallInv, NoInput
    <3>2. credits' = credits
      OBVIOUS
    <3> QED BY <3>1, <3>2 DEF OnlyHolderRetires
  <2> QED BY <2>1, <2>2, <2>3, <2>4, <2>5, <2>6, <2>7, <2>8
<1>3. ASSUME NEW c \in Calls, FindVerification(c) PROVE IInv'
  <2> USE <1>3 DEF FindVerification, Goto
  <2>1. TypeOK'
    BY DEF TypeOK, IssueSteps, RetireSteps, Ends
  <2>2. CallInv'
    BY DEF TypeOK, CallInv, HasIndex, IssueSteps, RetireSteps
  <2>3. IndexInv' /\ IndexNeverCollides'
    BY DEF TypeOK, IndexInv, IndexNeverCollides, HasIndex
  <2>4. IdInv'
    BY DEF TypeOK, IdInv
  <2>5. HeadInv' /\ CustodyHead'
    BY DEF TypeOK, HeadInv, CustodyHead
  <2>6. ListInv'
    BY DEF ListInv, RetiredIndices
  <2>7. OneCreditPerEvidence' /\ CreditIsEarned'
    BY DEF TypeOK, OneCreditPerEvidence, CreditIsEarned
  <2>8. OnlyHolderRetires'
    BY DEF TypeOK, OnlyHolderRetires, CallInv
  <2> QED BY <2>1, <2>2, <2>3, <2>4, <2>5, <2>6, <2>7, <2>8
<1>4. ASSUME NEW c \in Calls, FindCreditByEvidence(c) PROVE IInv'
  <2> USE <1>4 DEF FindCreditByEvidence, Goto
  <2>1. TypeOK'
    BY DEF TypeOK, IssueSteps, RetireSteps, Ends
  <2>2. CallInv'
    BY DEF TypeOK, CallInv, HasIndex, IssueSteps, RetireSteps
  <2>3. IndexInv' /\ IndexNeverCollides'
    BY DEF TypeOK, IndexInv, IndexNeverCollides, HasIndex
  <2>4. IdInv'
    BY DEF TypeOK, IdInv
  <2>5. HeadInv' /\ CustodyHead'
    BY DEF TypeOK, HeadInv, CustodyHead
  <2>6. ListInv'
    BY DEF ListInv, RetiredIndices
  <2>7. OneCreditPerEvidence' /\ CreditIsEarned'
    BY DEF TypeOK, OneCreditPerEvidence, CreditIsEarned
  <2>8. OnlyHolderRetires'
    BY DEF TypeOK, OnlyHolderRetires, CallInv
  <2> QED BY <2>1, <2>2, <2>3, <2>4, <2>5, <2>6, <2>7, <2>8
<1>5. ASSUME NEW c \in Calls, AllocateIndex(c) PROVE IInv'
  <2> USE <1>5 DEF AllocateIndex, Goto
  <2>1. TypeOK'
    BY DEF TypeOK, IssueSteps, RetireSteps, Ends
  <2>2. CallInv'
    <3>1. pc[c] \in IssueSteps
      BY DEF IssueSteps
    <3>2. input[c] \in IssueInputs
      BY <3>1 DEF CallInv
    <3>3. HolderOf[input[c].match] # NoHolder => HolderOf[input[c].match] \in Holders
      BY <3>2, HolderOfAssumption DEF IssueInputs
    <3> QED BY <3>3 DEF TypeOK, CallInv, HasIndex, IssueSteps, RetireSteps
  <2>3. IndexInv' /\ IndexNeverCollides'
    <3>1. nextIndex' = nextIndex + 1 /\ index' = [index EXCEPT ![c] = nextIndex]
      OBVIOUS
    <3>2. \A d \in Calls : d # c => index'[d] = index[d] /\ (HasIndex(d)' <=> HasIndex(d))
      BY <3>1 DEF TypeOK, HasIndex
    <3>3. index'[c] = nextIndex
      BY <3>1 DEF TypeOK
    <3>4. IndexInv'
      BY <3>1, <3>2, <3>3 DEF TypeOK, IndexInv, CreditRows
    <3>5. IndexNeverCollides'
      BY DEF TypeOK, IndexNeverCollides
    <3> QED BY <3>4, <3>5
  <2>4. IdInv'
    BY DEF TypeOK, IdInv
  <2>5. HeadInv' /\ CustodyHead'
    BY DEF TypeOK, HeadInv, CustodyHead
  <2>6. ListInv'
    BY DEF ListInv, RetiredIndices
  <2>7. OneCreditPerEvidence' /\ CreditIsEarned'
    BY DEF TypeOK, OneCreditPerEvidence, CreditIsEarned
  <2>8. OnlyHolderRetires'
    BY DEF TypeOK, OnlyHolderRetires, CallInv
  <2> QED BY <2>1, <2>2, <2>3, <2>4, <2>5, <2>6, <2>7, <2>8
<1>6. ASSUME NEW c \in Calls, ReadHead(c) PROVE IInv'
  <2> USE <1>6 DEF ReadHead, Goto
  <2>1. TypeOK'
    BY DEF TypeOK, IssueSteps, RetireSteps, Ends
  <2>2. CallInv'
    BY DEF TypeOK, CallInv, HasIndex, IssueSteps, RetireSteps
  <2>3. IndexInv' /\ IndexNeverCollides'
    BY DEF TypeOK, IndexInv, IndexNeverCollides, HasIndex
  <2>4. IdInv'
    BY DEF TypeOK, IdInv
  <2>5. HeadInv' /\ CustodyHead'
    <3>1. PICK i \in DOMAIN ledger : ledger[i] = Decision("verifyEvidence", input[c].evidence)
      BY DEF CallInv, HeadInv, IssueSteps, IssueInputs
    <3>2. i \in 1..head'[c] /\ head'[c] = Len(ledger)
      BY DEF TypeOK
    <3>3. HeadInv'
      BY <3>1, <3>2 DEF TypeOK, HeadInv
    <3> QED BY <3>3 DEF CustodyHead
  <2>6. ListInv'
    BY DEF ListInv, RetiredIndices
  <2>7. OneCreditPerEvidence' /\ CreditIsEarned'
    BY DEF TypeOK, OneCreditPerEvidence, CreditIsEarned
  <2>8. OnlyHolderRetires'
    BY DEF TypeOK, OnlyHolderRetires, CallInv
  <2> QED BY <2>1, <2>2, <2>3, <2>4, <2>5, <2>6, <2>7, <2>8
<1>7. ASSUME NEW c \in Calls, InsertCredit(c) PROVE IInv'
  <2> USE <1>7 DEF InsertCredit, Goto
  <2>row.
        /\ Row(c) \in CreditRows
        /\ Row(c).id = c /\ Row(c).index = index[c] /\ Row(c).head = head[c]
        /\ Row(c).evidence = input[c].evidence /\ Row(c).match = input[c].match
        /\ Row(c).holder = HolderOf[input[c].match] /\ Row(c).status = "issued"
        /\ input[c].evidence \in Evidence
    BY DEF TypeOK, CallInv, HasIndex, IssueSteps, IssueInputs, Row, CreditRows
  <2>free. ~ IndexTaken(c)
    BY DEF IndexTaken, IndexInv, HasIndex
  <2>insert.
        \/ UNCHANGED credits /\ pc' = [pc EXCEPT ![c] = "refused"]
        \/ /\ credits' = credits \cup {Row(c)} /\ pc' = [pc EXCEPT ![c] = "appendIssue"]
           /\ \A r \in credits : r.evidence # input[c].evidence
    BY <2>free DEF CreditsFor
  <2>fresh. \A r \in credits : r.id # c
    BY DEF IdInv
  <2>1. TypeOK'
    BY <2>row, <2>insert DEF TypeOK, IssueSteps, RetireSteps, Ends
  <2>2. CallInv'
    BY <2>insert DEF TypeOK, CallInv, HasIndex, IssueSteps, RetireSteps
  <2>3. IndexInv' /\ IndexNeverCollides'
    <3>1. \A d \in Calls : HasIndex(d)' => HasIndex(d) /\ d # c
      BY <2>insert DEF TypeOK, HasIndex
    <3>2. HasIndex(c)
      BY DEF HasIndex
    <3>3. IndexInv'
      BY <2>row, <2>insert, <3>1, <3>2 DEF IndexInv
    <3>4. IndexNeverCollides'
      BY <2>insert DEF TypeOK, IndexNeverCollides
    <3> QED BY <3>3, <3>4
  <2>4. IdInv'
    <3>1. \A r \in credits' : pc'[r.id] \in {"appendIssue", "done", "failed"}
      BY <2>row, <2>insert, <2>fresh DEF TypeOK, IdInv, CreditRows
    <3>2. \A q, r \in credits' : q.id = r.id => q = r
      BY <2>row, <2>insert, <2>fresh DEF IdInv
    <3> QED BY <3>1, <3>2 DEF IdInv
  <2>5. HeadInv' /\ CustodyHead'
    <3>1. HeadInv'
      BY <2>row, <2>insert DEF TypeOK, HeadInv
    <3>2. \A i \in 1..Len(ledger) : ledger[i] # Decision("issueCredit", c)
      BY DEF TypeOK, HeadInv
    <3>3. CustodyHead'
      BY <2>row, <2>insert, <3>2 DEF TypeOK, HeadInv, CustodyHead
    <3> QED BY <3>1, <3>3
  <2>6. ListInv'
    BY <2>insert DEF ListInv, RetiredIndices
  <2>7. OneCreditPerEvidence' /\ CreditIsEarned'
    BY <2>row, <2>insert DEF OneCreditPerEvidence, CreditIsEarned, CallInv, HasIndex, IssueSteps
  <2>8. OnlyHolderRetires'
    BY <2>row, <2>insert DEF OnlyHolderRetires
  <2> QED BY <2>1, <2>2, <2>3, <2>4, <2>5, <2>6, <2>7, <2>8
<1>8. ASSUME NEW c \in Calls, AppendIssue(c) PROVE IInv'
  <2> USE <1>8 DEF AppendIssue, Goto
  <2>entry.
        /\ Decision("issueCredit", c) \in DecisionRows
        /\ ledger' = Append(ledger, Decision("issueCredit", c))
    BY DEF DecisionRows, Decision
  <2>longer.
        /\ ledger' \in Seq(DecisionRows) /\ Len(ledger') = Len(ledger) + 1
        /\ DOMAIN ledger = 1..Len(ledger) /\ DOMAIN ledger' = 1..Len(ledger) + 1
        /\ \A i \in 1..Len(ledger) : ledger'[i] = ledger[i]
        /\ ledger'[Len(ledger) + 1] = Decision("issueCredit", c)
    BY <2>entry DEF TypeOK
  <2>1. TypeOK'
    BY <2>longer DEF TypeOK, IssueSteps, RetireSteps, Ends
  <2>2. CallInv'
    BY DEF TypeOK, CallInv, HasIndex, IssueSteps, RetireSteps
  <2>3. IndexInv' /\ IndexNeverCollides'
    BY DEF TypeOK, IndexInv, IndexNeverCollides, HasIndex
  <2>4. IdInv'
    BY DEF TypeOK, IdInv
  <2>5. HeadInv' /\ CustodyHead'
    <3>1. \A i \in DOMAIN ledger', d \in Calls :
            ledger'[i] = Decision("issueCredit", d) => i \in 1..Len(ledger) \/ d = c
      BY <2>longer DEF Decision
    <3>2. HeadInv'
      <4>1. \A f \in Evidence : verdicts'[f] # "none" =>
              \E i \in DOMAIN ledger' : ledger'[i] = Decision("verifyEvidence", f)
        BY <2>longer DEF TypeOK, HeadInv
      <4>2. \A d \in Calls : pc'[d] = "insertCredit" =>
              /\ head[d] <= Len(ledger) + 1
              /\ \E i \in 1..head[d] : ledger'[i] = Decision("verifyEvidence", input[d].evidence)
        <5> TAKE d \in Calls
        <5> HAVE pc'[d] = "insertCredit"
        <5>1. head[d] \in Nat /\ head[d] <= Len(ledger)
          BY DEF TypeOK, HeadInv
        <5>2. PICK i \in 1..head[d] : ledger[i] = Decision("verifyEvidence", input[d].evidence)
          BY DEF TypeOK, HeadInv
        <5>3. ledger'[i] = ledger[i]
          BY <2>longer, <5>1
        <5> QED BY <2>longer, <5>1, <5>2, <5>3
      <4>3. \A i \in DOMAIN ledger', d \in Calls :
              ledger'[i] = Decision("issueCredit", d) => pc'[d] = "done"
        BY <2>longer, <3>1 DEF TypeOK, HeadInv
      <4>4. \A r \in credits' : r.head <= Len(ledger')
        BY <2>longer DEF TypeOK, HeadInv, CreditRows
      <4> QED BY <2>longer, <4>1, <4>2, <4>3, <4>4 DEF HeadInv
    <3>3. CustodyHead'
      BY <2>longer, <3>1 DEF TypeOK, HeadInv, CustodyHead, CreditRows
    <3> QED BY <3>2, <3>3
  <2>6. ListInv'
    BY DEF ListInv, RetiredIndices
  <2>7. OneCreditPerEvidence' /\ CreditIsEarned'
    BY DEF TypeOK, OneCreditPerEvidence, CreditIsEarned
  <2>8. OnlyHolderRetires'
    BY DEF TypeOK, OnlyHolderRetires, CallInv
  <2> QED BY <2>1, <2>2, <2>3, <2>4, <2>5, <2>6, <2>7, <2>8
<1>9. ASSUME NEW c \in Calls, NEW in \in RetireInputs, StartRetire(c, in) PROVE IInv'
  <2> USE <1>9 DEF StartRetire, Goto
  <2>1. TypeOK'
    <3>1. input' \in [Calls -> IssueInputs \cup RetireInputs \cup {NoInput}]
      BY DEF TypeOK
    <3>2. pc' \in [Calls -> IssueSteps \cup RetireSteps \cup Ends \cup {"new"}]
      BY DEF TypeOK, RetireSteps
    <3> QED BY <3>1, <3>2 DEF TypeOK
  <2>2. CallInv'
    BY DEF TypeOK, CallInv, HasIndex, IssueSteps, RetireSteps
  <2>3. IndexInv' /\ IndexNeverCollides'
    BY DEF TypeOK, IndexInv, IndexNeverCollides, HasIndex
  <2>4. IdInv'
    BY DEF TypeOK, IdInv
  <2>5. HeadInv' /\ CustodyHead'
    BY DEF TypeOK, HeadInv, CustodyHead
  <2>6. ListInv'
    BY DEF ListInv, RetiredIndices
  <2>7. OneCreditPerEvidence' /\ CreditIsEarned'
    BY DEF TypeOK, OneCreditPerEvidence, CreditIsEarned
  <2>8. OnlyHolderRetires'
    <3>1. \A d \in Calls, r \in credits :
            input[d] = [skill |-> "retire", credit |-> r.id, by |-> r.holder] => input'[d] = input[d]
      BY DEF TypeOK, CallInv, NoInput
    <3>2. credits' = credits
      OBVIOUS
    <3> QED BY <3>1, <3>2 DEF OnlyHolderRetires
  <2> QED BY <2>1, <2>2, <2>3, <2>4, <2>5, <2>6, <2>7, <2>8
<1>10. ASSUME NEW c \in Calls, FindCreditById(c) PROVE IInv'
  <2> USE <1>10 DEF FindCreditById, Goto
  <2>1. TypeOK'
    BY DEF TypeOK, IssueSteps, RetireSteps, Ends
  <2>2. CallInv'
    <3>1. pc'[c] \in {"refused", "done", "markRetired"} /\ input' = input /\ credits' = credits
      BY DEF TypeOK
    <3>2. pc'[c] = "markRetired" =>
            \E r \in credits : r.id = input[c].credit /\ r.holder = input[c].by
      BY DEF TypeOK, CreditById
    <3>3. \A d \in Calls : d # c => pc'[d] = pc[d]
      BY DEF TypeOK
    <3>4. pc[c] \in RetireSteps
      BY DEF RetireSteps
    <3>5. verdicts' = verdicts
      OBVIOUS
    <3> QED BY ONLY <3>1, <3>2, <3>3, <3>4, <3>5, CallInv DEF CallInv, HasIndex, IssueSteps, RetireSteps
  <2>3. IndexInv' /\ IndexNeverCollides'
    BY DEF TypeOK, IndexInv, IndexNeverCollides, HasIndex
  <2>4. IdInv'
    BY DEF TypeOK, IdInv
  <2>5. HeadInv' /\ CustodyHead'
    BY DEF TypeOK, HeadInv, CustodyHead
  <2>6. ListInv'
    BY DEF ListInv, RetiredIndices
  <2>7. OneCreditPerEvidence' /\ CreditIsEarned'
    BY DEF TypeOK, OneCreditPerEvidence, CreditIsEarned
  <2>8. OnlyHolderRetires'
    BY DEF TypeOK, OnlyHolderRetires, CallInv
  <2> QED BY <2>1, <2>2, <2>3, <2>4, <2>5, <2>6, <2>7, <2>8
<1>11. ASSUME NEW c \in Calls, MarkRetired(c) PROVE IInv'
  <2>frame.
        /\ pc[c] = "markRetired" /\ pc' = [pc EXCEPT ![c] = "appendRetire"]
        /\ UNCHANGED <<verdicts, nextIndex, ledger, list, get, input, index, head>>
    BY <1>11 DEF MarkRetired, Goto
  <2>pc.
        /\ \A d \in Calls : d # c => pc'[d] = pc[d]
        /\ pc'[c] = "appendRetire"
    BY <2>frame DEF TypeOK
  <2> DEFINE After(r) == IF r.id = input[c].credit THEN [r EXCEPT !.status = "retired"] ELSE r
  <2>rows. credits' = {After(r) : r \in credits}
    BY <1>11 DEF MarkRetired
  <2>fields. \A r \in credits :
          /\ After(r) \in CreditRows
          /\ After(r).id = r.id /\ After(r).evidence = r.evidence /\ After(r).match = r.match
          /\ After(r).holder = r.holder /\ After(r).index = r.index /\ After(r).head = r.head
          /\ After(r).status = IF r.id = input[c].credit THEN "retired" ELSE r.status
    BY DEF TypeOK, CreditRows
  <2>image.
        /\ \A r \in credits : After(r) \in credits'
        /\ \A q \in credits' : \E r \in credits : q = After(r)
    BY <2>rows
  <2>asked. input[c] = [skill |-> "retire", credit |-> input[c].credit, by |-> input[c].by]
    BY <2>frame DEF CallInv, RetireSteps, RetireInputs
  <2> HIDE DEF After
  <2>1. TypeOK'
    BY <2>frame, <2>rows, <2>fields DEF TypeOK, RetireSteps
  <2>2. CallInv'
    <3>1. \A d \in Calls : pc'[d] = "markRetired" =>
            \E r \in credits' : r.id = input[d].credit /\ r.holder = input[d].by
      BY <2>frame, <2>fields, <2>image DEF TypeOK, CallInv
    <3> QED BY <2>frame, <3>1 DEF TypeOK, CallInv, HasIndex, IssueSteps, RetireSteps
  <2>3. IndexInv' /\ IndexNeverCollides'
    <3>1. IndexInv'
      <4>1. \A d \in Calls : HasIndex(d)' <=> HasIndex(d)
        BY <2>frame, <2>pc DEF HasIndex
      <4> QED BY <2>frame, <2>image, <2>fields, <4>1 DEF IndexInv
    <3>2. IndexNeverCollides'
      BY <2>frame DEF TypeOK, IndexNeverCollides
    <3> QED BY <3>1, <3>2
  <2>4. IdInv'
    <3>1. \A r \in credits : pc'[r.id] = IF r.id = c THEN "appendRetire" ELSE pc[r.id]
      BY <2>frame DEF TypeOK, CreditRows
    <3> QED BY <2>frame, <2>image, <2>fields, <3>1 DEF IdInv
  <2>5. HeadInv' /\ CustodyHead'
    <3>1. HeadInv'
      <4>1. \A d \in Calls : /\ pc'[d] = "insertCredit" => pc[d] = "insertCredit"
                             /\ pc[d] = "done" => pc'[d] = "done"
        BY <2>frame, <2>pc
      <4>2. \A r \in credits' : r.head <= Len(ledger)
        BY <2>image, <2>fields DEF HeadInv
      <4> QED BY <2>frame, <4>1, <4>2 DEF HeadInv
    <3>2. CustodyHead'
      BY <2>frame, <2>image, <2>fields DEF CustodyHead
    <3> QED BY <3>1, <3>2
  <2>6. ListInv'
    <3>1. \A r \in credits : r.status = "retired" =>
            After(r) \in credits' /\ After(r).status = "retired" /\ After(r).index = r.index
      BY <2>frame, <2>rows, <2>fields
    <3>2. RetiredIndices \subseteq RetiredIndices'
      BY <3>1 DEF RetiredIndices
    <3> QED BY <2>frame, <3>2 DEF ListInv
  <2>7. OneCreditPerEvidence' /\ CreditIsEarned'
    <3>1. OneCreditPerEvidence'
      BY <2>frame, <2>image, <2>fields DEF OneCreditPerEvidence
    <3>2. CreditIsEarned'
      BY <2>frame, <2>image, <2>fields DEF CreditIsEarned
    <3> QED BY <3>1, <3>2
  <2>8. OnlyHolderRetires'
    <3>1. PICK h \in credits : h.id = input[c].credit /\ h.holder = input[c].by
      BY <2>frame DEF CallInv
    <3>2. \A r \in credits : r.id = input[c].credit => r.holder = input[c].by
      BY <3>1 DEF IdInv
    <3>3. ASSUME NEW r \in credits, After(r).status = "retired"
          PROVE  \E d \in Calls : input[d] = [skill |-> "retire", credit |-> r.id, by |-> r.holder]
      <4>1. CASE r.id = input[c].credit
        BY <4>1, <2>asked, <3>2
      <4>2. CASE r.id # input[c].credit
        BY <4>2, <2>fields, <3>3 DEF OnlyHolderRetires
      <4> QED BY <4>1, <4>2
    <3>4. ASSUME NEW q \in credits', q.status = "retired"
          PROVE  \E d \in Calls : input[d] = [skill |-> "retire", credit |-> q.id, by |-> q.holder]
      <4>1. PICK r \in credits : q = After(r)
        BY <2>image
      <4>2. q.id = r.id /\ q.holder = r.holder
        BY <4>1, <2>fields
      <4> QED BY <3>3, <3>4, <4>1, <4>2
    <3> QED BY <2>frame, <3>4 DEF OnlyHolderRetires
  <2> QED BY <2>1, <2>2, <2>3, <2>4, <2>5, <2>6, <2>7, <2>8
<1>12. ASSUME NEW c \in Calls, AppendRetire(c) PROVE IInv'
  <2> USE <1>12 DEF AppendRetire, Goto
  <2>step. pc[c] \in RetireSteps
    BY DEF RetireSteps
  <2>subject. input[c].credit \in Calls
    BY <2>step DEF CallInv, RetireInputs
  <2>entry.
        /\ Decision("retireCredit", input[c].credit) \in DecisionRows
        /\ ledger' = Append(ledger, Decision("retireCredit", input[c].credit))
    BY <2>subject DEF DecisionRows, Decision
  <2>longer.
        /\ ledger' \in Seq(DecisionRows) /\ Len(ledger') = Len(ledger) + 1
        /\ DOMAIN ledger = 1..Len(ledger) /\ DOMAIN ledger' = 1..Len(ledger) + 1
        /\ \A i \in 1..Len(ledger) : ledger'[i] = ledger[i]
        /\ ledger'[Len(ledger) + 1] = Decision("retireCredit", input[c].credit)
    BY <2>entry DEF TypeOK
  <2>1. TypeOK'
    BY <2>longer DEF TypeOK, IssueSteps, RetireSteps, Ends
  <2>2. CallInv'
    BY DEF TypeOK, CallInv, HasIndex, IssueSteps, RetireSteps
  <2>3. IndexInv' /\ IndexNeverCollides'
    BY DEF TypeOK, IndexInv, IndexNeverCollides, HasIndex
  <2>4. IdInv'
    BY DEF TypeOK, IdInv
  <2>5. HeadInv' /\ CustodyHead'
    <3>1. \A i \in DOMAIN ledger', d \in Calls :
            ledger'[i] = Decision("issueCredit", d) => i \in 1..Len(ledger)
      BY <2>longer DEF Decision
    <3>2. HeadInv'
      <4>1. \A f \in Evidence : verdicts'[f] # "none" =>
              \E i \in DOMAIN ledger' : ledger'[i] = Decision("verifyEvidence", f)
        BY <2>longer DEF TypeOK, HeadInv
      <4>2. \A d \in Calls : pc'[d] = "insertCredit" =>
              /\ head[d] <= Len(ledger) + 1
              /\ \E i \in 1..head[d] : ledger'[i] = Decision("verifyEvidence", input[d].evidence)
        <5> TAKE d \in Calls
        <5> HAVE pc'[d] = "insertCredit"
        <5>1. head[d] \in Nat /\ head[d] <= Len(ledger)
          BY DEF TypeOK, HeadInv
        <5>2. PICK i \in 1..head[d] : ledger[i] = Decision("verifyEvidence", input[d].evidence)
          BY DEF TypeOK, HeadInv
        <5>3. ledger'[i] = ledger[i]
          BY <2>longer, <5>1
        <5> QED BY <2>longer, <5>1, <5>2, <5>3
      <4>3. \A i \in DOMAIN ledger', d \in Calls :
              ledger'[i] = Decision("issueCredit", d) => pc'[d] = "done"
        BY <2>longer, <3>1 DEF TypeOK, HeadInv
      <4>4. \A r \in credits' : r.head <= Len(ledger')
        BY <2>longer DEF TypeOK, HeadInv, CreditRows
      <4> QED BY <2>longer, <4>1, <4>2, <4>3, <4>4 DEF HeadInv
    <3>3. CustodyHead'
      BY <2>longer, <3>1 DEF TypeOK, HeadInv, CustodyHead, CreditRows
    <3> QED BY <3>2, <3>3
  <2>6. ListInv'
    BY DEF ListInv, RetiredIndices
  <2>7. OneCreditPerEvidence' /\ CreditIsEarned'
    BY DEF TypeOK, OneCreditPerEvidence, CreditIsEarned
  <2>8. OnlyHolderRetires'
    BY DEF TypeOK, OnlyHolderRetires, CallInv
  <2> QED BY <2>1, <2>2, <2>3, <2>4, <2>5, <2>6, <2>7, <2>8
<1>13. ASSUME NEW c \in Calls, Fail(c) PROVE IInv'
  <2> USE <1>13 DEF Fail, Goto, Running
  <2>1. TypeOK'
    BY DEF TypeOK, IssueSteps, RetireSteps, Ends
  <2>2. CallInv'
    BY DEF TypeOK, CallInv, HasIndex, IssueSteps, RetireSteps
  <2>3. IndexInv' /\ IndexNeverCollides'
    BY DEF TypeOK, IndexInv, IndexNeverCollides, HasIndex
  <2>4. IdInv'
    BY DEF TypeOK, IdInv
  <2>5. HeadInv' /\ CustodyHead'
    BY DEF TypeOK, HeadInv, CustodyHead, IssueSteps, RetireSteps
  <2>6. ListInv'
    BY DEF ListInv, RetiredIndices
  <2>7. OneCreditPerEvidence' /\ CreditIsEarned'
    BY DEF TypeOK, OneCreditPerEvidence, CreditIsEarned
  <2>8. OnlyHolderRetires'
    BY DEF TypeOK, OnlyHolderRetires, CallInv
  <2> QED BY <2>1, <2>2, <2>3, <2>4, <2>5, <2>6, <2>7, <2>8
<1>14. ASSUME NEW g \in Gets, ServeList(g) PROVE IInv'
  <2>frame. UNCHANGED <<verdicts, credits, nextIndex, ledger, pc, input, index, head>>
    BY <1>14 DEF ServeList, ReadCredits, SendList, ListFails
  <2>bits. RetiredIndices \subseteq Nat /\ RetiredIndices' = RetiredIndices
    BY <2>frame DEF TypeOK, RetiredIndices, CreditRows
  <2>get. \/ /\ get' = [get EXCEPT ![g] = [state |-> "read", before |-> list, bits |-> RetiredIndices]]
             /\ list' = list
          \/ /\ get' = [get EXCEPT ![g] = NoGet]
             /\ list' = list \/ list' = list \cup get[g].bits
    BY <1>14 DEF ServeList, ReadCredits, SendList, ListFails
  <2>1. TypeOK'
    <3>1. list' \subseteq Nat
      <4>1. list \subseteq RetiredIndices /\ get[g].bits \subseteq RetiredIndices
        BY DEF ListInv
      <4> QED BY <2>get, <2>bits, <4>1
    <3>2. NoGet \in GetRows /\ [state |-> "read", before |-> list, bits |-> RetiredIndices] \in GetRows
      BY <2>bits DEF TypeOK, GetRows, NoGet
    <3>3. get \in [Gets -> GetRows]
      BY DEF TypeOK
    <3>4. get' \in [Gets -> GetRows]
      <4>1. CASE get' = [get EXCEPT ![g] = [state |-> "read", before |-> list, bits |-> RetiredIndices]]
        BY <4>1, <3>2, <3>3
      <4>2. CASE get' = [get EXCEPT ![g] = NoGet]
        BY <4>2, <3>2, <3>3
      <4> QED BY <2>get, <4>1, <4>2
    <3> QED BY <2>frame, <3>1, <3>4 DEF TypeOK
  <2>2. CallInv'
    BY <2>frame DEF CallInv, HasIndex
  <2>3. IndexInv' /\ IndexNeverCollides'
    BY <2>frame DEF IndexInv, IndexNeverCollides, HasIndex
  <2>4. IdInv'
    BY <2>frame DEF IdInv
  <2>5. HeadInv' /\ CustodyHead'
    BY <2>frame DEF HeadInv, CustodyHead
  <2>6. ListInv'
    <3>1. /\ \A h \in Gets \ {g} : get'[h] = get[h]
          /\ \/ get'[g].before = list /\ get'[g].bits = RetiredIndices
             \/ get'[g].before = {} /\ get'[g].bits = {}
      BY <2>get DEF TypeOK, NoGet
    <3>2. list' \subseteq RetiredIndices /\ list \subseteq RetiredIndices
      BY <2>get DEF ListInv
    <3>3. \A h \in Gets : get'[h].before \subseteq get'[h].bits /\ get'[h].bits \subseteq RetiredIndices
      BY <3>1, <3>2 DEF ListInv
    <3>4. \A h \in Gets \ {g} : get'[g].bits \subseteq get'[h].bits \/ get'[h].bits \subseteq get'[g].bits
      BY <3>1, <3>3
    <3>5. \A h, k \in Gets : get'[k].bits \subseteq get'[h].bits \/ get'[h].bits \subseteq get'[k].bits
      BY <3>1, <3>4 DEF ListInv
    <3> QED BY <2>bits, <3>2, <3>3, <3>5 DEF ListInv
  <2>7. OneCreditPerEvidence' /\ CreditIsEarned'
    BY <2>frame DEF OneCreditPerEvidence, CreditIsEarned
  <2>8. OnlyHolderRetires'
    BY <2>frame DEF OnlyHolderRetires
  <2> QED BY <2>1, <2>2, <2>3, <2>4, <2>5, <2>6, <2>7, <2>8
<1>15. CASE UNCHANGED vars
  <2>1. ListInv'
    BY <1>15 DEF vars, ListInv, RetiredIndices
  <2>2. TypeOK' /\ CallInv' /\ IndexInv' /\ IdInv' /\ HeadInv'
    BY <1>15 DEF vars, TypeOK, CallInv, IndexInv, IdInv, HeadInv, HasIndex
  <2> QED BY <1>15, <2>1, <2>2 DEF vars, OneCreditPerEvidence, CreditIsEarned, IndexNeverCollides,
          CustodyHead, OnlyHolderRetires
<1> QED
  BY <1>1, <1>2, <1>3, <1>4, <1>5, <1>6, <1>7, <1>8, <1>9, <1>10, <1>11, <1>12, <1>13, <1>14, <1>15 DEF Next

THEOREM Invariance == Spec => []IInv
<1> QED BY InitIInv, NextIInv, PTL DEF Spec

-----------------------------------------------------------------------------
(* What the ledger says of credits, from IInv: rows stay, retired ones stay *)
(* retired, and a decision is appended by a call whose row is there.        *)

LEMMA RowsStay ==
  ASSUME IInv, [Next]_vars
  PROVE  \A id : (Has(id) => Has(id)') /\ (Retired(id) => Retired(id)')
<1>1. CASE \E c \in Calls : InsertCredit(c)
  <2>1. credits \subseteq credits'
    BY <1>1 DEF InsertCredit
  <2> QED BY <2>1 DEF Has, Retired
<1>2. CASE \E c \in Calls : MarkRetired(c)
  <2>1. PICK c \in Calls : MarkRetired(c)
    BY <1>2
  <2>2. credits' = {IF r.id = input[c].credit THEN [r EXCEPT !.status = "retired"] ELSE r : r \in credits}
    BY <2>1 DEF MarkRetired
  <2>3. ASSUME NEW r \in credits
        PROVE  \E q \in credits' : q.id = r.id /\ (r.status = "retired" => q.status = "retired")
    <3>1. r \in CreditRows
      BY DEF IInv, TypeOK
    <3>2. CASE r.id = input[c].credit
      <4>1. [r EXCEPT !.status = "retired"] \in credits'
        BY <2>2, <3>2
      <4>2. [r EXCEPT !.status = "retired"].id = r.id /\ [r EXCEPT !.status = "retired"].status = "retired"
        BY <3>1 DEF CreditRows
      <4> QED BY <4>1, <4>2
    <3>3. CASE r.id # input[c].credit
      BY <2>2, <3>3
    <3> QED BY <3>2, <3>3
  <2> QED BY <2>3 DEF Has, Retired
<1>3. CASE ~ (\E c \in Calls : InsertCredit(c) \/ MarkRetired(c))
  <2>1. credits' = credits
    BY <1>3 DEF Next, vars, VerifierRecords, StartIssue, FindVerification, FindCreditByEvidence,
       AllocateIndex, ReadHead, AppendIssue, StartRetire, FindCreditById, AppendRetire, Fail,
       ServeList, ReadCredits, SendList, ListFails
  <2> QED BY <2>1 DEF Has, Retired
<1> QED BY <1>1, <1>2, <1>3

LEMMA OneDecisionAtATime ==
  ASSUME IInv, [Next]_vars
  PROVE  \/ ledger' = ledger
         \/ \E e \in Evidence : ledger' = Append(ledger, Decision("verifyEvidence", e))
         \/ \E c \in Calls : /\ ledger' = Append(ledger, Decision("issueCredit", c))
                             /\ pc[c] = "appendIssue"
         \/ \E c \in Calls : /\ ledger' = Append(ledger, Decision("retireCredit", input[c].credit))
                             /\ pc[c] = "appendRetire"
BY DEF Next, vars, VerifierRecords, StartIssue, FindVerification, FindCreditByEvidence, AllocateIndex,
   ReadHead, InsertCredit, AppendIssue, StartRetire, FindCreditById, MarkRetired, AppendRetire, Fail,
   ServeList, ReadCredits, SendList, ListFails

(* A call comes to its append only through the step that writes its row.    *)
LEMMA RowFirst ==
  ASSUME IInv, RecordInv, [Next]_vars, NEW c \in Calls
  PROVE  /\ pc'[c] = "appendIssue" => Has(c)'
         /\ \A id : pc'[c] = "appendRetire" /\ input'[c].credit = id => Retired(id)'
<1>1. CASE InsertCredit(c)
  <2>1. pc'[c] = "appendIssue" => Row(c) \in credits' /\ Row(c).id = c
    BY <1>1 DEF InsertCredit, Goto, IInv, TypeOK, Row
  <2>2. pc'[c] # "appendRetire"
    BY <1>1 DEF InsertCredit, Goto, IInv, TypeOK
  <2> QED BY <2>1, <2>2 DEF Has
<1>2. CASE MarkRetired(c)
  <2>1. pc'[c] = "appendRetire" /\ input' = input
    BY <1>2 DEF MarkRetired, Goto, IInv, TypeOK
  <2>2. PICK r \in credits : r.id = input[c].credit
    BY <1>2 DEF MarkRetired, IInv, CallInv
  <2>3. r \in CreditRows
    BY DEF IInv, TypeOK
  <2>4. [r EXCEPT !.status = "retired"] \in credits'
    BY <1>2, <2>2 DEF MarkRetired
  <2>5. [r EXCEPT !.status = "retired"].id = r.id /\ [r EXCEPT !.status = "retired"].status = "retired"
    BY <2>3 DEF CreditRows
  <2>6. \A id : input[c].credit = id => Retired(id)'
    BY <2>2, <2>4, <2>5 DEF Retired
  <2> QED BY <2>1, <2>6
<1>3. CASE ~ InsertCredit(c) /\ ~ MarkRetired(c)
  <2>1. /\ pc'[c] = "appendIssue" => pc[c] = "appendIssue"
        /\ pc'[c] = "appendRetire" => pc[c] = "appendRetire" /\ input'[c] = input[c]
    <3>1. CASE pc'[c] = pc[c] /\ input'[c] = input[c]
      BY <3>1
    <3>2. CASE pc'[c] \notin {"appendIssue", "appendRetire"}
      BY <3>2
    <3>3. \A d \in Calls \ {c} : \A step : Goto(d, step) => pc'[c] = pc[c]
      BY DEF Goto, IInv, TypeOK
    <3>4. \A step : Goto(c, step) => pc'[c] = step
      BY DEF Goto, IInv, TypeOK
    <3>5. \A d \in Calls \ {c} : ~ (pc'[c] = pc[c] /\ input'[c] = input[c]) =>
            /\ \A in \in IssueInputs : ~ StartIssue(d, in)
            /\ \A in \in RetireInputs : ~ StartRetire(d, in)
      BY <3>3 DEF StartIssue, StartRetire, IInv, TypeOK
    <3>6. \A d \in Calls \ {c} : ~ (pc'[c] = pc[c] /\ input'[c] = input[c]) =>
            ~ (\/ FindVerification(d) \/ FindCreditByEvidence(d) \/ AllocateIndex(d) \/ ReadHead(d)
               \/ InsertCredit(d) \/ AppendIssue(d) \/ FindCreditById(d) \/ MarkRetired(d)
               \/ AppendRetire(d) \/ Fail(d))
      BY <3>3 DEF FindVerification, FindCreditByEvidence, AllocateIndex, ReadHead, InsertCredit, AppendIssue,
         FindCreditById, MarkRetired, AppendRetire, Fail
    <3>7. pc'[c] \in {"appendIssue", "appendRetire"} =>
            ~ (\/ \E in \in IssueInputs : StartIssue(c, in)
               \/ FindVerification(c) \/ FindCreditByEvidence(c) \/ AllocateIndex(c) \/ ReadHead(c)
               \/ AppendIssue(c)
               \/ \E in \in RetireInputs : StartRetire(c, in)
               \/ FindCreditById(c) \/ AppendRetire(c) \/ Fail(c))
      BY <3>4 DEF StartIssue, StartRetire, FindVerification, FindCreditByEvidence, AllocateIndex, ReadHead,
         AppendIssue, FindCreditById, AppendRetire, Fail
    <3>8. /\ \A e \in Evidence, v \in Verdicts : VerifierRecords(e, v) => UNCHANGED <<pc, input>>
          /\ (\E g \in Gets : ServeList(g)) \/ UNCHANGED vars => UNCHANGED <<pc, input>>
      BY DEF VerifierRecords, ServeList, ReadCredits, SendList, ListFails, vars
    <3> QED BY <1>3, <3>1, <3>2, <3>5, <3>6, <3>7, <3>8 DEF Next
  <2>2. \A id : (Has(id) => Has(id)') /\ (Retired(id) => Retired(id)')
    BY RowsStay
  <2>3. \A id : pc[c] = "appendRetire" /\ input[c].credit = id => Retired(id)
    BY DEF RecordInv
  <2>4. pc[c] = "appendIssue" => Has(c)
    BY DEF RecordInv
  <2> QED BY <2>1, <2>2, <2>3, <2>4
<1> QED BY <1>1, <1>2, <1>3

LEMMA NextRecordInv == IInv /\ RecordInv /\ [Next]_vars => RecordInv'
<1> SUFFICES ASSUME IInv, RecordInv, [Next]_vars PROVE RecordInv'
  OBVIOUS
<1>1. \A id : (Has(id) => Has(id)') /\ (Retired(id) => Retired(id)')
  BY RowsStay
<1>2. \A c \in Calls : pc'[c] = "appendIssue" => Has(c)'
  BY RowFirst
<1>r. (\A c \in Calls : pc[c] = "appendRetire" => Retired(input[c].credit))'
  <2>1. \A c \in Calls : \A id : pc'[c] = "appendRetire" /\ input'[c].credit = id => Retired(id)'
    BY RowFirst
  <2> QED BY <2>1 DEF Retired
<1>3. CASE ledger' = ledger
  <2>1. /\ \A i \in DOMAIN ledger, c \in Calls : ledger[i] = Decision("issueCredit", c) => Has(c)'
        /\ \A i \in DOMAIN ledger, c \in Calls : ledger[i] = Decision("retireCredit", c) => Retired(c)'
    BY <1>1 DEF RecordInv
  <2> QED BY <1>2, <1>r, <1>3, <2>1 DEF RecordInv
<1>4. ASSUME NEW d \in DecisionRows, ledger' = Append(ledger, d),
             \A c \in Calls : d = Decision("issueCredit", c) => Has(c) /\ pc[c] = "appendIssue",
             \A c \in Calls : d = Decision("retireCredit", c) => Retired(c)
      PROVE  RecordInv'
  <2>1. /\ DOMAIN ledger = 1..Len(ledger) /\ DOMAIN ledger' = 1..Len(ledger) + 1
        /\ Len(ledger) \in Nat
        /\ \A i \in 1..Len(ledger) : ledger'[i] = ledger[i]
        /\ ledger'[Len(ledger) + 1] = d
    BY <1>4 DEF IInv, TypeOK
  <2>2. ASSUME NEW i \in DOMAIN ledger' PROVE i \in DOMAIN ledger \/ i = Len(ledger) + 1
    BY <2>1
  <2>3. \A i \in DOMAIN ledger', c \in Calls : ledger'[i] = Decision("issueCredit", c) => Has(c)'
    BY <1>1, <1>4, <2>1, <2>2 DEF RecordInv
  <2>4. \A i \in DOMAIN ledger', c \in Calls : ledger'[i] = Decision("retireCredit", c) => Retired(c)'
    BY <1>1, <1>4, <2>1, <2>2 DEF RecordInv
  <2>5. \A i \in DOMAIN ledger, c \in Calls : ledger[i] = Decision("issueCredit", c) => d # ledger[i]
    BY <1>4 DEF IInv, HeadInv
  <2>6. \A i, j \in DOMAIN ledger', c \in Calls :
          ledger'[i] = Decision("issueCredit", c) /\ ledger'[j] = ledger'[i] => i = j
    BY <2>1, <2>2, <2>5 DEF RecordInv
  <2> QED BY <1>2, <1>r, <2>3, <2>4, <2>6 DEF RecordInv
<1>5. ASSUME NEW e \in Evidence, ledger' = Append(ledger, Decision("verifyEvidence", e)) PROVE RecordInv'
  <2>1. Decision("verifyEvidence", e) \in DecisionRows
    BY DEF Decision, DecisionRows
  <2>2. \A c : /\ Decision("verifyEvidence", e) # Decision("issueCredit", c)
              /\ Decision("verifyEvidence", e) # Decision("retireCredit", c)
    BY DEF Decision
  <2> QED BY <1>4, <1>5, <2>1, <2>2
<1>6. ASSUME NEW c \in Calls, ledger' = Append(ledger, Decision("issueCredit", c)), pc[c] = "appendIssue"
      PROVE  RecordInv'
  <2>1. Decision("issueCredit", c) \in DecisionRows
    BY DEF Decision, DecisionRows
  <2>2. \A b : /\ Decision("issueCredit", c) = Decision("issueCredit", b) => b = c
              /\ Decision("issueCredit", c) # Decision("retireCredit", b)
    BY DEF Decision
  <2>3. Has(c)
    BY <1>6 DEF RecordInv
  <2> QED BY <1>4, <1>6, <2>1, <2>2, <2>3
<1>7. ASSUME NEW c \in Calls, ledger' = Append(ledger, Decision("retireCredit", input[c].credit)),
             pc[c] = "appendRetire"
      PROVE  RecordInv'
  <2>1. input[c] \in RetireInputs
    BY <1>7 DEF IInv, CallInv, RetireSteps
  <2>2. Decision("retireCredit", input[c].credit) \in DecisionRows
    BY <2>1 DEF Decision, DecisionRows, RetireInputs
  <2>3. PICK b : b = input[c].credit
    OBVIOUS
  <2>4. Retired(b)
    BY <1>7, <2>3 DEF RecordInv
  <2>5. \A x \in Calls : /\ Decision("retireCredit", b) = Decision("retireCredit", x) => Retired(x)
                        /\ Decision("retireCredit", b) # Decision("issueCredit", x)
    BY <2>4 DEF Decision
  <2> QED BY <1>4, <1>7, <2>2, <2>3, <2>5
<1> QED BY OneDecisionAtATime, <1>3, <1>5, <1>6, <1>7

-----------------------------------------------------------------------------
(* Every variable of the registry keeps its type.                           *)
THEOREM TypeCorrect == Spec => []TypeOK
<1>1. IInv => TypeOK
  BY DEF IInv
<1> QED BY Invariance, <1>1, PTL

(* The double-counting guard of issueCredit: however many issues present    *)
(* one batch of evidence at once, it earns at most one credit.              *)
THEOREM NoDoubleCounting == Spec => []OneCreditPerEvidence
<1>1. IInv => OneCreditPerEvidence
  BY DEF IInv
<1> QED BY Invariance, <1>1, PTL

(* Whatever was checked seven awaits before the INSERT still holds when the *)
(* credit is there: accepted evidence, of that match, held by the lot's     *)
(* producer.                                                                *)
THEOREM CreditsAreEarned == Spec => []CreditIsEarned
<1>1. IInv => CreditIsEarned
  BY DEF IInv
<1> QED BY Invariance, <1>1, PTL

(* The sequence gives every credit a bit of its own: the unique index on    *)
(* the status-list index never refuses an INSERT.                           *)
THEOREM IndicesNeverCollide == Spec => []IndexNeverCollides
<1>1. IInv => IndexNeverCollides
  BY DEF IInv
<1> QED BY Invariance, <1>1, PTL

(* Nobody's credit reads as retired because another's is.                   *)
THEOREM ListIsTrue == Spec => []RevokedMeansRetired
<1>1. IInv => RevokedMeansRetired
  BY DEF IInv, ListInv, RetiredIndices, IndexInv, RevokedMeansRetired
<1> QED BY Invariance, <1>1, PTL

(* Whoever asks for the status list again is shown no less than any list    *)
(* sent before showed, and answers that overlap differ as two moments of    *)
(* one growing list (GET /status/credits, index.ts).                        *)
THEOREM ListsShowNoLess == Spec => AskingAgainShowsNoLess
<1>1. IInv => \A g \in Gets :
        /\ get[g].before \subseteq get[g].bits
        /\ \A h \in Gets : get[g].bits \subseteq get[h].bits \/ get[h].bits \subseteq get[g].bits
  BY DEF IInv, ListInv
<1>2. IInv => [\A g \in Gets : SendList(g) =>
                 /\ get[g].before \subseteq get[g].bits
                 /\ \A h \in Gets : get[h].state = "read" =>
                      get[g].bits \subseteq get[h].bits \/ get[h].bits \subseteq get[g].bits]_vars
  BY <1>1
<1> QED BY Invariance, <1>2, PTL DEF AskingAgainShowsNoLess

(* The custody head signed into a credential covers the verifier's decision *)
(* on its evidence, and not the decision to issue the credit itself.        *)
THEOREM CustodyHeadCovers == Spec => []CustodyHead
<1>1. IInv => CustodyHead
  BY DEF IInv
<1> QED BY Invariance, <1>1, PTL

(* Only its holder ever retired a credit.                                   *)
THEOREM HolderRetires == Spec => []OnlyHolderRetires
<1>1. IInv => OnlyHolderRetires
  BY DEF IInv
<1> QED BY Invariance, <1>1, PTL

(* The decision log tells the truth about credits: an issue is recorded at  *)
(* most once, and of a credit that is there; a retirement only of a credit  *)
(* that is retired, although in each case row and entry are separate writes *)
(* with room for a crash between them.                                      *)
THEOREM LedgerTellsTheTruth == Spec => []DecisionsAreTrue
<1>1. Init => RecordInv
  BY DEF Init, RecordInv
<1>2. IInv /\ RecordInv => DecisionsAreTrue
  <2> SUFFICES ASSUME IInv, RecordInv, NEW c \in Calls
               PROVE  /\ Times(Decision("issueCredit", c)) <= Cardinality(CreditById(c))
                      /\ Times(Decision("retireCredit", c)) > 0 =>
                           \E r \in CreditById(c) : r.status = "retired"
    BY DEF DecisionsAreTrue
  <2> DEFINE At(d) == {i \in DOMAIN ledger : ledger[i] = d}
  <2>1. Times(Decision("issueCredit", c)) <= Cardinality(CreditById(c))
    <3>1. CreditById(c) = {} \/ \E r : CreditById(c) = {r}
      BY DEF IInv, IdInv, CreditById
    <3>2. Cardinality(CreditById(c)) \in {0, 1} /\ (CreditById(c) # {} => Cardinality(CreditById(c)) = 1)
      BY <3>1, FS_Singleton, FS_EmptySet
    <3>3. At(Decision("issueCredit", c)) = {} \/ \E i : At(Decision("issueCredit", c)) = {i}
      BY DEF RecordInv
    <3>4. At(Decision("issueCredit", c)) # {} => CreditById(c) # {}
      BY DEF RecordInv, Has, CreditById
    <3>5. Times(Decision("issueCredit", c)) = Cardinality(At(Decision("issueCredit", c)))
      BY DEF Times
    <3> QED BY <3>2, <3>3, <3>4, <3>5, FS_Singleton, FS_EmptySet
  <2>2. ASSUME Times(Decision("retireCredit", c)) > 0
        PROVE  \E r \in CreditById(c) : r.status = "retired"
    <3>1. At(Decision("retireCredit", c)) # {}
      BY <2>2, FS_EmptySet DEF Times
    <3> QED BY <3>1 DEF RecordInv, Retired, CreditById
  <2> QED BY <2>1, <2>2
<1>3. Spec => []RecordInv
  BY <1>1, NextRecordInv, Invariance, PTL DEF Spec
<1> QED BY Invariance, <1>2, <1>3, PTL

-----------------------------------------------------------------------------
(* The arithmetic of a batch.                                               *)

(* A rounded number is within half a unit of it.                            *)
LEMMA Rounding ==
  ASSUME NEW x \in Int
  PROVE  /\ Round3(x) \in Int
         /\ 10000 * Round3(x) <= x + 5000
         /\ x + 5000 < 10000 * Round3(x) + 10000
BY DEF Round3

LEMMA RoundingKeepsOrder ==
  ASSUME NEW x \in Int, NEW y \in Int, x <= y
  PROVE  Round3(x) <= Round3(y)
BY Rounding

LEMMA TimesKeepsOrder ==
  ASSUME NEW n \in Nat, NEW x \in Int, NEW y \in Int, x <= y
  PROVE  n * x \in Int /\ n * y \in Int /\ n * x <= n * y
<1>1. y - x \in Nat
  OBVIOUS
<1>2. \A m \in Nat : n * m >= 0
  OBVIOUS
<1>3. n * (y - x) = n * y - n * x
  OBVIOUS
<1> QED BY <1>1, <1>2, <1>3

(* What a credit is worth, of any batch: its parts add up to it but for     *)
(* their rounding, each debit is of its own mass, quality and nearness      *)
(* never make it worth less, and no score makes it more than the lot could  *)
(* have sequestered (carbon.ts).                                            *)
LEMMA CreditOfAnyBatch ==
  ASSUME NEW feedstock \in Nat, NEW biochar \in Nat, NEW km \in Nat, NEW quality \in Int
  PROVE  AddsUp(feedstock, biochar, km, quality)
<1> DEFINE G(q) == Sequestered(biochar, Clamped(q))
           T(k) == Transport(feedstock, k)
           P    == Process(biochar)
           Worth(k, q) == ComputeCredit(feedstock, biochar, k, q)
<1>1. \A q \in Int : Clamped(q) \in 0..10 /\ Clamped(q) <= Clamped(q + 1)
  BY DEF Clamped
<1>2. P \in Int /\ biochar * 1437 \in Nat /\ feedstock * 140 \in Nat
  BY DEF Process
<1>3. ASSUME NEW q \in Int
      PROVE  G(q) \in Nat /\ G(q) <= G(q + 1)
  <2>1. Clamped(q) \in Int /\ Clamped(q + 1) \in Int /\ 0 <= Clamped(q)
        /\ Clamped(q) <= Clamped(q + 1)
    BY <1>1
  <2>2. /\ biochar * 1437 * 0 <= biochar * 1437 * Clamped(q)
        /\ biochar * 1437 * Clamped(q) <= biochar * 1437 * Clamped(q + 1)
        /\ biochar * 1437 * Clamped(q) \in Int
    BY <1>2, <2>1, TimesKeepsOrder
  <2> QED BY <1>2, <2>2 DEF Sequestered
<1>4. ASSUME NEW k \in Nat
      PROVE  T(k) \in Int /\ (k > 0 => T(k - 1) \in Int /\ T(k - 1) <= T(k))
  <2>1. T(k) = (feedstock * 140) * k /\ T(k) \in Int
    BY DEF Transport
  <2>2. k > 0 => T(k - 1) = (feedstock * 140) * (k - 1)
    BY DEF Transport
  <2>3. k > 0 => (feedstock * 140) * (k - 1) <= (feedstock * 140) * k
                 /\ (feedstock * 140) * (k - 1) \in Int
    BY <1>2, TimesKeepsOrder
  <2> QED BY <2>1, <2>2, <2>3
<1>5. \A k, q : /\ Worth(k, q).net = Round3(G(q) - T(k) - P)
                /\ Worth(k, q).gross = Round3(G(q))
                /\ Worth(k, q).transport = Round3(T(k))
                /\ Worth(k, q).process = Round3(P)
  BY DEF ComputeCredit
<1>6. OutputFitsLot(feedstock, biochar) =>
        G(quality) <= Sequestered(feedstock * 40, 10) /\ Sequestered(feedstock * 40, 10) \in Int
  <2> SUFFICES ASSUME biochar <= feedstock * 40
               PROVE  G(quality) <= Sequestered(feedstock * 40, 10)
                      /\ Sequestered(feedstock * 40, 10) \in Int
    BY DEF OutputFitsLot
  <2>1. Clamped(quality) \in Int /\ Clamped(quality) <= 10
    BY <1>1
  <2>2. biochar * 1437 * Clamped(quality) <= biochar * 1437 * 10
    BY <1>2, <2>1, TimesKeepsOrder
  <2>3. biochar * 1437 * 10 <= feedstock * 40 * 1437 * 10
    OBVIOUS
  <2>4. biochar * 1437 * Clamped(quality) \in Int
    BY <1>2, <2>1, TimesKeepsOrder
  <2> QED BY <2>2, <2>3, <2>4 DEF Sequestered
<1> HIDE DEF G, T, P, Worth
<1>7. /\ Worth(km, quality).net
           - (Worth(km, quality).gross - Worth(km, quality).transport - Worth(km, quality).process) \in -2..2
  <2>1. G(quality) \in Int /\ T(km) \in Int /\ P \in Int
    BY <1>2, <1>3, <1>4
  <2>2. G(quality) - T(km) - P \in Int
    BY <2>1
  <2>3. ASSUME NEW g \in Int, NEW t \in Int, NEW p \in Int
        PROVE  Round3(g - t - p) - (Round3(g) - Round3(t) - Round3(p)) \in -2..2
    <3> DEFINE rn == Round3(g - t - p)
               rg == Round3(g)
               rt == Round3(t)
               rp == Round3(p)
    <3>1. g - t - p \in Int
      OBVIOUS
    <3>2. rn \in Int /\ rg \in Int /\ rt \in Int /\ rp \in Int
      BY <3>1, Rounding
    <3>3. 10000 * rn <= g - t - p + 5000 /\ g - t - p + 5000 < 10000 * rn + 10000
      BY <3>1, Rounding
    <3>4. /\ 10000 * rg <= g + 5000 /\ g + 5000 < 10000 * rg + 10000
          /\ 10000 * rt <= t + 5000 /\ t + 5000 < 10000 * rt + 10000
          /\ 10000 * rp <= p + 5000 /\ p + 5000 < 10000 * rp + 10000
      BY Rounding
    <3> HIDE DEF rn, rg, rt, rp
    <3>5. rn - (rg - rt - rp) \in -2..2
      BY <3>2, <3>3, <3>4
    <3> QED BY <3>5 DEF rn, rg, rt, rp
  <2> QED BY <1>5, <2>1, <2>3
<1>8. Worth(km, quality).net <= Worth(km, quality + 1).net
  <2>1. /\ G(quality) - T(km) - P \in Int /\ G(quality + 1) - T(km) - P \in Int
        /\ G(quality) - T(km) - P <= G(quality + 1) - T(km) - P
    BY <1>2, <1>3, <1>4
  <2> QED BY <1>5, <2>1, RoundingKeepsOrder
<1>9. km > 0 => Worth(km, quality).net <= Worth(km - 1, quality).net
  <2> SUFFICES ASSUME km > 0 PROVE Worth(km, quality).net <= Worth(km - 1, quality).net
    OBVIOUS
  <2>1. /\ G(quality) - T(km) - P \in Int /\ G(quality) - T(km - 1) - P \in Int
        /\ G(quality) - T(km) - P <= G(quality) - T(km - 1) - P
    BY <1>2, <1>3, <1>4
  <2> QED BY <1>5, <2>1, RoundingKeepsOrder
<1>10. OutputFitsLot(feedstock, biochar) =>
         /\ 0 <= Worth(km, quality).gross
         /\ Worth(km, quality).gross <= Round3(Sequestered(feedstock * 40, 10))
  <2>1. G(quality) \in Int /\ 0 <= G(quality)
    BY <1>3
  <2>2. 0 <= Round3(G(quality))
    BY <2>1, Rounding
  <2> QED BY <1>5, <1>6, <2>1, <2>2, RoundingKeepsOrder
<1>11. /\ Worth(km, quality).transport = ComputeCredit(feedstock, 0, km, quality).transport
       /\ Worth(km, quality).process = ComputeCredit(0, biochar, 0, quality).process
  BY DEF Worth, ComputeCredit
<1> QED BY <1>7, <1>8, <1>9, <1>10, <1>11 DEF AddsUp, Worth

IsBatch(b) == b.feedstock \in Nat /\ b.biochar \in Nat /\ b.km \in Nat /\ b.quality \in Int

(* So CreditAddsUp holds of every batch, not only of the sizes Rules tries  *)
(* (computeCredit).                                                         *)
THEOREM CreditAlwaysAddsUp == (case.of = "batch" => IsBatch(case)) => CreditAddsUp
BY CreditOfAnyBatch DEF CreditAddsUp, IsBatch
=============================================================================
