--------------------------- MODULE Ledger_proofs ---------------------------
(***************************************************************************)
(* Proofs about Ledger, for any set of writers and decisions and any bound *)
(* on the table.                                                           *)
(***************************************************************************)
EXTENDS Ledger, WellFoundedInduction, TLAPS

(* A sequence of rows, each of which has a natural seq.                     *)
IsTable(t) == t \in Seq(Range(t)) /\ (\A i \in DOMAIN t : t[i].seq \in Nat)

(* The last record of a valid chain is the one ORDER BY seq DESC finds.     *)
LEMMA LastOfValidChain ==
  ASSUME NEW chain, IsTable(chain), ChainValid(chain), chain # <<>>
  PROVE  LastBySeq(chain) = {chain[Len(chain)]}
<1> DEFINE n == Len(chain)
<1>1. n \in Nat \ {0} /\ DOMAIN chain = 1..n
  BY DEF IsTable
<1>2. \A i \in 1..n : chain[i].seq = i - 1
  BY <1>1 DEF ChainValid, RecordHolds
<1>3. Range(chain) = {chain[i] : i \in 1..n}
  BY <1>1 DEF Range
<1>4. chain[n] \in LastBySeq(chain)
  BY <1>1, <1>2, <1>3 DEF LastBySeq
<1>5. ASSUME NEW r \in LastBySeq(chain) PROVE r = chain[n]
  <2>1. PICK i \in 1..n : r = chain[i]
    BY <1>3 DEF LastBySeq
  <2>2. chain[n].seq <= chain[i].seq
    BY <1>1, <1>3, <2>1 DEF LastBySeq
  <2>3. n - 1 <= i - 1
    BY <1>1, <1>2, <2>2
  <2>4. i = n
    <3>1. i \in Int /\ n \in Int /\ i <= n
      BY <1>1
    <3> HIDE DEF n
    <3> QED BY <2>3, <3>1
  <2> QED BY <2>1, <2>4
<1> QED BY <1>4, <1>5

(* linkDecision onto the last row of a valid chain takes the next seq.      *)
LEMMA LinkTakesNextSeq ==
  ASSUME NEW chain, IsTable(chain), ChainValid(chain), NEW d, NEW prev,
         prev = ExpectedPrevHash(chain, Len(chain) + 1)
  PROVE  LinkDecision(LastBySeq(chain), d) =
           [seq |-> Len(chain), decision |-> d, prevHash |-> prev,
            hash |-> Sha256(prev, [seq |-> Len(chain), decision |-> d,
                                   prevHash |-> prev])]
<1>0. Len(chain) \in Nat /\ DOMAIN chain = 1..Len(chain)
  BY DEF IsTable
<1>1. CASE chain = <<>>
  <2>1. LastBySeq(chain) = {}
    BY <1>1 DEF LastBySeq, Range
  <2>2. Len(chain) = 0
    BY <1>1
  <2> QED BY <2>1, <2>2 DEF LinkDecision, ExpectedPrevHash
<1>2. CASE chain # <<>>
  <2>1. LastBySeq(chain) = {chain[Len(chain)]}
    BY <1>2, LastOfValidChain
  <2>2. Len(chain) # 0
    BY <1>2 DEF IsTable
  <2>3. chain[Len(chain)].seq + 1 = Len(chain)
    BY <1>0, <2>2 DEF ChainValid, RecordHolds
  <2>4. (CHOOSE r \in {chain[Len(chain)]} : TRUE) = chain[Len(chain)]
    OBVIOUS
  <2> QED BY <1>0, <2>1, <2>2, <2>3, <2>4 DEF LinkDecision, ExpectedPrevHash
<1> QED BY <1>1, <1>2

(* Appending what linkDecision returned keeps the chain valid.              *)
LEMMA LinkKeepsChainValid ==
  ASSUME NEW chain, IsTable(chain), ChainValid(chain), NEW d
  PROVE  ChainValid(Append(chain, LinkDecision(LastBySeq(chain), d)))
<1> DEFINE r == LinkDecision(LastBySeq(chain), d)
           n == Len(chain)
           longer == Append(chain, r)
<1>1. n \in Nat /\ DOMAIN chain = 1..n
  BY DEF IsTable
<1>2. chain \in Seq(Range(chain) \cup {r})
  BY DEF IsTable
<1>3. /\ DOMAIN longer = 1..(n + 1)
      /\ longer[n + 1] = r
      /\ \A i \in 1..n : longer[i] = chain[i]
  BY <1>1, <1>2
<1>4. ASSUME NEW i \in 1..n PROVE RecordHolds(longer, i)
  <2>1. RecordHolds(chain, i)
    BY <1>1 DEF ChainValid
  <2>2. longer[i] = chain[i] /\ ExpectedPrevHash(longer, i) = ExpectedPrevHash(chain, i)
    BY <1>1, <1>3 DEF ExpectedPrevHash
  <2> QED BY <2>1, <2>2 DEF RecordHolds
<1>5. RecordHolds(longer, n + 1)
  <2>1. ExpectedPrevHash(longer, n + 1) = ExpectedPrevHash(chain, n + 1)
    <3>1. CASE n = 0
      BY <3>1 DEF ExpectedPrevHash
    <3>2. CASE n # 0
      <4>1. n \in 1..n /\ n + 1 # 1 /\ (n + 1) - 1 = n
        BY <1>1, <3>2
      <4>2. longer[n] = chain[n]
        BY <1>3, <4>1
      <4> QED BY <4>1, <4>2 DEF ExpectedPrevHash
    <3> QED BY <3>1, <3>2
  <2>2. longer[n + 1] = r
    BY <1>3
  <2>3. /\ r.seq = n /\ r.decision = d /\ r.prevHash = ExpectedPrevHash(chain, n + 1)
        /\ r.hash = Sha256(r.prevHash, [seq |-> n, decision |-> d, prevHash |-> r.prevHash])
    <3> DEFINE prev == ExpectedPrevHash(chain, n + 1)
    <3>1. r = [seq |-> n, decision |-> d, prevHash |-> prev,
               hash |-> Sha256(prev, [seq |-> n, decision |-> d, prevHash |-> prev])]
      BY LinkTakesNextSeq
    <3> QED BY <3>1
  <2> QED BY <1>1, <2>1, <2>2, <2>3 DEF RecordHolds, BodyOf
<1> QED BY <1>1, <1>3, <1>4, <1>5 DEF ChainValid
-----------------------------------------------------------------------------
(* Different inputs have different digests.                                 *)
LEMMA Sha256Injective ==
  ASSUME NEW p, NEW q, NEW x, NEW y, Sha256(p, x) = Sha256(q, y)
  PROVE  p = q /\ x = y
BY DEF Sha256

(* Every set of naturals has a least element; the induction principle that  *)
(* needs no operator parameter.                                             *)
LEMMA LeastNat ==
  ASSUME NEW S, S \subseteq Nat, S # {}
  PROVE  \E x \in S : \A y \in S : x <= y
<1>1. PICK x \in S : \A y \in S : ~ (<<y, x>> \in OpToRel(<, Nat))
  BY NatLessThanWellFounded, WFMin
<1>2. \A y \in S : ~ (y < x)
  BY <1>1 DEF OpToRel
<1> QED BY <1>2

(* Edits of a valid chain that leave the hashes alone: exactly the edited   *)
(* records fail the audit, wherever they are and however many.              *)
THEOREM EditedRecordsFail ==
  ASSUME NEW chain, IsTable(chain), ChainValid(chain),
         NEW edited, DOMAIN edited = DOMAIN chain,
         \A i \in DOMAIN chain :
           /\ edited[i].seq = chain[i].seq
           /\ edited[i].prevHash = chain[i].prevHash
           /\ edited[i].hash = chain[i].hash
  PROVE  \A i \in DOMAIN chain :
           RecordHolds(edited, i) <=> edited[i].decision = chain[i].decision
<1>1. DOMAIN chain = 1..Len(chain) /\ Len(chain) \in Nat
  BY DEF IsTable
<1> SUFFICES ASSUME NEW i \in DOMAIN chain
             PROVE  RecordHolds(edited, i) <=> edited[i].decision = chain[i].decision
  OBVIOUS
<1> DEFINE prev == ExpectedPrevHash(chain, i)
<1>2. RecordHolds(chain, i)
  BY DEF ChainValid
<1>3. ExpectedPrevHash(edited, i) = prev
  <2>1. CASE i = 1
    BY <2>1 DEF ExpectedPrevHash
  <2>2. CASE i # 1
    <3>1. i - 1 \in DOMAIN chain
      BY <1>1, <2>2
    <3> QED BY <2>2, <3>1 DEF ExpectedPrevHash
  <2> QED BY <2>1, <2>2
<1> HIDE DEF prev
<1>4. RecordHolds(edited, i) <=> edited[i].hash = Sha256(prev, BodyOf(edited[i]))
  BY <1>2, <1>3 DEF RecordHolds, prev
<1>5. edited[i].hash = Sha256(prev, BodyOf(chain[i]))
  BY <1>2 DEF RecordHolds, prev
<1>6. RecordHolds(edited, i) <=> BodyOf(edited[i]) = BodyOf(chain[i])
  BY <1>4, <1>5 DEF Sha256
<1>7. BodyOf(edited[i]) = BodyOf(chain[i]) <=> edited[i].decision = chain[i].decision
  BY DEF BodyOf
<1> QED BY <1>6, <1>7

(* The hash of one record pins down everything before it: two chains that   *)
(* both pass the audit and share a hash agree on every record up to there.  *)
(* This is what signing the head of the ledger into a credential is for.    *)
THEOREM HashPinsHistory ==
  ASSUME NEW c, IsTable(c), ChainValid(c),
         NEW d, IsTable(d), ChainValid(d),
         NEW i \in DOMAIN c, NEW j \in DOMAIN d, c[i].hash = d[j].hash
  PROVE  /\ i = j
         /\ \A k \in 1..i : /\ BodyOf(c[k]) = BodyOf(d[k])
                            /\ c[k].hash = d[k].hash
<1>1. /\ DOMAIN c = 1..Len(c) /\ Len(c) \in Nat
      /\ DOMAIN d = 1..Len(d) /\ Len(d) \in Nat
  BY DEF IsTable
<1>2. ASSUME NEW a \in DOMAIN c, NEW b \in DOMAIN d, c[a].hash = d[b].hash
      PROVE  /\ a = b
             /\ BodyOf(c[a]) = BodyOf(d[b])
             /\ c[a].prevHash = d[b].prevHash
  <2>1. RecordHolds(c, a) /\ RecordHolds(d, b)
    BY DEF ChainValid
  <2>2. /\ c[a].hash = Sha256(c[a].prevHash, BodyOf(c[a]))
        /\ d[b].hash = Sha256(d[b].prevHash, BodyOf(d[b]))
        /\ c[a].seq = a - 1 /\ d[b].seq = b - 1
    BY <2>1 DEF RecordHolds
  <2>3. BodyOf(c[a]) = BodyOf(d[b]) /\ c[a].prevHash = d[b].prevHash
    <3>1. Sha256(c[a].prevHash, BodyOf(c[a])) = Sha256(d[b].prevHash, BodyOf(d[b]))
      BY <1>2, <2>2
    <3> QED BY <3>1, Sha256Injective
  <2>4. c[a].seq = d[b].seq
    BY <2>3 DEF BodyOf
  <2> QED BY <1>1, <2>2, <2>3, <2>4
<1>3. i = j
  BY <1>2
<1> DEFINE Apart == {n \in Nat : n < i /\ c[i - n].hash # d[i - n].hash}
<1>4. ASSUME Apart # {} PROVE FALSE
  <2>1. PICK n \in Apart : \A m \in Apart : n <= m
    BY <1>4, LeastNat
  <2>2. n \in Nat /\ n < i /\ n # 0
    <3>1. n \in Nat /\ n < i /\ c[i - n].hash # d[i - n].hash
      OBVIOUS
    <3>2. i - 0 = i
      BY <1>1
    <3>3. c[i - 0].hash = d[i - 0].hash
      BY <1>3, <3>2
    <3> QED BY <3>1, <3>3
  <2> DEFINE k == i - n
  <2>3. n - 1 \in Nat /\ n - 1 \notin Apart
    BY <2>1, <2>2
  <2>4. k + 1 \in 2..i /\ k \in 1..i /\ i \in Int /\ i - (n - 1) = k + 1
    BY <1>1, <2>2
  <2>5. c[k + 1].hash = d[k + 1].hash
    BY <2>2, <2>3, <2>4
  <2>6. k + 1 \in DOMAIN c /\ k + 1 \in DOMAIN d /\ k + 1 # 1 /\ (k + 1) - 1 = k
    BY <1>1, <1>3, <2>4
  <2>7. c[k + 1].prevHash = d[k + 1].prevHash
    BY <1>2, <2>5, <2>6
  <2>8. c[k + 1].prevHash = c[k].hash /\ d[k + 1].prevHash = d[k].hash
    BY <2>6 DEF ChainValid, RecordHolds, ExpectedPrevHash
  <2>9. c[k].hash # d[k].hash
    BY <2>1
  <2> QED BY <2>7, <2>8, <2>9
<1>5. ASSUME NEW k \in 1..i PROVE BodyOf(c[k]) = BodyOf(d[k]) /\ c[k].hash = d[k].hash
  <2>1. i - k \in Nat /\ i - k < i /\ i - (i - k) = k
    BY <1>1
  <2>2. c[k].hash = d[k].hash
    BY <1>4, <2>1
  <2>3. k \in DOMAIN c /\ k \in DOMAIN d
    BY <1>1, <1>3
  <2> QED BY <1>2, <2>2, <2>3
<1> QED BY <1>3, <1>5

LEMMA TypeOKIsTable == TypeOK => IsTable(log)
BY DEF TypeOK, IsTable, IsRow

(* What a session that has linked a record will insert: the row after the   *)
(* last, whose seq nobody has.                                              *)
LEMMA NextRow ==
  ASSUME TypeOK, ChainIntact, NEW d \in Decisions, NEW r,
         r = LinkDecision(LastBySeq(log), d)
  PROVE  /\ IsRow(r)
         /\ r.seq = Len(log)
         /\ r.decision = d
         /\ r.seq \notin SeqsOf(Range(log))
<1> DEFINE prev == ExpectedPrevHash(log, Len(log) + 1)
<1>1. r = [seq |-> Len(log), decision |-> d, prevHash |-> prev,
           hash |-> Sha256(prev, [seq |-> Len(log), decision |-> d, prevHash |-> prev])]
  BY TypeOKIsTable, LinkTakesNextSeq DEF ChainIntact
<1>2. Len(log) \in Nat /\ DOMAIN log = 1..Len(log)
  BY DEF TypeOK
<1>3. IsRow(r)
  BY <1>1, <1>2 DEF IsRow
<1>4. \A i \in DOMAIN log : log[i].seq = i - 1
  BY DEF ChainIntact, ChainValid, RecordHolds
<1>5. ASSUME r.seq \in SeqsOf(Range(log)) PROVE FALSE
  <2>1. PICK i \in DOMAIN log : r.seq = log[i].seq
    BY <1>5 DEF SeqsOf, Range
  <2> QED BY <1>1, <1>2, <1>4, <2>1
<1> QED BY <1>1, <1>3, <1>5

(* The table one row longer.                                                *)
LEMMA LongerTable ==
  ASSUME NEW t, t \in Seq(Range(t)), NEW r
  PROVE  /\ Append(t, r) \in Seq(Range(Append(t, r)))
         /\ Len(t) \in Nat
         /\ DOMAIN Append(t, r) = 1..(Len(t) + 1)
         /\ DOMAIN t = 1..Len(t)
         /\ Append(t, r)[Len(t) + 1] = r
         /\ \A i \in 1..Len(t) : Append(t, r)[i] = t[i]
<1> DEFINE u == Append(t, r)
<1>1. t \in Seq(Range(t) \cup {r})
  OBVIOUS
<1>2. /\ Len(t) \in Nat /\ DOMAIN t = 1..Len(t)
      /\ u \in Seq(Range(t) \cup {r})
      /\ DOMAIN u = 1..(Len(t) + 1) /\ Len(u) = Len(t) + 1
      /\ u[Len(t) + 1] = r
      /\ \A i \in 1..Len(t) : u[i] = t[i]
  BY <1>1
<1>3. \A i \in 1..Len(u) : u[i] \in Range(u)
  BY <1>2 DEF Range
<1>4. u \in Seq(Range(u))
  BY <1>2, <1>3
<1> QED BY <1>2, <1>4

LEMMA InitIInv == Init => IInv
<1> SUFFICES ASSUME Init PROVE IInv
  OBVIOUS
<1>1. TypeOK
  BY DEF Init, TypeOK, Steps, None, Range
<1>2. ChainIntact
  BY DEF Init, ChainIntact, ChainValid
<1>3. LockInv /\ PendingInv /\ CallInv /\ NeverRefused
  BY DEF Init, LockInv, PendingInv, CallInv, NeverRefused
<1> QED BY <1>1, <1>2, <1>3 DEF IInv

LEMMA NextIInv == IInv /\ [Next]_vars => IInv'
<1> SUFFICES ASSUME IInv, [Next]_vars PROVE IInv'
  OBVIOUS
<1> USE DEF IInv
<1>1. ASSUME NEW w \in Writers, NEW d \in Decisions, Begin(w, d) PROVE IInv'
  <2> USE <1>1 DEF Begin, Goto
  <2>1. TypeOK'
    BY DEF TypeOK, Steps
  <2>2. ChainIntact'
    BY DEF ChainIntact
  <2>3. LockInv' /\ PendingInv' /\ NeverRefused'
    BY DEF TypeOK, LockInv, PendingInv, NeverRefused
  <2>4. CallInv'
    BY DEF TypeOK, CallInv
  <2> QED BY <2>1, <2>2, <2>3, <2>4
<1>2. ASSUME NEW w \in Writers, AcquireLock(w) PROVE IInv'
  <2> USE <1>2 DEF AcquireLock, Goto
  <2>1. TypeOK'
    BY DEF TypeOK, Steps
  <2>2. ChainIntact'
    BY DEF ChainIntact
  <2>3. LockInv' /\ PendingInv' /\ NeverRefused'
    BY DEF TypeOK, LockInv, PendingInv, NeverRefused
  <2>4. CallInv'
    BY DEF TypeOK, CallInv
  <2> QED BY <2>1, <2>2, <2>3, <2>4
<1>3. ASSUME NEW w \in Writers, ReadAndLink(w) PROVE IInv'
  <2> USE <1>3 DEF ReadAndLink, Goto
  <2>0. PICK d \in Decisions : /\ arg[w] = {d}
                               /\ rec' = [rec EXCEPT ![w] = {LinkDecision(LastBySeq(log), d)}]
    <3>1. PICK d \in Decisions : arg[w] = {d}
      BY DEF CallInv
    <3>2. PICK e \in arg[w] : rec' = [rec EXCEPT ![w] = {LinkDecision(LastBySeq(log), e)}]
      OBVIOUS
    <3>3. e = d
      BY <3>1
    <3> QED BY <3>1, <3>2, <3>3
  <2>1. TypeOK'
    <3>1. IsRow(LinkDecision(LastBySeq(log), d))
      BY NextRow
    <3> QED BY <2>0, <3>1 DEF TypeOK, Steps
  <2>2. ChainIntact'
    BY DEF ChainIntact
  <2>3. LockInv' /\ PendingInv' /\ NeverRefused'
    BY DEF TypeOK, LockInv, PendingInv, NeverRefused
  <2>4. CallInv'
    BY <2>0 DEF TypeOK, CallInv
  <2> QED BY <2>1, <2>2, <2>3, <2>4
<1>4. ASSUME NEW w \in Writers, Insert(w) PROVE IInv'
  <2> USE <1>4 DEF Insert, Goto
  <2>0. PICK d \in Decisions : /\ arg[w] = {d}
                               /\ rec[w] = {LinkDecision(LastBySeq(log), d)}
    BY DEF CallInv
  <2>1. SeqsOf(rec[w]) \cap SeqsOf(Range(log)) = {}
    <3>1. LinkDecision(LastBySeq(log), d).seq \notin SeqsOf(Range(log))
      BY NextRow
    <3> QED BY <2>0, <3>1 DEF SeqsOf
  <2>2. pc' = [pc EXCEPT ![w] = "inserted"] /\ pending' = [pending EXCEPT ![w] = rec[w]]
    BY <2>1
  <2>3. TypeOK'
    BY <2>2 DEF TypeOK, Steps
  <2>4. ChainIntact'
    BY DEF ChainIntact
  <2>5. LockInv' /\ PendingInv' /\ NeverRefused'
    BY <2>2 DEF TypeOK, LockInv, PendingInv, NeverRefused
  <2>6. CallInv'
    BY <2>2 DEF TypeOK, CallInv
  <2> QED BY <2>3, <2>4, <2>5, <2>6
<1>5. ASSUME NEW w \in Writers, Commit(w) PROVE IInv'
  <2> USE <1>5 DEF Commit, Goto, EndTransaction
  <2>0. PICK d \in Decisions : /\ arg[w] = {d}
                               /\ rec[w] = {LinkDecision(LastBySeq(log), d)}
    BY DEF CallInv
  <2> DEFINE r == LinkDecision(LastBySeq(log), d)
             n == Len(log)
  <2>1. pending[w] = {r} /\ log' = Append(log, r)
    BY <2>0 DEF PendingInv
  <2>2. IsRow(r) /\ r.seq = n /\ r.decision = d
    BY NextRow
  <2> HIDE DEF r
  <2>3. /\ log' \in Seq(Range(log)')
        /\ n \in Nat
        /\ DOMAIN log = 1..n
        /\ DOMAIN log' = 1..(n + 1)
        /\ log'[n + 1] = r
        /\ \A i \in 1..n : log'[i] = log[i]
    BY <2>1, LongerTable DEF TypeOK
  <2>4. TypeOK'
    <3>1. \A i \in DOMAIN log' : IsRow(log'[i])
      BY <2>2, <2>3 DEF TypeOK
    <3> QED BY <2>3, <3>1 DEF TypeOK, Steps, IsRow
  <2>5. ChainIntact'
    BY <2>1, TypeOKIsTable, LinkKeepsChainValid DEF ChainIntact, r
  <2>6. \A v \in Writers \ {w} : pc[v] \notin {"locked", "linked", "inserted", "refused"}
    BY DEF LockInv
  <2>7. LockInv' /\ PendingInv' /\ NeverRefused'
    BY <2>6 DEF TypeOK, LockInv, PendingInv, NeverRefused
  <2>8. CallInv'
    <3> SUFFICES ASSUME NEW v \in Writers, pc'[v] \notin {"idle", "dead"}
                 PROVE  \E e \in Decisions :
                          /\ arg'[v] = {e}
                          /\ pc'[v] \in {"linked", "inserted"} =>
                               rec'[v] = {LinkDecision(LastBySeq(log'), e)}
                          /\ pc'[v] = "committed" =>
                               \E i \in DOMAIN log' : rec'[v] = {log'[i]} /\ log'[i].decision = e
      BY DEF CallInv
    <3>1. CASE v = w
      <4>1. n + 1 \in DOMAIN log' /\ rec'[v] = {log'[n + 1]} /\ log'[n + 1].decision = d
        BY <2>0, <2>2, <2>3, <3>1 DEF r
      <4>2. pc'[v] = "committed" /\ arg'[v] = {d}
        BY <2>0, <3>1 DEF TypeOK
      <4> QED BY <4>1, <4>2
    <3>2. CASE v # w
      <4>1. pc'[v] = pc[v] /\ arg'[v] = arg[v] /\ rec'[v] = rec[v]
        BY <3>2 DEF TypeOK
      <4>2. pc[v] \notin {"linked", "inserted"}
        BY <2>6, <3>2
      <4>3. PICK e \in Decisions : /\ arg[v] = {e}
                                   /\ pc[v] = "committed" =>
                                        \E i \in DOMAIN log : rec[v] = {log[i]} /\ log[i].decision = e
        BY <4>1 DEF CallInv
      <4>4. pc[v] = "committed" => \E i \in DOMAIN log' : rec[v] = {log'[i]} /\ log'[i].decision = e
        BY <2>3, <4>3
      <4> QED BY <4>1, <4>2, <4>3, <4>4
    <3> QED BY <3>1, <3>2
  <2> QED BY <2>4, <2>5, <2>7, <2>8
<1>6. ASSUME NEW w \in Writers, Return(w) PROVE IInv'
  <2> USE <1>6 DEF Return, LeaveCall, Goto
  <2>1. TypeOK'
    BY DEF TypeOK, Steps, None
  <2>2. ChainIntact'
    BY DEF ChainIntact
  <2>3. LockInv' /\ PendingInv' /\ NeverRefused'
    BY DEF TypeOK, LockInv, PendingInv, NeverRefused
  <2>4. CallInv'
    BY DEF TypeOK, CallInv
  <2> QED BY <2>1, <2>2, <2>3, <2>4
<1>7. ASSUME NEW w \in Writers, Rollback(w) PROVE IInv'
  <2> USE <1>7 DEF Rollback, LeaveCall, EndTransaction, Goto
  <2>1. TypeOK'
    BY DEF TypeOK, Steps, None
  <2>2. ChainIntact'
    BY DEF ChainIntact
  <2>3. LockInv' /\ PendingInv' /\ NeverRefused'
    BY DEF TypeOK, LockInv, PendingInv, NeverRefused
  <2>4. CallInv'
    BY DEF TypeOK, CallInv
  <2> QED BY <2>1, <2>2, <2>3, <2>4
<1>8. ASSUME NEW w \in Writers, Crash(w) PROVE IInv'
  <2> USE <1>8 DEF Crash, LeaveCall, Goto
  <2>1. TypeOK'
    BY DEF TypeOK, Steps, None
  <2>2. ChainIntact'
    BY DEF ChainIntact
  <2>3. LockInv' /\ PendingInv' /\ NeverRefused'
    BY DEF TypeOK, LockInv, PendingInv, NeverRefused
  <2>4. CallInv'
    BY DEF TypeOK, CallInv
  <2> QED BY <2>1, <2>2, <2>3, <2>4
<1>9. ASSUME NEW w \in Writers, Reap(w) PROVE IInv'
  <2> USE <1>9 DEF Reap, EndTransaction, Goto
  <2>1. TypeOK'
    BY DEF TypeOK, Steps
  <2>2. ChainIntact'
    BY DEF ChainIntact
  <2>3. LockInv' /\ PendingInv' /\ NeverRefused'
    BY DEF TypeOK, LockInv, PendingInv, NeverRefused
  <2>4. CallInv'
    BY DEF TypeOK, CallInv
  <2> QED BY <2>1, <2>2, <2>3, <2>4
<1>10. CASE UNCHANGED vars
  BY <1>10 DEF vars, TypeOK, ChainIntact, LockInv, PendingInv, CallInv, NeverRefused
<1> QED
  BY <1>1, <1>2, <1>3, <1>4, <1>5, <1>6, <1>7, <1>8, <1>9, <1>10 DEF Next

THEOREM Invariance == Spec => []IInv
BY InitIInv, NextIInv, PTL DEF Spec

(* Every variable keeps its type, and every row in the table is a record    *)
(* of a decision some agent asked for.                                      *)
THEOREM TypeCorrect == Spec => []TypeOK
<1>1. IInv => TypeOK
  BY DEF IInv
<1> QED BY Invariance, <1>1, PTL

(* However many agents append at once and whichever die, what is in         *)
(* decision_log passes verifyChain at every moment.                         *)
THEOREM ChainAlwaysIntact == Spec => []ChainIntact
<1>1. IInv => ChainIntact
  BY DEF IInv
<1> QED BY Invariance, <1>1, PTL

(* The primary key never turns an append away: the advisory lock already    *)
(* gives every appender a seq of its own.                                   *)
THEOREM AppendsNeverCollide == Spec => []NeverRefused
<1>1. IInv => NeverRefused
  BY DEF IInv
<1> QED BY Invariance, <1>1, PTL

(* The record appendDecision returns is the one in the ledger at its seq.   *)
THEOREM ReturnedRecordIsLogged == Spec => []ReturnedIsLogged
<1>1. IInv => ReturnedIsLogged
  <2> SUFFICES ASSUME IInv, NEW w \in Writers, pc[w] = "committed", NEW r \in rec[w]
               PROVE  r.seq + 1 \in DOMAIN log /\ log[r.seq + 1] = r
    BY DEF ReturnedIsLogged
  <2>1. PICK i \in DOMAIN log : rec[w] = {log[i]}
    BY DEF IInv, CallInv
  <2>2. r = log[i] /\ log[i].seq = i - 1 /\ i \in Int
    BY <2>1 DEF IInv, TypeOK, ChainIntact, ChainValid, RecordHolds
  <2>3. r.seq + 1 = i
    BY <2>2
  <2> QED BY <2>1, <2>2, <2>3
<1> QED BY Invariance, <1>1, PTL

-----------------------------------------------------------------------------
(* The refinement.                                                          *)

LEMMA CallOfPending ==
  ASSUME NEW w \in Writers, pc[w] \in {"begun", "locked", "linked", "inserted", "refused"},
         NEW d, arg[w] = {d}
  PROVE  CallOf(w) = [state |-> "pending", decision |-> d]
BY DEF CallOf

LEMMA CallOfCommitted ==
  ASSUME NEW w \in Writers, pc[w] = "committed",
         NEW d, arg[w] = {d}, NEW r, rec[w] = {r}
  PROVE  CallOf(w) = [state |-> "recorded", decision |-> d, position |-> r.seq + 1]
BY DEF CallOf

LEMMA InitRefines == Init => Abstract!AInit
BY DEF Init, CallOf, Abstract!AInit, Abstract!NoCall

(* A step that leaves log alone leaves the list of decisions alone.         *)
LEMMA StepRefines == IInv /\ IInv' /\ [Next]_vars => [Abstract!ANext]_(Abstract!avars)
<1> SUFFICES ASSUME IInv, IInv', [Next]_vars
             PROVE  [Abstract!ANext]_(Abstract!avars)
  OBVIOUS
<1> DEFINE entries == [i \in DOMAIN log |-> log[i].decision]
           call    == [w \in Writers |-> CallOf(w)]
<1> USE DEF Abstract!avars, Abstract!ANext
<1>0. pc \in [Writers -> Steps] /\ DOMAIN arg = Writers /\ DOMAIN rec = Writers
  BY DEF IInv, TypeOK
<1>1. ASSUME NEW w \in Writers, NEW d \in Decisions, Begin(w, d)
      PROVE  Abstract!Start(w, d)
  <2>1. CallOf(w) = [state |-> "none"] /\ entries' = entries
    BY <1>1 DEF Begin, CallOf
  <2>2. CallOf(w)' = [state |-> "pending", decision |-> d]
    BY <1>0, <1>1 DEF Begin, Goto, CallOf
  <2>3. \A v \in Writers \ {w} : CallOf(v)' = CallOf(v)
    BY <1>0, <1>1 DEF Begin, Goto, CallOf
  <2> QED BY <2>1, <2>2, <2>3 DEF Abstract!Start, Abstract!NoCall, Abstract!Pending
<1>2. ASSUME NEW w \in Writers, AcquireLock(w) \/ ReadAndLink(w) \/ Insert(w)
      PROVE  entries' = entries /\ call' = call
  <2>1. CallOf(w)' = CallOf(w)
    BY <1>0, <1>2 DEF AcquireLock, ReadAndLink, Insert, Goto, CallOf
  <2>2. \A v \in Writers \ {w} : CallOf(v)' = CallOf(v)
    BY <1>0, <1>2 DEF AcquireLock, ReadAndLink, Insert, Goto, CallOf
  <2>3. log' = log
    BY <1>2 DEF AcquireLock, ReadAndLink, Insert
  <2> QED BY <2>1, <2>2, <2>3
<1>3. ASSUME NEW w \in Writers, Commit(w) PROVE Abstract!Record(w)
  <2>1. PICK d \in Decisions : arg[w] = {d} /\ rec[w] = {LinkDecision(LastBySeq(log), d)}
    BY <1>3 DEF IInv, CallInv, Commit
  <2> DEFINE r == LinkDecision(LastBySeq(log), d)
             n == Len(log)
  <2>2. pending[w] = {r} /\ log' = Append(log, r)
    BY <1>3, <2>1 DEF IInv, PendingInv, Commit
  <2>3. r.seq = n /\ r.decision = d
    BY NextRow DEF IInv
  <2> HIDE DEF r
  <2>4. /\ n \in Nat /\ DOMAIN log = 1..n /\ DOMAIN log' = 1..(n + 1)
        /\ log'[n + 1] = r
        /\ \A i \in 1..n : log'[i] = log[i]
    BY <2>2, LongerTable DEF IInv, TypeOK
  <2>5. CallOf(w) = [state |-> "pending", decision |-> d]
    BY <1>3, <2>1, CallOfPending DEF Commit
  <2>6. CallOf(w)' = [state |-> "recorded", decision |-> d, position |-> n + 1]
    <3>1. pc'[w] = "committed" /\ arg'[w] = {d} /\ rec'[w] = {r}
      BY <1>0, <1>3, <2>1 DEF Commit, Goto, r
    <3>2. (CHOOSE x \in arg'[w] : TRUE) = d /\ (CHOOSE x \in rec'[w] : TRUE) = r
      BY <3>1
    <3> QED BY <2>3, <3>1, <3>2 DEF CallOf
  <2>7. \A v \in Writers \ {w} : CallOf(v)' = CallOf(v)
    BY <1>0, <1>3 DEF Commit, Goto, CallOf
  <2>8. entries' = Append(entries, d) /\ Len(entries') = n + 1
    <3>1. entries \in Seq({log[i].decision : i \in 1..n} \cup {d}) /\ Len(entries) = n
      BY <2>4
    <3>2. entries' = [i \in 1..(n + 1) |-> IF i = n + 1 THEN d ELSE log[i].decision]
      BY <2>3, <2>4
    <3>3. Append(entries, d) = [i \in 1..(n + 1) |-> IF i = n + 1 THEN d ELSE log[i].decision]
      BY <2>4, <3>1
    <3>4. Len(entries') = n + 1
      BY <2>4, <3>2
    <3> QED BY <3>2, <3>3, <3>4
  <2> QED
    BY <2>5, <2>6, <2>7, <2>8 DEF Abstract!Record, Abstract!Pending, Abstract!Recorded
<1>4. ASSUME NEW w \in Writers, Return(w) \/ Rollback(w) \/ Crash(w)
      PROVE  Abstract!Finish(w)
  <2>1. pc[w] \notin {"idle", "dead"} /\ log' = log
    BY <1>4 DEF Return, Rollback, Crash
  <2>2. CallOf(w) # [state |-> "none"]
    BY <2>1 DEF CallOf
  <2>3. CallOf(w)' = [state |-> "none"]
    BY <1>0, <1>4 DEF Return, Rollback, Crash, LeaveCall, Goto, CallOf
  <2>4. \A v \in Writers \ {w} : CallOf(v)' = CallOf(v)
    BY <1>0, <1>4 DEF Return, Rollback, Crash, LeaveCall, Goto, CallOf
  <2> QED BY <2>1, <2>2, <2>3, <2>4 DEF Abstract!Finish, Abstract!NoCall
<1>5. ASSUME NEW w \in Writers, Reap(w) PROVE entries' = entries /\ call' = call
  <2>1. \A v \in Writers : CallOf(v)' = CallOf(v)
    BY <1>0, <1>5 DEF Reap, Goto, CallOf
  <2> QED BY <1>5, <2>1 DEF Reap
<1>6. CASE UNCHANGED vars
  BY <1>6 DEF vars, CallOf
<1> QED
  BY <1>1, <1>2, <1>3, <1>4, <1>5, <1>6 DEF Next

(* The ledger behaves as one append-only list with atomic appends: nothing  *)
(* recorded is ever changed, removed or recorded twice for one call.        *)
THEOREM LedgerImplementsAppendLog == Spec => ImplementsAppendLog
BY InitRefines, StepRefines, Invariance, PTL DEF Spec, ImplementsAppendLog, Abstract!ASpec
=============================================================================
