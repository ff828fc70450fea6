---------------------------- MODULE Field_proofs ----------------------------
(***************************************************************************)
(* Field's invariants for any number of tabs, photos and pieces of         *)
(* evidence, any bound on attempts above one and on faults.                *)
(***************************************************************************)
EXTENDS Field, FiniteSetTheorems, TLAPS

(* KeepAt keeps each position of S once: f says which comes when.           *)
Keeps(d, seq, S, f) ==
  /\ f \in Bijection(1..Cardinality(S), S)
  /\ d = [i \in 1..Cardinality(S) |-> seq[f[i]]]

LEMMA KeepAtOnce ==
  \A S, seq : IsFiniteSet(S) /\ S \subseteq Nat =>
    \E f : Keeps(KeepAt(seq, S), seq, S, f)
<1> TAKE S, seq
<1> HAVE IsFiniteSet(S) /\ S \subseteq Nat
<1> DEFINE N == Cardinality(S)
           To(n) == {m \in S : m <= n}
           rank == [n \in S |-> Cardinality(To(n))]
           f == [i \in 1..N |-> Nth(S, i)]
           kept == [i \in 1..N |-> seq[Nth(S, i)]]
<1>1. N \in Nat
  BY FS_CardinalityType
<1>2. \A n \in S : IsFiniteSet(To(n)) /\ rank[n] \in Nat /\ rank[n] <= N
  BY FS_Subset, FS_CardinalityType
<1>3. \A n \in S : rank[n] \in 1..N
  <2> TAKE n \in S
  <2>1. n \in To(n)
    OBVIOUS
  <2>2. rank[n] # 0
    BY <1>2, <2>1, FS_EmptySet
  <2> QED BY <1>1, <1>2, <2>2
<1>4. \A m, n \in S : m <= n /\ rank[m] = rank[n] => m = n
  <2> TAKE m, n \in S
  <2> HAVE m <= n /\ rank[m] = rank[n]
  <2>1. \A x \in S : x <= m => x <= n
    OBVIOUS
  <2>2. To(m) \in SUBSET To(n)
    BY <2>1
  <2>3. To(m) = To(n)
    BY <1>2, <2>2, FS_Subset
  <2>4. n \in To(n)
    OBVIOUS
  <2>5. n <= m
    BY <2>3, <2>4
  <2> QED BY <2>5
<1>5. rank \in Injection(S, 1..N)
  <2>1. \A m, n \in S : rank[m] = rank[n] => m = n
    <3> TAKE m, n \in S
    <3> m <= n \/ n <= m
      OBVIOUS
    <3> QED BY <1>4
  <2>2. rank \in [S -> 1..N]
    BY <1>3
  <2> HIDE DEF rank
  <2> QED BY <2>1, <2>2 DEF Injection, IsInjective
<1>6. rank \in Surjection(S, 1..N)
  <2>1. IsFiniteSet(1..N) /\ Cardinality(1..N) = N
    BY <1>1, FS_Interval
  <2> HIDE DEF rank, N
  <2> QED BY <1>5, <2>1, FS_Injection DEF N
<1>7. \A i \in 1..N : Nth(S, i) \in S /\ rank[Nth(S, i)] = i
  <2> TAKE i \in 1..N
  <2>1. \E n \in S : rank[n] = i
    BY <1>6 DEF Surjection
  <2>2. \E n \in S : Cardinality({m \in S : m <= n}) = i
    BY <2>1
  <2>3. Nth(S, i) \in S /\ Cardinality({m \in S : m <= Nth(S, i)}) = i
    BY <2>2 DEF Nth
  <2> QED BY <2>3
<1>8. f \in Bijection(1..N, S)
  <2>1. f \in [1..N -> S]
    BY <1>7
  <2>2. \A i, j \in 1..N : f[i] = f[j] => i = j
    BY <1>7
  <2>3. \A n \in S : \E i \in 1..N : f[i] = n
    <3> TAKE n \in S
    <3>1. rank[n] \in 1..N
      BY <1>3
    <3>2. f[rank[n]] \in S /\ rank[f[rank[n]]] = rank[n]
      BY <1>7, <3>1
    <3>3. f[rank[n]] = n
      BY <1>5, <3>2 DEF Injection, IsInjective
    <3> QED BY <3>1, <3>3
  <2> HIDE DEF f, N
  <2> QED BY <2>1, <2>2, <2>3 DEF Bijection, Injection, Surjection, IsInjective
<1>9. KeepAt(seq, S) = kept
  <2> DEFINE Values == {kept[i] : i \in 1..N}
  <2>1. kept \in [1..N -> Values]
    OBVIOUS
  <2>2. kept \in Seq(Values) /\ Len(kept) = N
    BY <1>1, <2>1
  <2>3. SubSeq(kept, 1, N) = kept
    BY <1>1, <2>1, <2>2
  <2> QED BY <2>3 DEF KeepAt
<1>10. kept = [i \in 1..N |-> seq[f[i]]]
  OBVIOUS
<1> HIDE DEF f, kept
<1>11. Keeps(KeepAt(seq, S), seq, S, f)
  BY <1>8, <1>9, <1>10 DEF Keeps
<1> QED BY <1>11

(* What a filter of the queue by evidence id leaves.                        *)
Distinct(list) == \A i, j \in DOMAIN list : list[i].ev = list[j].ev => i = j

LEMMA DropKeeps ==
  ASSUME NEW list \in Seq(Item), NEW e
  PROVE  /\ Drop(list, e) \in Seq(Item)
         /\ \A k \in DOMAIN Drop(list, e) :
              Drop(list, e)[k].ev # e /\ \E i \in DOMAIN list : Drop(list, e)[k] = list[i]
         /\ \A i \in DOMAIN list : list[i].ev # e => \E k \in DOMAIN Drop(list, e) : Drop(list, e)[k] = list[i]
         /\ Distinct(list) => Distinct(Drop(list, e))
<1> DEFINE S == {i \in DOMAIN list : list[i].ev # e}
           N == Cardinality(S)
<1>1. DOMAIN list = 1..Len(list) /\ Len(list) \in Nat /\ \A i \in DOMAIN list : list[i] \in Item
  OBVIOUS
<1>2. IsFiniteSet(S) /\ S \subseteq Nat
  <2>1. S \in SUBSET (1..Len(list)) /\ IsFiniteSet(1..Len(list))
    BY <1>1, FS_Interval
  <2> QED BY <1>1, <2>1, FS_Subset
<1> HIDE DEF S
<1>3. PICK f : Keeps(KeepAt(list, S), list, S, f)
  BY <1>2, KeepAtOnce
<1>4. PICK d : d = Drop(list, e)
  OBVIOUS
<1>5. d = [i \in 1..N |-> list[f[i]]] /\ f \in Bijection(1..N, S)
  BY <1>3, <1>4 DEF Drop, Keeps, S
<1>6. /\ \A k \in 1..N : f[k] \in DOMAIN list /\ list[f[k]].ev # e
      /\ \A i \in DOMAIN list : list[i].ev # e => \E k \in 1..N : f[k] = i
      /\ \A k, l \in 1..N : f[k] = f[l] => k = l
  BY <1>5 DEF S, Bijection, Injection, Surjection, IsInjective
<1> HIDE DEF N
<1>7. d \in [1..N -> Item]
  BY <1>1, <1>5, <1>6
<1>8. d \in Seq(Item) /\ DOMAIN d = 1..N
  BY <1>2, <1>7, FS_CardinalityType DEF N
<1>9. \A k \in DOMAIN d : d[k].ev # e /\ \E i \in DOMAIN list : d[k] = list[i]
  BY <1>5, <1>6, <1>8
<1>10. \A i \in DOMAIN list : list[i].ev # e => \E k \in DOMAIN d : d[k] = list[i]
  BY <1>5, <1>6, <1>8
<1>11. Distinct(list) => Distinct(d)
  BY <1>5, <1>6, <1>8 DEF Distinct
<1> QED BY <1>4, <1>8, <1>9, <1>10, <1>11

-----------------------------------------------------------------------------
LEMMA InitIInv == Init => IInv
<1> SUFFICES ASSUME Init PROVE IInv
  OBVIOUS
<1>1. items = <<>> /\ DOMAIN items = {} /\ \A t \in Tabs : todo[t] = <<>> /\ DOMAIN todo[t] = {}
  BY DEF Init
<1>2. Types
  BY <1>1 DEF Init, Types, Item, Request, Kinds
<1>3. \A t \in Tabs, k \in Kinds : request[t][k] = Idle
  BY DEF Init
<1>4. DrawnInv /\ SubmitInv /\ FlushInv /\ GivesUpLate
  BY <1>1, <1>3 DEF Init, DrawnInv, SubmitInv, FlushInv, GivesUpLate, Kinds
<1>5. QueueInv /\ AttemptsInv
  BY <1>1 DEF Init, QueueInv, AttemptsInv
<1>6. VerifiedInv
  BY <1>3 DEF Init, VerifiedInv, Idle
<1> QED BY <1>2, <1>4, <1>5, <1>6 DEF IInv

(* What is known of a list of the queue's items.                            *)
LEMMA ItemsOf ==
  ASSUME NEW list \in Seq(Item)
  PROVE  \A i \in DOMAIN list : /\ list[i] \in Item /\ list[i].ev \in Evidence
                                /\ list[i].attempts \in Nat
<1>1. Item = [ev : Evidence, attempts : 1..(MAX_ATTEMPTS - 1)] /\ 1..(MAX_ATTEMPTS - 1) \subseteq Nat
  BY MaxAttemptsAssumption DEF Item
<1>2. \A i \in DOMAIN list : list[i] \in Item
  OBVIOUS
<1> QED BY <1>1, <1>2

(* One request of one tab changes, and no other.                            *)
LEMMA OneRequest ==
  ASSUME Types, NEW t \in Tabs, NEW k \in Kinds, NEW v \in {Idle} \cup Request,
         request' = [request EXCEPT ![t][k] = v]
  PROVE  /\ request' \in [Tabs -> [Kinds -> {Idle} \cup Request]]
         /\ request'[t][k] = v
         /\ \A u \in Tabs, j \in Kinds : u # t \/ j # k => request'[u][j] = request[u][j]
BY DEF Types

LEMMA TypedRequests ==
  ASSUME Types, NEW t \in Tabs, NEW k \in Kinds
  PROVE  request[t][k] # Idle => request[t][k] \in Request /\ request[t][k].ev \in Evidence
BY DEF Types, Request

(* Not idle, when it is in some state.                                      *)
LEMMA NotIdle ==
  ASSUME NEW r, r.state \in {"sent"} \cup Answers
  PROVE  r # Idle
BY DEF Idle, Answers

LEMMA SubmitKeeps ==
  ASSUME IInv, NEW t \in Tabs, NEW e \in Evidence, NEW p \in Photos, Submit(t, e, p)
  PROVE  IInv'
<1> DEFINE v == [state |-> "sent", ev |-> e]
<1>1. /\ request[t]["submit"] = Idle /\ imageHash[e] = NoPhoto
      /\ imageHash' = [imageHash EXCEPT ![e] = p]
      /\ request' = [request EXCEPT ![t]["submit"] = v]
      /\ UNCHANGED <<items, sentImageHash, todo, rows, late, told, serverErrors, faults>>
  BY DEF Submit, Send, server
<1>2. Types /\ v \in Request /\ "submit" \in Kinds /\ "flush" \in Kinds
  BY DEF IInv, Request, Kinds
<1>3. /\ request' \in [Tabs -> [Kinds -> {Idle} \cup Request]]
      /\ request'[t]["submit"] = v
      /\ \A u \in Tabs, j \in Kinds : u # t \/ j # "submit" => request'[u][j] = request[u][j]
  BY <1>1, <1>2, OneRequest
<1>4. Types'
  BY <1>1, <1>2, <1>3 DEF Types
<1>5. p # NoPhoto
  BY NoPhotoAssumption
<1>6. /\ \A d \in Evidence : imageHash[d] # NoPhoto => imageHash'[d] = imageHash[d] /\ d # e
      /\ imageHash'[e] = p
  BY <1>1, <1>2 DEF Types
<1>7. DrawnInv'
  <2>1. \A u \in Tabs, k \in Kinds : request'[u][k] # Idle => imageHash'[request'[u][k].ev] # NoPhoto
    BY <1>2, <1>3, <1>5, <1>6, TypedRequests DEF IInv, DrawnInv, Drawn
  <2>2. \A d \in rows \cup late : imageHash'[d] # NoPhoto
    BY <1>2, <1>6 DEF IInv, DrawnInv, Drawn, Types
  <2>3. \A d \in Evidence : told[d] # {} => imageHash'[d] # NoPhoto
    BY <1>6 DEF IInv, DrawnInv, Drawn
  <2> QED BY <1>1, <2>1, <2>2, <2>3 DEF DrawnInv, Drawn
<1>8. SubmitInv'
  <2>1. told[e] = {}
    BY <1>1 DEF IInv, DrawnInv, Drawn
  <2>2. \A u \in Tabs : request[u]["submit"] # Idle => request[u]["submit"].ev # e
    BY <1>1, <1>2 DEF IInv, DrawnInv, Drawn
  <2> QED BY <1>1, <1>2, <1>3, <2>1, <2>2 DEF IInv, SubmitInv
<1>9. FlushInv' /\ QueueInv' /\ AttemptsInv' /\ GivesUpLate'
  BY <1>1, <1>2, <1>3 DEF IInv, FlushInv, QueueInv, AttemptsInv, GivesUpLate
<1>10. VerifiedInv'
  <2>1. \A u \in Tabs, k \in Kinds : request'[u][k].state = "verdict" => request'[u][k].ev \in rows
    BY <1>2, <1>3 DEF IInv, VerifiedInv
  <2>2. \A r \in rows : imageHash'[r] = imageHash[r]
    BY <1>2, <1>6 DEF IInv, DrawnInv, Drawn, Types
  <2> QED BY <1>1, <2>1, <2>2 DEF IInv, VerifiedInv
<1> QED BY <1>4, <1>7, <1>8, <1>9, <1>10 DEF IInv

LEMMA StartFlushKeeps ==
  ASSUME IInv, NEW t \in Tabs, StartFlush(t)
  PROVE  IInv'
<1>1. /\ request[t]["flush"] = Idle /\ todo' = [todo EXCEPT ![t] = items]
      /\ UNCHANGED <<items, sentImageHash, request, imageHash, rows, late, told, serverErrors, faults>>
  BY DEF StartFlush, server
<1>2. Types /\ todo'[t] = items /\ \A u \in Tabs \ {t} : todo'[u] = todo[u]
  BY <1>1 DEF IInv, Types
<1>3. Types'
  BY <1>1, <1>2 DEF Types
<1>4. DrawnInv' /\ SubmitInv' /\ QueueInv' /\ VerifiedInv' /\ GivesUpLate'
  BY <1>1 DEF IInv, DrawnInv, Drawn, SubmitInv, QueueInv, VerifiedInv, GivesUpLate
<1>5. \A i \in DOMAIN items : "queued" \in told[items[i].ev]
  <2> TAKE i \in DOMAIN items
  <2>1. items[i].ev \in Evidence
    BY <1>2, ItemsOf DEF Types
  <2> QED BY <2>1 DEF IInv, QueueInv
<1>6. FlushInv' /\ AttemptsInv'
  BY <1>1, <1>2, <1>5 DEF IInv, FlushInv, AttemptsInv
<1> QED BY <1>3, <1>4, <1>6 DEF IInv

LEMMA SendNextKeeps ==
  ASSUME IInv, NEW t \in Tabs, SendNext(t)
  PROVE  IInv'
<1> DEFINE e == Head(todo[t]).ev
           v == [state |-> "sent", ev |-> e]
<1>1. /\ todo[t] # <<>> /\ request' = [request EXCEPT ![t]["flush"] = v]
      /\ UNCHANGED <<items, sentImageHash, todo, imageHash, rows, late, told, serverErrors, faults>>
  BY DEF SendNext, Send, server
<1>2. Types /\ "submit" \in Kinds /\ "flush" \in Kinds
  BY DEF IInv, Kinds
<1>3. todo[t] \in Seq(Item) /\ 1 \in DOMAIN todo[t] /\ Head(todo[t]) = todo[t][1]
  BY <1>1, <1>2 DEF Types
<1>4. e \in Evidence /\ "queued" \in told[e] /\ Drawn(e)
  <2>1. e \in Evidence
    BY <1>3, ItemsOf
  <2>2. "queued" \in told[e]
    BY <1>3 DEF IInv, FlushInv
  <2> QED BY <2>1, <2>2 DEF IInv, DrawnInv
<1>5. v \in Request
  BY <1>4 DEF Request
<1>6. /\ request' \in [Tabs -> [Kinds -> {Idle} \cup Request]]
      /\ request'[t]["flush"] = v
      /\ \A u \in Tabs, j \in Kinds : u # t \/ j # "flush" => request'[u][j] = request[u][j]
  BY <1>1, <1>2, <1>5, OneRequest
<1>7. Types'
  BY <1>1, <1>2, <1>6 DEF Types
<1>8. DrawnInv'
  BY <1>1, <1>2, <1>4, <1>6 DEF IInv, DrawnInv, Drawn
<1>9. SubmitInv' /\ QueueInv' /\ AttemptsInv' /\ GivesUpLate'
  <2>1. SubmitInv'
    BY <1>1, <1>2, <1>6 DEF IInv, SubmitInv
  <2>2. QueueInv' /\ AttemptsInv' /\ GivesUpLate'
    BY <1>1 DEF IInv, QueueInv, AttemptsInv, GivesUpLate
  <2> QED BY <2>1, <2>2
<1>10. FlushInv'
  BY <1>1, <1>2, <1>6 DEF IInv, FlushInv
<1>11. VerifiedInv'
  BY <1>1, <1>2, <1>6 DEF IInv, VerifiedInv
<1> QED BY <1>7, <1>8, <1>9, <1>10, <1>11 DEF IInv

(* The verifier answers k's request for e, which has no row, or has it now. *)
LEMMA VerifyKeeps ==
  ASSUME IInv, NEW t \in Tabs, NEW k \in Kinds, Verify(t, k)
  PROVE  IInv'
<1> DEFINE e == request[t][k].ev
<1>1. Types /\ request[t][k] # Idle /\ request[t][k] \in Request /\ e \in Evidence
  BY NotIdle, TypedRequests DEF IInv, Verify, Answers
<1>2. PICK state \in Answers :
        /\ request' = [request EXCEPT ![t][k] = [@ EXCEPT !.state = state]]
        /\ rows \subseteq rows' /\ rows' \subseteq rows \cup {e}
        /\ state = "verdict" => e \in rows'
        /\ rows' # rows => e \notin rows /\ \A r \in rows : imageHash[r] # imageHash[e]
  BY DEF Verify, Verified, Accepts, Answers
<1>3. UNCHANGED <<items, sentImageHash, todo, imageHash, late, told, serverErrors, faults>>
  BY DEF Verify
<1> DEFINE v == [state |-> state, ev |-> e]
<1>4. v \in Request /\ request' = [request EXCEPT ![t][k] = v]
  <2>1. [request[t][k] EXCEPT !.state = state] = v /\ v \in Request
    BY <1>1, <1>2 DEF Request
  <2> QED BY <1>2, <2>1
<1>5. /\ request' \in [Tabs -> [Kinds -> {Idle} \cup Request]]
      /\ request'[t][k] = v
      /\ \A u \in Tabs, j \in Kinds : u # t \/ j # k => request'[u][j] = request[u][j]
  BY <1>1, <1>4, OneRequest
<1>6. Types'
  BY <1>1, <1>2, <1>3, <1>5 DEF Types
<1>7. \A u \in Tabs, j \in Kinds : request'[u][j] # Idle => request[u][j] # Idle /\ request'[u][j].ev = request[u][j].ev
  BY <1>1, <1>5
<1>8. DrawnInv'
  BY <1>1, <1>2, <1>3, <1>7 DEF IInv, DrawnInv, Drawn
<1>9. SubmitInv'
  <2>1. "submit" \in Kinds
    BY DEF Kinds
  <2> QED BY <1>3, <1>7, <2>1 DEF IInv, SubmitInv
<1>10. FlushInv'
  <2>1. "flush" \in Kinds
    BY DEF Kinds
  <2> QED BY <1>3, <1>7, <2>1 DEF IInv, FlushInv
<1>11. QueueInv' /\ AttemptsInv' /\ GivesUpLate'
  BY <1>3 DEF IInv, QueueInv, AttemptsInv, GivesUpLate
<1>12. VerifiedInv'
  <2>1. \A u \in Tabs, j \in Kinds : request'[u][j].state = "verdict" => request'[u][j].ev \in rows'
    BY <1>2, <1>5 DEF IInv, VerifiedInv
  <2>2. \A d \in Evidence : "sent" \in told[d] => d \in rows'
    BY <1>2 DEF IInv, VerifiedInv
  <2>3. \A r, s \in rows' : imageHash[r] = imageHash[s] => r = s
    BY <1>2 DEF IInv, VerifiedInv
  <2> QED BY <1>3, <2>1, <2>2, <2>3 DEF VerifiedInv
<1> QED BY <1>6, <1>8, <1>9, <1>10, <1>11, <1>12 DEF IInv

LEMMA VerifyLateKeeps ==
  ASSUME IInv, NEW e \in Evidence, VerifyLate(e)
  PROVE  IInv'
<1>1. /\ rows \subseteq rows' /\ rows' \subseteq rows \cup {e}
      /\ rows' # rows => e \notin rows /\ \A r \in rows : imageHash[r] # imageHash[e]
      /\ e \in late /\ late' = late \ {e}
  BY DEF VerifyLate, Verified, Accepts
<1>2. UNCHANGED <<items, sentImageHash, todo, request, imageHash, told, serverErrors, faults>>
  BY DEF VerifyLate
<1>3. Types'
  BY <1>1, <1>2 DEF IInv, Types
<1>4. DrawnInv'
  BY <1>1, <1>2 DEF IInv, DrawnInv, Drawn
<1>5. SubmitInv' /\ FlushInv' /\ QueueInv' /\ AttemptsInv' /\ GivesUpLate'
  BY <1>2 DEF IInv, SubmitInv, FlushInv, QueueInv, AttemptsInv, GivesUpLate
<1>6. VerifiedInv'
  <2>1. \A u \in Tabs, j \in Kinds : request[u][j].state = "verdict" => request[u][j].ev \in rows'
    BY <1>1 DEF IInv, VerifiedInv
  <2>2. \A d \in Evidence : "sent" \in told[d] => d \in rows'
    BY <1>1 DEF IInv, VerifiedInv
  <2>3. \A r, s \in rows' : imageHash[r] = imageHash[s] => r = s
    BY <1>1 DEF IInv, VerifiedInv
  <2> QED BY <1>2, <2>1, <2>2, <2>3 DEF VerifiedInv
<1> QED BY <1>3, <1>4, <1>5, <1>6 DEF IInv

-----------------------------------------------------------------------------
(* A send that has come back was on its way; a verdict comes of a row.      *)
LEMMA WhatReturns ==
  ASSUME IInv, NEW t \in Tabs, NEW k \in Kinds, NEW answer \in Answers \cup Failures, Returns(t, k, answer)
  PROVE  /\ request[t][k] # Idle /\ request[t][k].ev \in Evidence
         /\ late' \subseteq late \cup {request[t][k].ev}
         /\ answer = "verdict" => request[t][k].ev \in rows
<1>1. request[t][k] # Idle
  BY NotIdle DEF Returns
<1>2. request[t][k].ev \in Evidence
  BY <1>1, TypedRequests DEF IInv
<1>3. late' \subseteq late \cup {request[t][k].ev}
  BY DEF Returns
<1>4. answer = "verdict" => request[t][k].ev \in rows
  BY DEF Returns, Failures, IInv, VerifiedInv
<1> QED BY <1>1, <1>2, <1>3, <1>4

LEMMA Counts ==
  ASSUME Types, NEW e \in Evidence, NEW answer, Count(e, answer)
  PROVE  /\ serverErrors' \in [Evidence -> Nat]
         /\ \A d \in Evidence : serverErrors[d] <= serverErrors'[d]
         /\ answer \in Failures \ {"offline"} => serverErrors'[e] = serverErrors[e] + 1
<1>1. serverErrors \in [Evidence -> Nat]
  BY DEF Types
<1>2. CASE answer \in Failures \ {"offline"}
  BY <1>1, <1>2 DEF Count
<1>3. CASE answer \notin Failures \ {"offline"}
  BY <1>1, <1>3 DEF Count
<1> QED BY <1>2, <1>3

(* Attempts lag behind the errors that are counted.                         *)
LEMMA CopiesLag ==
  ASSUME IInv, \A d \in Evidence : serverErrors[d] <= serverErrors'[d],
         serverErrors' \in [Evidence -> Nat]
  PROVE  /\ \A i \in DOMAIN items : items[i].attempts <= serverErrors'[items[i].ev] + 1
         /\ \A u \in Tabs : \A i \in DOMAIN todo[u] :
              todo[u][i].attempts <= serverErrors'[todo[u][i].ev] + 1
         /\ \A d \in Evidence : "gaveUp" \in told[d] => serverErrors'[d] >= MAX_ATTEMPTS - 1
<1>1. serverErrors \in [Evidence -> Nat] /\ MAX_ATTEMPTS \in Nat
  BY MaxAttemptsAssumption DEF IInv, Types
<1>2. \A i \in DOMAIN items : items[i].ev \in Evidence /\ items[i].attempts \in Nat
  BY ItemsOf DEF IInv, Types
<1>3. \A u \in Tabs : \A i \in DOMAIN todo[u] : todo[u][i].ev \in Evidence /\ todo[u][i].attempts \in Nat
  BY ItemsOf DEF IInv, Types
<1>4. \A i \in DOMAIN items : items[i].attempts <= serverErrors'[items[i].ev] + 1
  <2> TAKE i \in DOMAIN items
  <2>1. items[i].attempts <= serverErrors[items[i].ev] + 1
    BY DEF IInv, AttemptsInv
  <2>2. serverErrors[items[i].ev] <= serverErrors'[items[i].ev]
    BY <1>2
  <2>3. serverErrors[items[i].ev] \in Nat /\ serverErrors'[items[i].ev] \in Nat
    BY <1>1, <1>2
  <2> QED BY <1>2, <2>1, <2>2, <2>3
<1>5. \A u \in Tabs : \A i \in DOMAIN todo[u] :
        todo[u][i].attempts <= serverErrors'[todo[u][i].ev] + 1
  <2> TAKE u \in Tabs
  <2> TAKE i \in DOMAIN todo[u]
  <2>1. todo[u][i].attempts <= serverErrors[todo[u][i].ev] + 1
    BY DEF IInv, AttemptsInv
  <2>2. serverErrors[todo[u][i].ev] <= serverErrors'[todo[u][i].ev]
    BY <1>3
  <2>3. serverErrors[todo[u][i].ev] \in Nat /\ serverErrors'[todo[u][i].ev] \in Nat
    BY <1>1, <1>3
  <2> QED BY <1>3, <2>1, <2>2, <2>3
<1>6. \A d \in Evidence : "gaveUp" \in told[d] => serverErrors'[d] >= MAX_ATTEMPTS - 1
  <2> TAKE d \in Evidence
  <2> HAVE "gaveUp" \in told[d]
  <2>1. serverErrors[d] >= MAX_ATTEMPTS - 1
    BY DEF IInv, GivesUpLate
  <2> QED BY <1>1, <2>1
<1> QED BY <1>4, <1>5, <1>6

(* The request of t is over, and nothing else has changed in memory.        *)
LEMMA RequestEnds ==
  ASSUME Types, NEW t \in Tabs, NEW k \in Kinds, request' = [request EXCEPT ![t][k] = Idle]
  PROVE  /\ request' \in [Tabs -> [Kinds -> {Idle} \cup Request]]
         /\ request'[t][k] = Idle
         /\ \A u \in Tabs, j \in Kinds :
              request'[u][j] # Idle => request'[u][j] = request[u][j] /\ (u # t \/ j # k)
<1>1. Idle \in {Idle} \cup Request
  OBVIOUS
<1>2. /\ request' \in [Tabs -> [Kinds -> {Idle} \cup Request]]
      /\ request'[t][k] = Idle
      /\ \A u \in Tabs, j \in Kinds : u # t \/ j # k => request'[u][j] = request[u][j]
  BY <1>1, OneRequest
<1> QED BY <1>2

(* The user is told one more thing of e.                                    *)
LEMMA Told ==
  ASSUME Types, NEW e \in Evidence, NEW what \in {"sent", "queued", "failed", "gaveUp"}, Tell(e, what)
  PROVE  /\ told' \in [Evidence -> SUBSET {"sent", "queued", "failed", "gaveUp"}]
         /\ told'[e] = told[e] \cup {what}
         /\ \A d \in Evidence : d # e => told'[d] = told[d]
BY DEF Types, Tell

(* The queue after an item of e joins it at the end.                        *)
Joined(after, list, e) ==
  /\ after \in Seq(Item) /\ Distinct(after)
  /\ \A k \in DOMAIN after : after[k] = [ev |-> e, attempts |-> 1]
                             \/ \E i \in DOMAIN list : after[k] = list[i]
  /\ \A i \in DOMAIN list : list[i].ev # e => \E k \in DOMAIN after : after[k] = list[i]
  /\ \E k \in DOMAIN after : after[k].ev = e

LEMMA Joins ==
  ASSUME NEW list \in Seq(Item), Distinct(list), NEW e \in Evidence, NEW after,
         after = Append(Drop(list, e), [ev |-> e, attempts |-> 1])
  PROVE  Joined(after, list, e)
<1>1. PICK d : d = Drop(list, e)
  OBVIOUS
<1>2. PICK x : x = [ev |-> e, attempts |-> 1]
  OBVIOUS
<1>3. x \in Item /\ x.ev = e
  BY <1>2, MaxAttemptsAssumption DEF Item
<1>4. /\ d \in Seq(Item) /\ Distinct(d)
      /\ \A k \in DOMAIN d : d[k].ev # e /\ \E i \in DOMAIN list : d[k] = list[i]
      /\ \A i \in DOMAIN list : list[i].ev # e => \E k \in DOMAIN d : d[k] = list[i]
  BY <1>1, DropKeeps
<1>5. /\ after = Append(d, x) /\ after \in Seq(Item)
      /\ DOMAIN d = 1..Len(d) /\ DOMAIN after = 1..Len(d) + 1 /\ Len(d) \in Nat
      /\ \A k \in DOMAIN d : k \in DOMAIN after /\ after[k] = d[k]
      /\ after[Len(d) + 1] = x
  BY <1>1, <1>2, <1>3, <1>4
<1>6. \A k \in DOMAIN after : k \in DOMAIN d \/ k = Len(d) + 1
  BY <1>5
<1>7. Distinct(after)
  BY <1>3, <1>4, <1>5, <1>6 DEF Distinct
<1>8. \A k \in DOMAIN after : after[k] = x \/ \E i \in DOMAIN list : after[k] = list[i]
  BY <1>4, <1>5, <1>6
<1>9. \A i \in DOMAIN list : list[i].ev # e => \E k \in DOMAIN after : after[k] = list[i]
  BY <1>4, <1>5
<1>10. Len(d) + 1 \in DOMAIN after /\ after[Len(d) + 1].ev = e
  BY <1>3, <1>5
<1> QED BY <1>2, <1>5, <1>7, <1>8, <1>9, <1>10 DEF Joined

LEMMA SubmitReturnsKeeps ==
  ASSUME IInv, NEW t \in Tabs, NEW answer \in Answers \cup Failures, SubmitReturns(t, answer)
  PROVE  IInv'
<1> DEFINE e == request[t]["submit"].ev
<1>1. Types /\ Returns(t, "submit", answer) /\ "submit" \in Kinds /\ "flush" \in Kinds
  BY DEF SubmitReturns, IInv, Kinds
<1>2. /\ request[t]["submit"] # Idle /\ e \in Evidence
      /\ late' \subseteq late \cup {e}
      /\ answer = "verdict" => e \in rows
  BY <1>1, WhatReturns
<1>3. told[e] = {} /\ Drawn(e)
  BY <1>1, <1>2 DEF IInv, SubmitInv, DrawnInv
<1>4. /\ request' \in [Tabs -> [Kinds -> {Idle} \cup Request]]
      /\ \A u \in Tabs, j \in Kinds :
           request'[u][j] # Idle => request'[u][j] = request[u][j] /\ (u # t \/ j # "submit")
  <2>1. request' = [request EXCEPT ![t]["submit"] = Idle]
    BY DEF SubmitReturns
  <2> QED BY <1>1, <2>1, RequestEnds
<1>5. /\ serverErrors' \in [Evidence -> Nat]
      /\ \A d \in Evidence : serverErrors[d] <= serverErrors'[d]
  BY <1>1, <1>2, Counts DEF SubmitReturns
<1>6. PICK what \in {"sent", "queued", "failed"} :
        /\ Tell(e, what)
        /\ what = "queued" => items' = Append(Drop(items, e), [ev |-> e, attempts |-> 1])
        /\ what # "queued" => items' = items
        /\ what = "sent" => answer = "verdict"
        /\ sentImageHash' = sentImageHash \/ sentImageHash' = [sentImageHash EXCEPT ![t] = imageHash[e]]
  BY DEF SubmitReturns, IsOk, Spent
<1>7. UNCHANGED <<todo, imageHash, rows>>
  BY DEF SubmitReturns
<1>8. /\ told' \in [Evidence -> SUBSET {"sent", "queued", "failed", "gaveUp"}]
      /\ told'[e] = {what}
      /\ \A d \in Evidence : d # e => told'[d] = told[d]
  BY <1>1, <1>2, <1>3, <1>6, Told
<1>9. \A i \in DOMAIN items : items[i].ev \in Evidence /\ items[i].ev # e
  <2>1. \A i \in DOMAIN items : items[i].ev \in Evidence
    BY <1>1, ItemsOf DEF Types
  <2> QED BY <1>2, <1>3, <2>1 DEF IInv, QueueInv
<1>10. /\ items' \in Seq(Item) /\ Distinct(items')
       /\ \A k \in DOMAIN items' : (items'[k] = [ev |-> e, attempts |-> 1] /\ what = "queued")
                                   \/ \E i \in DOMAIN items : items'[k] = items[i]
       /\ \A i \in DOMAIN items : \E k \in DOMAIN items' : items'[k] = items[i]
       /\ what = "queued" => \E k \in DOMAIN items' : items'[k].ev = e
  <2>1. items \in Seq(Item) /\ Distinct(items)
    BY <1>1 DEF Types, IInv, QueueInv, Distinct
  <2>2. CASE what = "queued"
    <3>1. PICK after : after = items'
      OBVIOUS
    <3>2. after = Append(Drop(items, e), [ev |-> e, attempts |-> 1])
      BY <1>6, <2>2, <3>1
    <3>3. Joined(after, items, e)
      BY <1>2, <2>1, <3>2, Joins
    <3> QED BY <1>9, <2>2, <3>1, <3>3 DEF Joined
  <2>3. CASE what # "queued"
    BY <1>6, <2>1, <2>3 DEF Distinct
  <2> QED BY <2>2, <2>3
<1>11. Types'
  <2>1. sentImageHash' \in [Tabs -> Photos \cup {NoPhoto}]
    BY <1>1, <1>2, <1>6 DEF Types
  <2> QED BY <1>1, <1>2, <1>4, <1>5, <1>7, <1>8, <1>10, <2>1 DEF Types
<1>12. DrawnInv'
  BY <1>2, <1>3, <1>4, <1>7, <1>8 DEF IInv, DrawnInv, Drawn
<1>13. SubmitInv'
  <2>1. \A u \in Tabs : request'[u]["submit"] # Idle =>
          /\ request'[u]["submit"] = request[u]["submit"]
          /\ request[u]["submit"].ev \in Evidence /\ request[u]["submit"].ev # e
    BY <1>1, <1>2, <1>4, TypedRequests DEF IInv, SubmitInv
  <2> QED BY <1>8, <2>1 DEF IInv, SubmitInv
<1>14. FlushInv'
  <2>1. \A u \in Tabs : \A i \in DOMAIN todo[u] : "queued" \in told'[todo[u][i].ev]
    BY <1>1, <1>3, <1>8, ItemsOf DEF IInv, FlushInv, Types
  <2> QED BY <1>1, <1>4, <1>7, <2>1 DEF IInv, FlushInv
<1>15. QueueInv'
  <2>1. \A d \in Evidence : (\E k \in DOMAIN items' : items'[k].ev = d) <=> told'[d] = {"queued"}
    <3> TAKE d \in Evidence
    <3>1. CASE d = e
      BY <1>8, <1>9, <1>10, <3>1
    <3>2. CASE d # e
      <4>1. (\E k \in DOMAIN items' : items'[k].ev = d) <=> (\E i \in DOMAIN items : items[i].ev = d)
        BY <1>10, <3>2
      <4> QED BY <1>8, <3>2, <4>1 DEF IInv, QueueInv
    <3> QED BY <3>1, <3>2
  <2> QED BY <1>10, <2>1 DEF QueueInv, Distinct
<1>16. VerifiedInv'
  <2>1. \A u \in Tabs, k \in Kinds : request'[u][k].state = "verdict" => request'[u][k].ev \in rows
    BY <1>4, NotIdle DEF IInv, VerifiedInv, Answers
  <2>2. \A d \in Evidence : "sent" \in told'[d] => d \in rows
    BY <1>2, <1>6, <1>8 DEF IInv, VerifiedInv
  <2> QED BY <1>7, <2>1, <2>2 DEF IInv, VerifiedInv
<1>17. AttemptsInv'
  <2>1. \A k \in DOMAIN items' : items'[k].attempts <= serverErrors'[items'[k].ev] + 1
    BY <1>2, <1>5, <1>10, CopiesLag
  <2> QED BY <1>5, <1>7, <2>1, CopiesLag DEF AttemptsInv
<1>18. GivesUpLate'
  BY <1>5, <1>8, CopiesLag DEF GivesUpLate
<1> QED BY <1>11, <1>12, <1>13, <1>14, <1>15, <1>16, <1>17, <1>18 DEF IInv

(* What a turn of the flush leaves of the queue: all but what it is about,  *)
(* which is gone or has its attempts set.                                   *)
LEMMA FlushReturnsKeeps ==
  ASSUME IInv, NEW t \in Tabs, NEW answer \in Answers \cup Failures, FlushReturns(t, answer)
  PROVE  IInv'
<1> DEFINE e == Head(todo[t]).ev
           n == Head(todo[t]).attempts + 1
<1>1. Types /\ Returns(t, "flush", answer) /\ "submit" \in Kinds /\ "flush" \in Kinds
  BY DEF FlushReturns, IInv, Kinds
<1>2. /\ request[t]["flush"] # Idle /\ request[t]["flush"].ev \in Evidence
      /\ late' \subseteq late \cup {request[t]["flush"].ev}
      /\ answer = "verdict" => request[t]["flush"].ev \in rows
  BY <1>1, WhatReturns
<1>3. todo[t] # <<>> /\ request[t]["flush"].ev = e
  BY <1>2 DEF IInv, FlushInv
<1>4. /\ todo[t] \in Seq(Item) /\ 1 \in DOMAIN todo[t] /\ Head(todo[t]) = todo[t][1]
      /\ Tail(todo[t]) \in Seq(Item)
      /\ \A i \in DOMAIN Tail(todo[t]) : i + 1 \in DOMAIN todo[t] /\ Tail(todo[t])[i] = todo[t][i + 1]
  BY <1>1, <1>3 DEF Types
<1>5. e \in Evidence /\ "queued" \in told[e] /\ Head(todo[t]).attempts \in 1..(MAX_ATTEMPTS - 1)
  <2>1. Head(todo[t]) \in Item /\ "queued" \in told[e]
    BY <1>4 DEF IInv, FlushInv
  <2>2. Head(todo[t]).ev \in Evidence /\ Head(todo[t]).attempts \in 1..(MAX_ATTEMPTS - 1)
    BY <2>1 DEF Item
  <2> QED BY <2>1, <2>2, MaxAttemptsAssumption
<1>6. Drawn(e)
  BY <1>5 DEF IInv, DrawnInv
<1>7. /\ request' \in [Tabs -> [Kinds -> {Idle} \cup Request]]
      /\ request'[t]["flush"] = Idle
      /\ \A u \in Tabs, j \in Kinds :
           request'[u][j] # Idle => request'[u][j] = request[u][j] /\ (u # t \/ j # "flush")
  <2>1. request' = [request EXCEPT ![t]["flush"] = Idle]
    BY DEF FlushReturns
  <2> QED BY <1>1, <2>1, RequestEnds
<1>8. /\ serverErrors' \in [Evidence -> Nat]
      /\ \A d \in Evidence : serverErrors[d] <= serverErrors'[d]
      /\ answer \in Failures \ {"offline"} => serverErrors'[e] = serverErrors[e] + 1
  <2>1. Count(e, answer)
    BY DEF FlushReturns
  <2> QED BY <1>1, <1>5, <2>1, Counts
<1>9. UNCHANGED <<sentImageHash, imageHash, rows>>
  BY DEF FlushReturns
<1>10. /\ todo' \in [Tabs -> Seq(Item)]
       /\ \A u \in Tabs : u # t => todo'[u] = todo[u]
       /\ \A i \in DOMAIN todo'[t] : \E j \in DOMAIN todo[t] : todo'[t][i] = todo[t][j]
  <2>1. PICK rest \in {<<>>, Tail(todo[t])} : todo' = [todo EXCEPT ![t] = rest]
    BY DEF FlushReturns
  <2>2. rest \in Seq(Item) /\ \A i \in DOMAIN rest : \E j \in DOMAIN todo[t] : rest[i] = todo[t][j]
    <3>1. CASE rest = <<>>
      BY <3>1
    <3>2. CASE rest = Tail(todo[t])
      BY <1>4, <3>2
    <3> QED BY <3>1, <3>2
  <2> QED BY <1>1, <2>1, <2>2 DEF Types
<1>11. Head(todo[t]).attempts <= serverErrors[e] + 1 /\ serverErrors[e] \in Nat
  <2>1. todo[t][1].attempts <= serverErrors[todo[t][1].ev] + 1
    BY <1>4 DEF IInv, AttemptsInv
  <2> QED BY <1>1, <1>4, <1>5, <2>1 DEF Types
<1>12. \A i \in DOMAIN items : items[i] \in Item /\ items[i].ev \in Evidence
  BY <1>1, ItemsOf DEF Types
<1>13. items \in Seq(Item) /\ Distinct(items)
  BY <1>1 DEF Types, IInv, QueueInv, Distinct
<1>ended. ASSUME items' = Drop(items, e), NEW what \in {"sent", "failed", "gaveUp"}, Tell(e, what),
                 what = "sent" => answer = "verdict",
                 what = "gaveUp" => answer \in Failures \ {"offline"} /\ n >= MAX_ATTEMPTS
          PROVE  IInv'
  <2>1. PICK after : after = items'
    OBVIOUS
  <2>2. /\ after \in Seq(Item) /\ Distinct(after)
        /\ \A k \in DOMAIN after : after[k].ev # e /\ \E i \in DOMAIN items : after[k] = items[i]
        /\ \A i \in DOMAIN items : items[i].ev # e => \E k \in DOMAIN after : after[k] = items[i]
    BY <1>13, <1>ended, <2>1, DropKeeps
  <2>3. /\ told' \in [Evidence -> SUBSET {"sent", "queued", "failed", "gaveUp"}]
        /\ told'[e] = told[e] \cup {what}
        /\ \A d \in Evidence : d # e => told'[d] = told[d]
    BY <1>1, <1>5, <1>ended, Told
  <2>4. Types'
    BY <1>1, <1>2, <1>7, <1>8, <1>9, <1>10, <2>1, <2>2, <2>3 DEF Types
  <2>5. DrawnInv'
    BY <1>2, <1>3, <1>6, <1>7, <1>9, <2>3 DEF IInv, DrawnInv, Drawn
  <2>6. SubmitInv'
    <3>1. \A u \in Tabs : request'[u]["submit"] # Idle =>
            /\ request'[u]["submit"] = request[u]["submit"]
            /\ request[u]["submit"].ev \in Evidence /\ request[u]["submit"].ev # e
      BY <1>1, <1>5, <1>7, TypedRequests DEF IInv, SubmitInv
    <3> QED BY <2>3, <3>1 DEF IInv, SubmitInv
  <2>7. FlushInv'
    <3>1. \A u \in Tabs : \A i \in DOMAIN todo[u] : "queued" \in told'[todo[u][i].ev]
      BY <1>1, <2>3, ItemsOf DEF IInv, FlushInv, Types
    <3>2. \A u \in Tabs : \A i \in DOMAIN todo'[u] : "queued" \in told'[todo'[u][i].ev]
      BY <1>10, <3>1
    <3>3. \A u \in Tabs : request'[u]["flush"] # Idle =>
            todo'[u] # <<>> /\ request'[u]["flush"].ev = Head(todo'[u]).ev
      BY <1>1, <1>7, <1>10 DEF IInv, FlushInv
    <3> QED BY <3>2, <3>3 DEF FlushInv
  <2>8. QueueInv'
    <3>1. \A d \in Evidence : (\E k \in DOMAIN after : after[k].ev = d) <=> told'[d] = {"queued"}
      <4> TAKE d \in Evidence
      <4>1. CASE d = e
        BY <2>2, <2>3, <4>1
      <4>2. CASE d # e
        <5>1. (\E k \in DOMAIN after : after[k].ev = d) <=> (\E i \in DOMAIN items : items[i].ev = d)
          BY <2>2, <4>2
        <5> QED BY <2>3, <4>2, <5>1 DEF IInv, QueueInv
      <4> QED BY <4>1, <4>2
    <3> QED BY <2>1, <2>2, <3>1 DEF QueueInv, Distinct
  <2>9. VerifiedInv'
    <3>1. \A u \in Tabs, k \in Kinds : request'[u][k].state = "verdict" => request'[u][k].ev \in rows
      BY <1>7, NotIdle DEF IInv, VerifiedInv, Answers
    <3>2. \A d \in Evidence : "sent" \in told'[d] => d \in rows
      BY <1>2, <1>3, <1>ended, <2>3 DEF IInv, VerifiedInv
    <3> QED BY <1>9, <3>1, <3>2 DEF IInv, VerifiedInv
  <2>10. AttemptsInv'
    <3>1. \A k \in DOMAIN after : after[k].attempts <= serverErrors'[after[k].ev] + 1
      BY <1>8, <2>2, CopiesLag
    <3>2. \A u \in Tabs : \A i \in DOMAIN todo'[u] : todo'[u][i].attempts <= serverErrors'[todo'[u][i].ev] + 1
      BY <1>8, <1>10, CopiesLag
    <3> QED BY <2>1, <3>1, <3>2 DEF AttemptsInv
  <2>11. GivesUpLate'
    <3>1. what = "gaveUp" => serverErrors'[e] >= MAX_ATTEMPTS - 1
      BY <1>5, <1>8, <1>11, <1>ended, MaxAttemptsAssumption
    <3>2. \A d \in Evidence : "gaveUp" \in told[d] => serverErrors'[d] >= MAX_ATTEMPTS - 1
      BY <1>8, CopiesLag
    <3> QED BY <1>5, <2>3, <3>1, <3>2 DEF GivesUpLate
  <2> QED BY <2>4, <2>5, <2>6, <2>7, <2>8, <2>9, <2>10, <2>11 DEF IInv
<1>stays. ASSUME told' = told, items' \in Seq(Item), DOMAIN items' = DOMAIN items,
                 \A i \in DOMAIN items :
                   /\ items'[i].ev = items[i].ev
                   /\ \/ items'[i] = items[i]
                      \/ items[i].ev = e /\ items'[i].attempts = n /\ answer \in Failures \ {"offline"}
          PROVE  IInv'
  <2>1. Types'
    BY <1>1, <1>2, <1>7, <1>8, <1>9, <1>10, <1>stays DEF Types
  <2>2. DrawnInv'
    BY <1>2, <1>3, <1>6, <1>7, <1>9, <1>stays DEF IInv, DrawnInv, Drawn
  <2>3. SubmitInv'
    <3>1. \A u \in Tabs : request'[u]["submit"] # Idle => request'[u]["submit"] = request[u]["submit"]
      BY <1>1, <1>7
    <3> QED BY <1>stays, <3>1 DEF IInv, SubmitInv
  <2>4. FlushInv'
    <3>1. \A u \in Tabs : \A i \in DOMAIN todo'[u] : "queued" \in told[todo'[u][i].ev]
      BY <1>10 DEF IInv, FlushInv
    <3>2. \A u \in Tabs : request'[u]["flush"] # Idle =>
            todo'[u] # <<>> /\ request'[u]["flush"].ev = Head(todo'[u]).ev
      BY <1>1, <1>7, <1>10 DEF IInv, FlushInv
    <3> QED BY <1>stays, <3>1, <3>2 DEF FlushInv
  <2>5. QueueInv'
    BY <1>stays DEF IInv, QueueInv
  <2>6. VerifiedInv'
    <3>1. \A u \in Tabs, k \in Kinds : request'[u][k].state = "verdict" => request'[u][k].ev \in rows
      BY <1>7, NotIdle DEF IInv, VerifiedInv, Answers
    <3> QED BY <1>9, <1>stays, <3>1 DEF IInv, VerifiedInv
  <2>7. AttemptsInv'
    <3>1. \A i \in DOMAIN items : items'[i].attempts <= serverErrors'[items'[i].ev] + 1
      <4> TAKE i \in DOMAIN items
      <4>1. CASE items'[i] = items[i]
        BY <1>8, <4>1, CopiesLag
      <4>2. CASE items[i].ev = e /\ items'[i].attempts = n /\ answer \in Failures \ {"offline"}
        <5>1. serverErrors'[e] = serverErrors[e] + 1 /\ serverErrors[e] \in Nat
          BY <1>1, <1>5, <1>8, <4>2 DEF Types
        <5>2. n <= serverErrors'[e] + 1
          BY <1>5, <1>11, <5>1, MaxAttemptsAssumption
        <5> QED BY <1>stays, <4>2, <5>2
      <4> QED BY <1>stays, <4>1, <4>2
    <3>2. \A u \in Tabs : \A i \in DOMAIN todo'[u] : todo'[u][i].attempts <= serverErrors'[todo'[u][i].ev] + 1
      BY <1>8, <1>10, CopiesLag
    <3> QED BY <1>stays, <3>1, <3>2 DEF AttemptsInv
  <2>8. GivesUpLate'
    BY <1>8, <1>stays, CopiesLag DEF GivesUpLate
  <2> QED BY <2>1, <2>2, <2>3, <2>4, <2>5, <2>6, <2>7, <2>8 DEF IInv
<1>14. CASE IsOk(answer) /\ items' = Drop(items, e) /\ Tell(e, "sent")
  BY <1>ended, <1>14 DEF IsOk
<1>15. CASE IsOffline(answer) /\ UNCHANGED <<items, told>>
  BY <1>13, <1>15, <1>stays
<1>16. CASE items' = Drop(items, e) /\ Tell(e, "failed")
  BY <1>ended, <1>16
<1>17. CASE /\ ~IsOk(answer) /\ IsRetryable(answer) /\ ~IsOffline(answer) /\ n >= MAX_ATTEMPTS
            /\ items' = Drop(items, e) /\ Tell(e, "gaveUp")
  <2>1. answer \in Failures \ {"offline"}
    BY <1>17 DEF IsRetryable, IsOffline, Failures
  <2> QED BY <1>ended, <1>17, <2>1
<1>18. CASE /\ ~IsOk(answer) /\ IsRetryable(answer) /\ ~IsOffline(answer) /\ n < MAX_ATTEMPTS
            /\ items' = [i \in DOMAIN items |->
                           IF items[i].ev = e THEN [items[i] EXCEPT !.attempts = n] ELSE items[i]]
            /\ UNCHANGED told
  <2>1. answer \in Failures \ {"offline"}
    BY <1>18 DEF IsRetryable, IsOffline, Failures
  <2>2. n \in 1..(MAX_ATTEMPTS - 1)
    <3>1. n < MAX_ATTEMPTS
      BY <1>18
    <3> QED BY <1>5, <3>1, MaxAttemptsAssumption
  <2>3. \A i \in DOMAIN items : /\ [items[i] EXCEPT !.attempts = n] \in Item
                                /\ [items[i] EXCEPT !.attempts = n].ev = items[i].ev
                                /\ [items[i] EXCEPT !.attempts = n].attempts = n
    BY <1>12, <2>2 DEF Item
  <2>4. PICK after : after = items'
    OBVIOUS
  <2>5. /\ DOMAIN after = DOMAIN items
        /\ \A i \in DOMAIN items :
             /\ after[i] \in Item
             /\ after[i].ev = items[i].ev
             /\ after[i] = items[i] \/ (items[i].ev = e /\ after[i].attempts = n)
    BY <1>12, <1>18, <2>3, <2>4
  <2>6. after \in Seq(Item)
    <3>1. DOMAIN items = 1..Len(items) /\ Len(items) \in Nat
      BY <1>13
    <3>2. after \in [1..Len(items) -> Item]
      BY <1>18, <2>4, <2>5, <3>1
    <3> QED BY <3>1, <3>2
  <2> QED BY <1>18, <1>stays, <2>1, <2>4, <2>5, <2>6
<1> QED BY <1>14, <1>15, <1>16, <1>17, <1>18 DEF FlushReturns, List

LEMMA ReloadKeeps ==
  ASSUME IInv, NEW t \in Tabs, Reload(t)
  PROVE  IInv'
<1>1. Types /\ "submit" \in Kinds /\ "flush" \in Kinds
  BY DEF IInv, Kinds
<1>2. /\ sentImageHash' = [sentImageHash EXCEPT ![t] = NoPhoto]
      /\ todo' = [todo EXCEPT ![t] = <<>>]
      /\ request' = [request EXCEPT ![t] = [k \in Kinds |-> Idle]]
      /\ UNCHANGED <<items, imageHash, rows, told, serverErrors>>
  BY DEF Reload
<1>3. /\ request' \in [Tabs -> [Kinds -> {Idle} \cup Request]]
      /\ \A k \in Kinds : request'[t][k] = Idle
      /\ \A u \in Tabs : u # t => request'[u] = request[u]
  BY <1>1, <1>2 DEF Types
<1>4. /\ todo' \in [Tabs -> Seq(Item)]
      /\ \A i \in DOMAIN todo'[t] : FALSE
      /\ \A u \in Tabs : u # t => todo'[u] = todo[u]
  BY <1>1, <1>2 DEF Types
<1>5. \A e \in late' : e \in late \/ (e \in Evidence /\ Drawn(e))
  <2>1. \A e \in late' : e \in late \/ \E k \in Kinds : request[t][k] # Idle /\ request[t][k].ev = e
    BY NotIdle DEF Reload
  <2> QED BY <1>1, <2>1, TypedRequests DEF IInv, DrawnInv
<1>6. Types'
  BY <1>1, <1>2, <1>3, <1>4, <1>5 DEF Types
<1>7. DrawnInv'
  BY <1>2, <1>3, <1>5 DEF IInv, DrawnInv, Drawn
<1>8. SubmitInv'
  BY <1>1, <1>2, <1>3 DEF IInv, SubmitInv
<1>9. FlushInv'
  BY <1>1, <1>2, <1>3, <1>4 DEF IInv, FlushInv
<1>10. QueueInv' /\ GivesUpLate'
  BY <1>2 DEF IInv, QueueInv, GivesUpLate
<1>11. VerifiedInv'
  <2>1. \A u \in Tabs, k \in Kinds : request'[u][k].state = "verdict" => request'[u][k].ev \in rows
    BY <1>3, NotIdle DEF IInv, VerifiedInv, Answers
  <2> QED BY <1>2, <2>1 DEF IInv, VerifiedInv
<1>12. AttemptsInv'
  BY <1>2, <1>4 DEF IInv, AttemptsInv
<1> QED BY <1>6, <1>7, <1>8, <1>9, <1>10, <1>11, <1>12 DEF IInv

-----------------------------------------------------------------------------
LEMMA NextIInv == IInv /\ [Next]_vars => IInv'
<1> SUFFICES ASSUME IInv, [Next]_vars PROVE IInv'
  OBVIOUS
<1>1. CASE UNCHANGED vars
  BY <1>1 DEF vars, server, IInv, Types, DrawnInv, Drawn, SubmitInv, FlushInv, QueueInv, VerifiedInv,
     AttemptsInv, GivesUpLate
<1>2. ASSUME NEW t \in Tabs, Flush(t) PROVE IInv'
  <2>1. "flush" \in Kinds
    BY DEF Kinds
  <2> QED BY <1>2, <2>1, StartFlushKeeps, SendNextKeeps, VerifyKeeps, FlushReturnsKeeps DEF Flush
<1>3. ASSUME NEW t \in Tabs, Verify(t, "submit") PROVE IInv'
  <2>1. "submit" \in Kinds
    BY DEF Kinds
  <2> QED BY <1>3, <2>1, VerifyKeeps
<1>4. CASE Next
  BY <1>2, <1>3, <1>4, SubmitKeeps, SubmitReturnsKeeps, ReloadKeeps, VerifyLateKeeps DEF Next
<1> QED BY <1>1, <1>4

LEMMA Always == Spec => []IInv
<1> QED BY InitIInv, NextIInv, PTL DEF Spec

(* What the user was told is waiting is in the queue, once, until it is     *)
(* told how it ended: however the awaits of submits and flushes in any      *)
(* number of tabs interleave, none loses, revives or doubles an item.       *)
THEOREM QueueKeepsItsWord == Spec => []QueueIsWhatWasTold
<1>1. IInv => QueueIsWhatWasTold
  <2> SUFFICES ASSUME IInv PROVE QueueIsWhatWasTold
    OBVIOUS
  <2>1. TypeOK
    <3>1. \A i \in DOMAIN items : items[i] \in Item
      BY DEF IInv, Types
    <3> QED BY <3>1 DEF IInv, Types, TypeOK, Item
  <2>2. \A e \in Evidence : e \in Queued <=> told[e] = {"queued"}
    BY DEF IInv, QueueInv, Queued
  <2>3. Len(items) = Cardinality(Queued)
    <3> DEFINE ev == [i \in 1..Len(items) |-> items[i].ev]
    <3>1. DOMAIN items = 1..Len(items) /\ Len(items) \in Nat
      BY DEF IInv, Types
    <3>2. ev \in [1..Len(items) -> Queued]
      BY <3>1 DEF Queued
    <3>3. \A i, j \in 1..Len(items) : ev[i] = ev[j] => i = j
      BY <3>1 DEF IInv, QueueInv
    <3>4. \A e \in Queued : \E i \in 1..Len(items) : ev[i] = e
      BY <3>1 DEF Queued
    <3> HIDE DEF ev
    <3>5. ev \in Bijection(1..Len(items), Queued)
      BY <3>2, <3>3, <3>4 DEF Bijection, Injection, Surjection, IsInjective
    <3>6. ExistsBijection(1..Len(items), Queued)
      BY <3>5 DEF ExistsBijection
    <3> QED BY <3>1, <3>6, FS_CountingElements
  <2> QED BY <2>1, <2>2, <2>3 DEF QueueIsWhatWasTold
<1> QED BY Always, <1>1, PTL

(* "Delivered" is never wrong: what was reported sent is with the verifier, *)
(* and no other evidence of its photo is.                                   *)
THEOREM DeliveredIsDelivered == Spec => []SentIsVerified
<1>1. IInv => SentIsVerified
  BY DEF IInv, VerifiedInv, SentIsVerified
<1> QED BY Always, <1>1, PTL

(* Overlapping flushes of several tabs never give an item up early: all but *)
(* one of the attempts were server errors.                                  *)
THEOREM NeverGivesUpEarly == Spec => []GivesUpLate
<1>1. IInv => GivesUpLate
  BY DEF IInv
<1> QED BY Always, <1>1, PTL
=============================================================================
