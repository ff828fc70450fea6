--------------------------- MODULE Producer_proofs --------------------------
(***************************************************************************)
(* What holds of the producer's tables and of its ledger entries for any   *)
(* number of calls, any responses and any centroid table: detections and   *)
(* lots in pairs, counts that are true, and nothing of a response left out *)
(* by a call that answered.                                                *)
(***************************************************************************)
EXTENDS Producer, Rules, FiniteSetTheorems, WellFoundedInduction, TLAPS

IsSeq(s)     == s \in Seq(Range(s))
IsBody(body) == body.header \in BOOLEAN /\ IsSeq(body.lines)

Steps == Ends \cup {"fetch", "openCache", "fillCache", "fallback", "select",
                    "insert", "declare", "appendDecision"}

(* A call that has written nothing, and one whose rows are there for good.  *)
Early == {"fetch", "openCache", "fillCache", "fallback", "select", "declare"}

DetectionRow(d, c) == [table |-> "detections", id |-> d, from |-> {}, by |-> c]
LotRow(d, c)       == [table |-> "lots", id |-> LotIdOf(d), from |-> {d}, by |-> c]
DeclaredRow(c)     == [table |-> "lots", id |-> <<"new", c>>, from |-> {}, by |-> c]

-----------------------------------------------------------------------------
(* The inductive invariant.                                                 *)

CallTypes(c) ==
  /\ IsBody(feed[c]) /\ IsSeq(fresh[c])
  /\ file[c] \in 0..Len(cache)
  /\ pc[c] = "fillCache" => file[c] # 0
  /\ next[c] \in 1..(2 * Planned(c) + 1)
  /\ pc[c] \in Early => next[c] = 1 /\ output[c] = Zero

Types ==
  /\ pc \in [Calls -> Steps]
  /\ DOMAIN feed = Calls /\ DOMAIN file = Calls /\ DOMAIN fresh = Calls
  /\ DOMAIN next = Calls /\ DOMAIN output = Calls
  /\ IsSeq(cache) /\ \A i \in DOMAIN cache : IsBody(cache[i])
  /\ IsSeq(ledger)
  /\ \A c \in Calls : CallTypes(c)

(* Each row is of a call that may have inserted it, and the only one of its *)
(* key.                                                                     *)
RowOK(r) ==
  /\ r.by \in Calls /\ pc[r.by] \notin Early
  /\ \/ r.by \in Declarations /\ r = DeclaredRow(r.by) /\ pc[r.by] # "insert"
     \/ r.by \in Ingests /\ r = DetectionRow(r.id, r.by)
     \/ r.by \in Ingests /\ \E d \in r.from : r = LotRow(d, r.by)

RowInv ==
  /\ \A r \in rows : RowOK(r)
  /\ \A r, s \in rows : r.table = s.table /\ r.id = s.id => r = s

(* A row that c may count on: its own, or one that is committed.            *)
Sure(r, c) == r \in rows /\ (r.by = c \/ pc[r.by] # "insert")

Has(c, table, id) == \E r \in rows : Sure(r, c) /\ r.table = table /\ r.id = id

(* Lots after their detections; all of them when the call has committed;    *)
(* until then, what it has passed in its plan is there.                     *)
PairInv(c) ==
  /\ \A r \in rows : r.by = c /\ r.table = "lots" =>
       \A d \in r.from : DetectionRow(d, c) \in rows
  /\ \A r \in rows : r.by = c /\ r.table = "detections" =>
       IF pc[c] = "insert" THEN r.id \in Range(fresh[c]) ELSE LotRow(r.id, c) \in rows
  /\ pc[c] = "insert" =>
       \A i \in 1..Planned(c) :
         /\ i < next[c] => Has(c, "detections", fresh[c][i])
         /\ Planned(c) + i < next[c] => Has(c, "lots", LotIdOf(fresh[c][i]))

(* Whatever is worth a lot in the response is in the database or the plan.  *)
ListInv(c) ==
  c \in Ingests /\ pc[c] \in {"insert", "appendDecision", "done"} =>
    \A line \in Range(ParseCsv(feed[c])) :
      Wanted(line) =>
        \/ DetectionIdOf(line) \in {r.id : r \in Detections}
        \/ pc[c] = "insert" /\ DetectionIdOf(line) \in Range(fresh[c])

CountInv(c) ==
  pc[c] \in {"appendDecision", "done"} =>
    output[c] = [newDetections |-> Cardinality(RowsBy(c, "detections")),
                 lotsCreated   |-> Cardinality(RowsBy(c, "lots"))]

LedgerInv ==
  \A i \in DOMAIN ledger :
    LET c == ledger[i].call
    IN  /\ c \in Calls /\ pc[c] = "done"
        /\ ledger[i].newDetections = Cardinality(RowsBy(c, "detections"))
        /\ ledger[i].lotsCreated = Cardinality(RowsBy(c, "lots"))
        /\ \A j \in DOMAIN ledger : ledger[j].call = c => i = j

CallInv(c) == PairInv(c) /\ ListInv(c) /\ CountInv(c)

IInv == Types /\ RowInv /\ (\A c \in Calls : CallInv(c)) /\ LedgerInv

-----------------------------------------------------------------------------
(* The plan.                                                                *)

LEMMA SeqOfItsRange ==
  ASSUME NEW S, NEW s \in Seq(S)
  PROVE  IsSeq(s)
<1>1. s \in [1..Len(s) -> S] /\ Len(s) \in Nat
  OBVIOUS
<1>2. s \in [1..Len(s) -> Range(s)]
  BY <1>1 DEF Range
<1> QED BY <1>1, <1>2 DEF IsSeq

LEMMA SmallestOf ==
  ASSUME NEW S, S \subseteq Nat, S # {}
  PROVE  \E x \in S : \A y \in S : x <= y
<1>1. PICK x \in S : \A y \in S : ~ (<<y, x>> \in OpToRel(<, Nat))
  BY NatLessThanWellFounded, WFMin
<1>2. \A y \in S : ~ (y < x)
  BY <1>1 DEF OpToRel
<1> QED BY <1>2

(* The positions in S up to n, and that Nth counts them.                    *)
To(S, n) == {m \in S : m <= n}

LEMMA NthIsRanked ==
  ASSUME NEW S, IsFiniteSet(S), S \subseteq Nat
  PROVE  /\ \A n \in S : /\ Cardinality(To(S, n)) \in 1..Cardinality(S)
                         /\ Nth(S, Cardinality(To(S, n))) = n
         /\ \A i \in 1..Cardinality(S) : Nth(S, i) \in S /\ Cardinality(To(S, Nth(S, i))) = i
<1> DEFINE N == Cardinality(S)
           rank == [n \in S |-> Cardinality(To(S, n))]
<1>1. N \in Nat
  BY FS_CardinalityType
<1>2. \A n \in S : IsFiniteSet(To(S, n)) /\ rank[n] \in Nat /\ rank[n] <= N
  BY FS_Subset, FS_CardinalityType DEF To
<1>3. \A n \in S : rank[n] \in 1..N
  <2> TAKE n \in S
  <2>1. n \in To(S, n)
    BY DEF To
  <2>2. rank[n] # 0
    BY <1>2, <2>1, FS_EmptySet
  <2> QED BY <1>1, <1>2, <2>2
<1>4. \A m, n \in S : m <= n /\ rank[m] = rank[n] => m = n
  <2> TAKE m, n \in S
  <2> HAVE m <= n /\ rank[m] = rank[n]
  <2>1. \A x \in S : x <= m => x <= n
    OBVIOUS
  <2>2. To(S, m) \in SUBSET To(S, n)
    BY <2>1 DEF To
  <2>3. To(S, m) = To(S, n)
    BY <1>2, <2>2, FS_Subset
  <2>4. n \in To(S, n)
    BY DEF To
  <2>5. n \in To(S, m)
    BY <2>3, <2>4
  <2>6. n <= m
    BY <2>5 DEF To
  <2> QED BY <2>6
<1>5. \A m, n \in S : rank[m] = rank[n] => m = n
  <2> TAKE m, n \in S
  <2> m <= n \/ n <= m
    OBVIOUS
  <2> QED BY <1>4
<1>6. rank \in Injection(S, 1..N)
  <2>1. rank \in [S -> 1..N]
    BY <1>3
  <2> HIDE DEF rank
  <2> QED BY <1>5, <2>1 DEF Injection, IsInjective
<1>7. rank \in Surjection(S, 1..N)
  <2>1. IsFiniteSet(1..N) /\ Cardinality(1..N) = N
    BY <1>1, FS_Interval
  <2> HIDE DEF rank, N
  <2> QED BY <1>6, <2>1, FS_Injection DEF N
<1>8. \A i \in 1..N : Nth(S, i) \in S /\ rank[Nth(S, i)] = i
  <2> TAKE i \in 1..N
  <2>1. \E n \in S : rank[n] = i
    BY <1>7 DEF Surjection
  <2>2. \E n \in S : Cardinality({m \in S : m <= n}) = i
    BY <2>1 DEF To
  <2>3. Nth(S, i) \in S /\ Cardinality({m \in S : m <= Nth(S, i)}) = i
    BY <2>2 DEF Nth
  <2> QED BY <2>3 DEF To
<1> HIDE DEF N
<1> QED BY <1>3, <1>5, <1>8 DEF N

(* KeepAt has an element for each position, in their order.                 *)
LEMMA KeepAtIs ==
  ASSUME NEW S, IsFiniteSet(S), NEW seq
  PROVE  /\ Cardinality(S) \in Nat
         /\ KeepAt(seq, S) = [i \in 1..Cardinality(S) |-> seq[Nth(S, i)]]
         /\ Len(KeepAt(seq, S)) = Cardinality(S)
         /\ IsSeq(KeepAt(seq, S))
<1> DEFINE N == Cardinality(S)
           f == [i \in 1..N |-> seq[Nth(S, i)]]
<1>1. N \in Nat
  BY FS_CardinalityType
<1>2. f \in [1..N -> Range(f)]
  BY DEF Range
<1>3. f \in Seq(Range(f)) /\ Len(f) = N
  BY <1>1, <1>2
<1>4. SubSeq(f, 1, N) = f
  BY <1>1, <1>2, <1>3
<1> QED BY <1>1, <1>3, <1>4 DEF KeepAt, IsSeq

(* KeepAt leaves out no position.                                           *)
LEMMA KeepAtIsAll ==
  ASSUME NEW S, IsFiniteSet(S), S \subseteq Nat, NEW seq
  PROVE  /\ IsSeq(KeepAt(seq, S))
         /\ \A n \in S : seq[n] \in Range(KeepAt(seq, S))
<1> DEFINE kept == [i \in 1..Cardinality(S) |-> seq[Nth(S, i)]]
<1>1. KeepAt(seq, S) = kept
  BY KeepAtIs
<1>2. ASSUME NEW n \in S PROVE seq[n] \in Range(kept)
  <2> DEFINE i == Cardinality(To(S, n))
  <2>1. i \in 1..Cardinality(S) /\ Nth(S, i) = n
    BY NthIsRanked
  <2> HIDE DEF i
  <2> QED BY <2>1 DEF Range
<1> HIDE DEF kept
<1> QED BY <1>1, <1>2, KeepAtIs

(* One more position, after all the others.                                 *)
LEMMA KeepAtAppends ==
  ASSUME NEW S, IsFiniteSet(S), S \subseteq Nat, NEW n \in Nat, \A m \in S : m < n, NEW seq
  PROVE  /\ Cardinality(S \cup {n}) = Cardinality(S) + 1
         /\ KeepAt(seq, S \cup {n}) = Append(KeepAt(seq, S), seq[n])
<1> DEFINE T == S \cup {n}
           N == Cardinality(S)
<1>1. n \notin S
  OBVIOUS
<1>2. IsFiniteSet(T) /\ T \subseteq Nat /\ Cardinality(T) = N + 1 /\ N \in Nat
  BY <1>1, FS_AddElement, FS_CardinalityType
<1>3. To(T, n) = T /\ \A m \in S : To(T, m) = To(S, m)
  <2>1. \A m \in T : m <= n
    OBVIOUS
  <2>2. \A m \in S : ~ (n <= m)
    OBVIOUS
  <2>3. To(T, n) = T
    BY <2>1 DEF To
  <2>4. ASSUME NEW m \in S PROVE To(T, m) = To(S, m)
    BY <2>2, <2>4 DEF To
  <2> QED BY <2>3, <2>4
<1>4. Nth(T, N + 1) = n
  <2> HIDE DEF T, N
  <2>1. n \in T
    BY DEF T
  <2>2. Nth(T, Cardinality(To(T, n))) = n
    BY <1>2, <2>1, NthIsRanked
  <2>3. Cardinality(To(T, n)) = N + 1
    BY <1>2, <1>3
  <2> QED BY <2>2, <2>3
<1>5. ASSUME NEW i \in 1..N PROVE Nth(T, i) = Nth(S, i)
  <2> DEFINE m == Nth(S, i)
  <2>1. m \in S /\ Cardinality(To(S, m)) = i
    BY NthIsRanked
  <2>2. m \in T /\ Cardinality(To(T, m)) = i
    BY <1>3, <2>1
  <2> HIDE DEF T, m
  <2> QED BY <1>2, <2>2, NthIsRanked DEF m
<1> DEFINE s == [i \in 1..N |-> seq[Nth(S, i)]]
           t == [i \in 1..(N + 1) |-> seq[Nth(T, i)]]
<1>6. KeepAt(seq, S) = s /\ Len(s) = N /\ s \in Seq(Range(s))
  BY KeepAtIs DEF IsSeq
<1>7. KeepAt(seq, T) = t /\ Len(t) = N + 1 /\ t \in Seq(Range(t))
  <2>1. KeepAt(seq, T) = [i \in 1..Cardinality(T) |-> seq[Nth(T, i)]] /\ Len(KeepAt(seq, T)) = Cardinality(T)
        /\ IsSeq(KeepAt(seq, T))
    <3> HIDE DEF T
    <3> QED BY <1>2, KeepAtIs
  <2> HIDE DEF T
  <2> QED BY <1>2, <2>1 DEF IsSeq
<1>8. t = Append(s, seq[n])
  <2> HIDE DEF N, T
  <2>1. \A i \in 1..N : t[i] = s[i]
    <3> TAKE i \in 1..N
    <3>1. i \in 1..(N + 1) /\ Nth(T, i) = Nth(S, i)
      BY <1>2, <1>5
    <3> QED BY <3>1
  <2>2. t[N + 1] = seq[n]
    BY <1>2, <1>4
  <2> HIDE DEF s, t
  <2> DEFINE a == Append(s, seq[n])
  <2>3. Len(a) = N + 1 /\ a[N + 1] = seq[n] /\ \A i \in 1..N : a[i] = s[i]
    BY <1>2, <1>6
  <2>4. DOMAIN a = 1..(N + 1) /\ DOMAIN t = 1..(N + 1)
    BY <1>2, <1>6, <1>7
  <2>5. \A i \in 1..(N + 1) : a[i] = t[i]
    BY <1>2, <2>1, <2>2, <2>3
  <2>6. a \in Seq(Range(s) \cup {seq[n]})
    BY <1>6
  <2> QED BY <1>2, <1>7, <2>3, <2>4, <2>5, <2>6
<1> HIDE DEF T, N, s, t
<1> QED BY <1>2, <1>6, <1>7, <1>8 DEF T, N

LEMMA ParsedIsSeq ==
  ASSUME NEW body, IsBody(body)
  PROVE  IsSeq(ParseCsv(body))
<1>1. CASE body.header
  <2> DEFINE kept == {n \in DOMAIN body.lines : ~body.lines[n].short}
  <2>1. DOMAIN body.lines = 1..Len(body.lines) /\ Len(body.lines) \in Nat
    BY DEF IsBody, IsSeq
  <2>2. kept \in SUBSET (1..Len(body.lines)) /\ IsFiniteSet(1..Len(body.lines))
    BY <2>1, FS_Interval
  <2>3. IsFiniteSet(kept) /\ kept \subseteq Nat
    BY <2>1, <2>2, FS_Subset
  <2> HIDE DEF kept
  <2>4. IsSeq(KeepAt(body.lines, kept))
    BY <2>3, KeepAtIsAll
  <2> QED BY <1>1, <2>4 DEF ParseCsv, kept
<1>2. CASE ~ body.header
  BY <1>2 DEF ParseCsv, IsSeq
<1> QED BY <1>1, <1>2

(* What planIngest finds is all that is worth a lot and not known, though   *)
(* it takes the first of each id only.                                      *)
LEMMA FreshIsTheRest ==
  ASSUME NEW lines, IsSeq(lines), NEW known
  PROVE  /\ IsSeq(FreshIds(lines, known))
         /\ \A line \in Range(lines) :
              Wanted(line) => \/ DetectionIdOf(line) \in known
                              \/ DetectionIdOf(line) \in Range(FreshIds(lines, known))
<1> DEFINE fr == Fresh(lines, known)
           ids == DetectionIds(lines)
<1>1. DOMAIN lines = 1..Len(lines) /\ Len(lines) \in Nat
  BY DEF IsSeq
<1>2. IsFiniteSet(fr) /\ fr \subseteq Nat
  <2>1. fr \in SUBSET (1..Len(lines)) /\ IsFiniteSet(1..Len(lines))
    BY <1>1, FS_Interval DEF Fresh
  <2> QED BY <1>1, <2>1, FS_Subset
<1>3. IsSeq(FreshIds(lines, known)) /\ \A n \in fr : ids[n] \in Range(FreshIds(lines, known))
  BY <1>2, KeepAtIsAll DEF FreshIds
<1>4. \A n \in DOMAIN lines : ids[n] = DetectionIdOf(lines[n])
  BY DEF DetectionIds
<1>5. ASSUME NEW line \in Range(lines), Wanted(line), DetectionIdOf(line) \notin known
      PROVE  \E n \in fr : ids[n] = DetectionIdOf(line)
  <2> DEFINE same == {n \in DOMAIN lines : Wanted(lines[n]) /\ DetectionIdOf(lines[n]) = DetectionIdOf(line)}
  <2>1. same # {} /\ same \subseteq Nat
    BY <1>1, <1>5 DEF Range
  <2>2. PICK n \in same : \A m \in same : n <= m
    BY <2>1, SmallestOf
  <2>3. n \in fr
    BY <1>1, <1>5, <2>2 DEF Fresh
  <2> QED BY <1>4, <2>2, <2>3
<1> QED BY <1>3, <1>5

-----------------------------------------------------------------------------
(* The loop of planIngest.  What becomes of a line: what it is skipped for, *)
(* or else, among the lines with numbers in s, whether it is the first of   *)
(* its id.                                                                  *)
Kind(line) ==
  IF ~ Usable(line) THEN "skippedUnparseable"
  ELSE IF IsExcluded([lat |-> line.lat, lon |-> line.lon]) THEN "skippedOutsideArea"
  ELSE IF IsLowConfidence(line.confidence) THEN "skippedLowConfidence"
  ELSE "wanted"

FreshIn(lines, known, s) ==
  {n \in s : /\ Kind(lines[n]) = "wanted" /\ DetectionIdOf(lines[n]) \notin known
             /\ \A m \in s : m < n /\ Kind(lines[m]) = "wanted" =>
                  DetectionIdOf(lines[m]) # DetectionIdOf(lines[n])}

SkippedIn(lines, known, s) == [field \in Skips |->
  IF field = "skippedDuplicate"
  THEN {n \in s : Kind(lines[n]) = "wanted"} \ FreshIn(lines, known, s)
  ELSE {n \in s : Kind(lines[n]) = field}]

DetectionsOf(lines) == [n \in DOMAIN lines |-> ToDetection(lines[n])]

(* What the loop has when it has taken the lines with numbers in s.         *)
After(lines, known, s) ==
  [seen       |-> known \cup {DetectionIdOf(lines[n]) : n \in FreshIn(lines, known, s)},
   detections |-> KeepAt(DetectionsOf(lines), FreshIn(lines, known, s)),
   counts     |-> [field \in Skips |-> Cardinality(SkippedIn(lines, known, s)[field])]]

LEMMA KindIs ==
  ASSUME NEW line
  PROVE  /\ Kind(line) \in (Skips \ {"skippedDuplicate"}) \cup {"wanted"}
         /\ Wanted(line) <=> Kind(line) = "wanted"
BY DEF Kind, Skips, Wanted

LEMMA TakeLineIs ==
  ASSUME NEW seen, NEW detections, NEW counts, NEW line
  PROVE  LET plan == [seen |-> seen, detections |-> detections, counts |-> counts]
             Count(field) == [seen |-> seen, detections |-> detections,
                              counts |-> [counts EXCEPT ![field] = @ + 1]]
             id == DetectionIdOf(line)
         IN  TakeLine(plan, line) =
               IF Kind(line) # "wanted" THEN Count(Kind(line))
               ELSE IF id \in seen THEN Count("skippedDuplicate")
               ELSE [seen |-> seen \cup {id}, detections |-> Append(detections, ToDetection(line)),
                     counts |-> counts]
<1> DEFINE plan == [seen |-> seen, detections |-> detections, counts |-> counts]
           Count(field) == [seen |-> seen, detections |-> detections,
                            counts |-> [counts EXCEPT ![field] = @ + 1]]
           id == DetectionIdOf(line)
<1>1. \A field : [plan EXCEPT !.counts[field] = @ + 1] = Count(field)
  OBVIOUS
<1>2. plan.seen = seen /\ plan.detections = detections /\ plan.counts = counts
  OBVIOUS
<1> HIDE DEF plan, Count
<1>4. ASSUME Kind(line) # "wanted"
      PROVE  TakeLine(plan, line) = Count(Kind(line))
  BY <1>1, <1>4 DEF TakeLine, Kind
<1>5. ASSUME Kind(line) = "wanted"
      PROVE  TakeLine(plan, line) =
               IF id \in seen THEN Count("skippedDuplicate")
               ELSE [seen |-> seen \cup {id}, detections |-> Append(detections, ToDetection(line)),
                     counts |-> counts]
  <2>1. /\ Usable(line) /\ ~ IsExcluded([lat |-> line.lat, lon |-> line.lon])
        /\ ~ IsLowConfidence(line.confidence)
    BY <1>5, KindIs DEF Wanted
  <2>2. TakeLine(plan, line) =
          IF id \in plan.seen THEN [plan EXCEPT !.counts["skippedDuplicate"] = @ + 1]
          ELSE [seen |-> plan.seen \cup {id}, detections |-> Append(plan.detections, ToDetection(line)),
                counts |-> plan.counts]
    BY <2>1 DEF TakeLine
  <2> QED BY <1>1, <1>2, <1>5, <2>2
<1> HIDE DEF id
<1> QED BY <1>4, <1>5 DEF plan, Count, id

(* The lines before the last are what they are without it, and the last is  *)
(* fresh unless its id was seen.                                            *)
OneMore(lines, known, t, i, seen) ==
  /\ FreshIn(lines, known, t \cup {i}) =
       IF Kind(lines[i]) = "wanted" /\ ~ seen THEN FreshIn(lines, known, t) \cup {i}
       ELSE FreshIn(lines, known, t)
  /\ \A field \in Skips :
       SkippedIn(lines, known, t \cup {i})[field] =
         IF \/ Kind(lines[i]) = field
            \/ Kind(lines[i]) = "wanted" /\ seen /\ field = "skippedDuplicate"
         THEN SkippedIn(lines, known, t)[field] \cup {i} ELSE SkippedIn(lines, known, t)[field]

LEMMA LastLine ==
  ASSUME NEW lines, NEW known, NEW t, NEW i \in Nat, t \subseteq Nat, \A m \in t : m < i,
         NEW seen \in BOOLEAN,
         seen <=> \/ DetectionIdOf(lines[i]) \in known
                  \/ \E n \in FreshIn(lines, known, t) : DetectionIdOf(lines[n]) = DetectionIdOf(lines[i])
  PROVE  OneMore(lines, known, t, i, seen)
<1> SUFFICES ASSUME NEW s, s = t \cup {i},
                    NEW F, F = FreshIn(lines, known, t), NEW G, G = FreshIn(lines, known, s),
                    NEW was, was = SkippedIn(lines, known, t), NEW is, is = SkippedIn(lines, known, s)
             PROVE  /\ G = IF Kind(lines[i]) = "wanted" /\ ~ seen THEN F \cup {i} ELSE F
                    /\ \A field \in Skips :
                         is[field] = IF \/ Kind(lines[i]) = field
                                        \/ Kind(lines[i]) = "wanted" /\ seen /\ field = "skippedDuplicate"
                                     THEN was[field] \cup {i} ELSE was[field]
  BY DEF OneMore
<1> DEFINE Id(n) == DetectionIdOf(lines[n])
           W(n) == Kind(lines[n]) = "wanted"
<1>1. F = {n \in t : W(n) /\ Id(n) \notin known /\ \A m \in t : m < n /\ W(m) => Id(m) # Id(n)}
  BY DEF FreshIn
<1>2. G = {n \in s : W(n) /\ Id(n) \notin known /\ \A m \in s : m < n /\ W(m) => Id(m) # Id(n)}
  BY DEF FreshIn
<1>3. i \notin t /\ \A m \in s : ~ (i < m)
  OBVIOUS
<1>0. seen <=> Id(i) \in known \/ \E n \in F : Id(n) = Id(i)
  OBVIOUS
<1>4. \A n \in t : n \in G <=> n \in F
  <2> HIDE DEF W, Id
  <2> QED BY <1>1, <1>2, <1>3
<1>5. i \in G <=> W(i) /\ ~ seen
  <2>1. ASSUME W(i), Id(i) \notin known, NEW m \in t, W(m), Id(m) = Id(i) PROVE \E n \in F : Id(n) = Id(i)
    <3> DEFINE same == {n \in t : W(n) /\ Id(n) = Id(i)}
    <3> HIDE DEF W, Id
    <3>1. same # {} /\ same \subseteq Nat
      BY <2>1
    <3>2. PICK n \in same : \A k \in same : n <= k
      BY <3>1, SmallestOf
    <3>3. n \in F
      BY <1>1, <2>1, <3>2
    <3> QED BY <3>2, <3>3
  <2>2. \A n \in F : n \in t /\ W(n)
    BY <1>1
  <2> HIDE DEF W, Id
  <2>3. CASE W(i) /\ Id(i) \notin known /\ \A m \in t : W(m) => Id(m) # Id(i)
    <3>1. i \in G
      BY <1>2, <1>3, <2>3
    <3>2. ~ seen
      BY <1>0, <1>1, <2>3
    <3> QED BY <2>3, <3>1, <3>2
  <2>4. CASE ~ (W(i) /\ Id(i) \notin known /\ \A m \in t : W(m) => Id(m) # Id(i))
    <3>1. i \notin G
      BY <1>2, <2>4
    <3>2. ~ W(i) \/ seen
      BY <1>0, <2>1, <2>4
    <3> QED BY <3>1, <3>2
  <2> QED BY <2>3, <2>4
<1>6. G \subseteq s /\ F \subseteq t
  BY <1>1, <1>2
<1>7. G = IF W(i) /\ ~ seen THEN F \cup {i} ELSE F
  <2> HIDE DEF W, Id
  <2>1. CASE W(i) /\ ~ seen
    <3>1. \A n : n \in G <=> n \in F \cup {i}
      BY <1>4, <1>5, <1>6, <2>1
    <3> QED BY <2>1, <3>1
  <2>2. CASE ~ (W(i) /\ ~ seen)
    <3>1. \A n : n \in G <=> n \in F
      BY <1>3, <1>4, <1>5, <1>6, <2>2
    <3> QED BY <2>2, <3>1
  <2> QED BY <2>1, <2>2
<1>8. ASSUME NEW field \in Skips
      PROVE  is[field] =
               IF Kind(lines[i]) = field \/ (W(i) /\ seen /\ field = "skippedDuplicate")
               THEN was[field] \cup {i} ELSE was[field]
  <2>1. CASE field = "skippedDuplicate"
    <3>1. is[field] = {n \in s : W(n)} \ G
      BY <2>1 DEF SkippedIn
    <3>2. was[field] = {n \in t : W(n)} \ F
      BY <2>1 DEF SkippedIn
    <3>3. Kind(lines[i]) # field
      BY <2>1, KindIs DEF Skips
    <3> HIDE DEF W
    <3>4. i \notin was[field] /\ (i \in is[field] <=> W(i) /\ seen)
      BY <1>3, <1>5, <3>1, <3>2
    <3>7. \A n \in t : n \in is[field] <=> n \in was[field]
      BY <1>4, <3>1, <3>2
    <3>8. was[field] \subseteq t /\ is[field] \subseteq s
      BY <3>1, <3>2
    <3>5. CASE W(i) /\ seen
      <4>1. is[field] = was[field] \cup {i}
        BY <3>4, <3>5, <3>7, <3>8
      <4> QED BY <2>1, <3>5, <4>1
    <3>6. CASE ~ (W(i) /\ seen)
      <4>1. is[field] = was[field]
        BY <3>4, <3>6, <3>7, <3>8
      <4> QED BY <2>1, <3>3, <3>6, <4>1
    <3> QED BY <3>5, <3>6
  <2>2. CASE field # "skippedDuplicate"
    BY <2>2 DEF SkippedIn
  <2> QED BY <2>1, <2>2
<1> QED BY <1>7, <1>8

(* Any part of the lines is finite, and so is what becomes of it.           *)
LEMMA PartsAreFinite ==
  ASSUME NEW lines, IsSeq(lines), NEW known, NEW s \in SUBSET DOMAIN lines
  PROVE  /\ DOMAIN lines = 1..Len(lines) /\ Len(lines) \in Nat
         /\ s \subseteq Nat /\ IsFiniteSet(s)
         /\ FreshIn(lines, known, s) \in SUBSET s /\ IsFiniteSet(FreshIn(lines, known, s))
         /\ \A field \in Skips : /\ SkippedIn(lines, known, s)[field] \in SUBSET s
                                 /\ IsFiniteSet(SkippedIn(lines, known, s)[field])
                                 /\ Cardinality(SkippedIn(lines, known, s)[field]) \in Nat
<1>1. DOMAIN lines = 1..Len(lines) /\ Len(lines) \in Nat
  BY DEF IsSeq
<1>2. s \subseteq Nat /\ IsFiniteSet(s)
  <2>1. IsFiniteSet(1..Len(lines)) /\ s \in SUBSET (1..Len(lines))
    BY <1>1, FS_Interval
  <2> QED BY <1>1, <2>1, FS_Subset
<1>3. FreshIn(lines, known, s) \in SUBSET s
  BY DEF FreshIn
<1>4. \A field \in Skips : SkippedIn(lines, known, s)[field] \in SUBSET s
  BY DEF SkippedIn
<1> QED BY <1>1, <1>2, <1>3, <1>4, FS_Subset, FS_CardinalityType

(* Taking one more line is one turn of the loop.                            *)
LEMMA AfterOneMore ==
  ASSUME NEW lines, IsSeq(lines), NEW known,
         NEW i \in DOMAIN lines, NEW t \in SUBSET DOMAIN lines, \A m \in t : m < i
  PROVE  After(lines, known, t \cup {i}) = TakeLine(After(lines, known, t), lines[i])
<1> DEFINE s == t \cup {i}
           line == lines[i]
           id   == DetectionIdOf(line)
           dets == DetectionsOf(lines)
<1>1. PICK F, G, was, is :
        /\ F = FreshIn(lines, known, t) /\ G = FreshIn(lines, known, s)
        /\ was = SkippedIn(lines, known, t) /\ is = SkippedIn(lines, known, s)
  OBVIOUS
<1>2. PICK seenF, seenG, keptF, keptG, countsF, countsG :
        /\ seenF = known \cup {DetectionIdOf(lines[n]) : n \in F}
        /\ seenG = known \cup {DetectionIdOf(lines[n]) : n \in G}
        /\ keptF = KeepAt(dets, F) /\ keptG = KeepAt(dets, G)
        /\ countsF = [field \in Skips |-> Cardinality(was[field])]
        /\ countsG = [field \in Skips |-> Cardinality(is[field])]
  OBVIOUS
<1>3. /\ After(lines, known, s) = [seen |-> seenG, detections |-> keptG, counts |-> countsG]
      /\ After(lines, known, t) = [seen |-> seenF, detections |-> keptF, counts |-> countsF]
  BY <1>1, <1>2 DEF After
<1>4. /\ i \in Nat /\ i \notin t /\ t \subseteq Nat
      /\ F \in SUBSET t /\ IsFiniteSet(F)
      /\ \A field \in Skips : was[field] \in SUBSET t /\ IsFiniteSet(was[field])
  <2>1. /\ t \subseteq Nat /\ i \in Nat
        /\ FreshIn(lines, known, t) \in SUBSET t /\ IsFiniteSet(FreshIn(lines, known, t))
        /\ \A field \in Skips : /\ SkippedIn(lines, known, t)[field] \in SUBSET t
                                /\ IsFiniteSet(SkippedIn(lines, known, t)[field])
    BY PartsAreFinite
  <2>2. i \notin t
    BY <2>1
  <2> QED BY <1>1, <2>1, <2>2
<1>5. id \in seenF <=> (id \in known \/ \E n \in F : DetectionIdOf(lines[n]) = id)
  BY <1>2
<1>6. PICK seen \in BOOLEAN : seen <=> id \in seenF
  OBVIOUS
<1>7. /\ G = IF Kind(line) = "wanted" /\ ~ seen THEN F \cup {i} ELSE F
      /\ \A field \in Skips :
           is[field] = IF Kind(line) = field \/ (Kind(line) = "wanted" /\ seen /\ field = "skippedDuplicate")
                       THEN was[field] \cup {i} ELSE was[field]
  <2>1. seen <=> (id \in known \/ \E n \in F : DetectionIdOf(lines[n]) = id)
    BY <1>5, <1>6
  <2>2. i \in Nat /\ t \subseteq Nat /\ \A m \in t : m < i
    BY <1>4
  <2>3. s = t \cup {i}
    OBVIOUS
  <2>4. OneMore(lines, known, t, i, seen)
    BY <1>1, <1>6, <2>1, <2>2, LastLine
  <2> HIDE DEF s
  <2> QED BY <1>1, <2>3, <2>4 DEF OneMore
<1>8. \A field \in Skips : Cardinality(was[field] \cup {i}) = Cardinality(was[field]) + 1
  <2> TAKE field \in Skips
  <2>1. IsFiniteSet(was[field]) /\ i \notin was[field]
    BY <1>4
  <2> QED BY <2>1, FS_AddElement
<1>9. /\ Kind(line) \in (Skips \ {"skippedDuplicate"}) \cup {"wanted"}
      /\ "wanted" \notin Skips /\ "skippedDuplicate" \in Skips
  BY KindIs DEF Skips
<1>10. KeepAt(dets, F \cup {i}) = Append(keptF, ToDetection(line))
  <2>1. \A m \in F : m < i
    BY <1>4
  <2>2. F \subseteq Nat
    BY <1>4
  <2>3. dets[i] = ToDetection(line)
    BY DEF DetectionsOf
  <2> HIDE DEF dets, line
  <2> QED BY <1>2, <1>4, <2>1, <2>2, <2>3, KeepAtAppends
<1>11. TakeLine(After(lines, known, t), line) =
         IF Kind(line) # "wanted"
         THEN [seen |-> seenF, detections |-> keptF, counts |-> [countsF EXCEPT ![Kind(line)] = @ + 1]]
         ELSE IF seen
         THEN [seen |-> seenF, detections |-> keptF, counts |-> [countsF EXCEPT !["skippedDuplicate"] = @ + 1]]
         ELSE [seen |-> seenF \cup {id}, detections |-> Append(keptF, ToDetection(line)), counts |-> countsF]
  <2> DEFINE p == [seen |-> seenF, detections |-> keptF, counts |-> countsF]
  <2>1. TakeLine(p, line) =
          IF Kind(line) # "wanted"
          THEN [seen |-> seenF, detections |-> keptF, counts |-> [countsF EXCEPT ![Kind(line)] = @ + 1]]
          ELSE IF id \in seenF
          THEN [seen |-> seenF, detections |-> keptF, counts |-> [countsF EXCEPT !["skippedDuplicate"] = @ + 1]]
          ELSE [seen |-> seenF \cup {id}, detections |-> Append(keptF, ToDetection(line)), counts |-> countsF]
    <3> HIDE DEF line
    <3>1. \A c, l : TakeLine([seen |-> seenF, detections |-> keptF, counts |-> c], l) =
            IF Kind(l) # "wanted"
            THEN [seen |-> seenF, detections |-> keptF, counts |-> [c EXCEPT ![Kind(l)] = @ + 1]]
            ELSE IF DetectionIdOf(l) \in seenF
            THEN [seen |-> seenF, detections |-> keptF, counts |-> [c EXCEPT !["skippedDuplicate"] = @ + 1]]
            ELSE [seen |-> seenF \cup {DetectionIdOf(l)}, detections |-> Append(keptF, ToDetection(l)),
                  counts |-> c]
      BY TakeLineIs, Zenon
    <3> QED BY <3>1, Zenon
  <2>2. After(lines, known, t) = p
    BY <1>3
  <2> HIDE DEF p, id, line
  <2> QED BY <1>6, <2>1, <2>2
<1> HIDE DEF s, line, id, dets
<1>12. CASE Kind(line) # "wanted"
  <2>1. G = F
    BY <1>7, <1>12
  <2>2. Kind(line) \in Skips \ {"skippedDuplicate"}
    BY <1>9, <1>12
  <2>3. \A field \in Skips : Cardinality(is[field]) = IF field = Kind(line) THEN Cardinality(was[field]) + 1
                                                      ELSE Cardinality(was[field])
    BY <1>7, <1>8, <1>12, <2>2
  <2>4. countsG = [countsF EXCEPT ![Kind(line)] = @ + 1]
    BY <1>2, <2>2, <2>3
  <2>5. seenG = seenF /\ keptG = keptF
    BY <1>2, <2>1
  <2> QED BY <1>3, <1>11, <1>12, <2>4, <2>5 DEF s, line
<1>13. CASE Kind(line) = "wanted" /\ seen
  <2>1. G = F
    BY <1>7, <1>13
  <2>2. \A field \in Skips : Cardinality(is[field]) = IF field = "skippedDuplicate" THEN Cardinality(was[field]) + 1
                                                      ELSE Cardinality(was[field])
    BY <1>7, <1>8, <1>9, <1>13
  <2>3. countsG = [countsF EXCEPT !["skippedDuplicate"] = @ + 1]
    BY <1>2, <1>9, <2>2
  <2>4. seenG = seenF /\ keptG = keptF
    BY <1>2, <2>1
  <2> QED BY <1>3, <1>11, <1>13, <2>3, <2>4 DEF s, line
<1>14. CASE Kind(line) = "wanted" /\ ~ seen
  <2>1. G = F \cup {i}
    BY <1>7, <1>14
  <2>2. \A field \in Skips : is[field] = was[field]
    BY <1>7, <1>9, <1>14
  <2>3. countsG = countsF
    BY <1>2, <2>2
  <2>4. seenG = seenF \cup {id}
    BY <1>2, <2>1 DEF id, line
  <2>5. keptG = Append(keptF, ToDetection(line))
    BY <1>2, <1>10, <2>1
  <2> QED BY <1>3, <1>11, <1>14, <2>3, <2>4, <2>5 DEF s, line
<1> QED BY <1>12, <1>13, <1>14

(* A set of line numbers has a greatest one.                                *)
LEMMA GreatestOf ==
  ASSUME NEW n \in Nat, NEW s \in SUBSET (1..n), s # {}
  PROVE  Max(s) \in s /\ \A m \in s : m <= Max(s)
<1> DEFINE under == {n - x : x \in s}
<1>1. under \subseteq Nat /\ under # {}
  <2>1. \A x \in s : x \in 1..n /\ n - x \in Nat
    OBVIOUS
  <2> QED BY <2>1
<1>2. PICK d \in under : \A e \in under : d <= e
  BY <1>1, SmallestOf
<1>3. PICK x \in s : d = n - x
  BY <1>2
<1>4. \A y \in s : x >= y
  <2> TAKE y \in s
  <2>1. n - x <= n - y
    BY <1>2, <1>3
  <2> QED BY <2>1
<1>5. \A y \in s : Max(s) >= y
  BY <1>4 DEF Max
<1>6. Max(s) \in s
  BY <1>4 DEF Max
<1> QED BY <1>5, <1>6

(* The folds that make up the loop, one for each set of line numbers.       *)
NoneTaken(known) == [seen |-> known, detections |-> <<>>, counts |-> [field \in Skips |-> 0]]

Turns(lines, known, f) ==
  f = [s \in SUBSET DOMAIN lines |->
         IF s = {} THEN NoneTaken(known)
         ELSE LET i == Max(s) IN TakeLine(f[s \ {i}], lines[i])]

LEMMA LoopIsTurns ==
  ASSUME NEW lines, NEW known, NEW f, Turns(lines, known, f)
  PROVE  \E g : Turns(lines, known, g) /\ Loop(lines, known) = g[DOMAIN lines]
BY Zenon DEF Loop, Turns, NoneTaken, FoldLeft, MapThenFoldSet

LEMMA AfterNone ==
  ASSUME NEW lines, NEW known
  PROVE  After(lines, known, {}) = NoneTaken(known)
<1>1. FreshIn(lines, known, {}) = {}
  BY DEF FreshIn
<1>2. \A field \in Skips : SkippedIn(lines, known, {})[field] = {}
  BY DEF SkippedIn
<1>3. KeepAt(DetectionsOf(lines), {}) = <<>>
  <2>1. IsFiniteSet({}) /\ Cardinality({}) = 0
    BY FS_EmptySet
  <2>2. Len(KeepAt(DetectionsOf(lines), {})) = 0 /\ IsSeq(KeepAt(DetectionsOf(lines), {}))
    BY <2>1, KeepAtIs
  <2> HIDE DEF KeepAt
  <2> QED BY <2>2 DEF IsSeq
<1>4. [field \in Skips |-> Cardinality(SkippedIn(lines, known, {})[field])] = [field \in Skips |-> 0]
  BY <1>2, FS_EmptySet
<1>5. known \cup {DetectionIdOf(lines[n]) : n \in {}} = known
  OBVIOUS
<1> QED BY <1>1, <1>3, <1>4, <1>5 DEF After, NoneTaken

(* The loop ends with what became of all the lines.                         *)
LEMMA LoopIsAfter ==
  ASSUME NEW lines, IsSeq(lines), NEW known
  PROVE  Loop(lines, known) = After(lines, known, DOMAIN lines)
<1> DEFINE D == DOMAIN lines
           N == Len(lines)
           f == [s \in SUBSET D |-> After(lines, known, s)]
<1>1. D = 1..N /\ N \in Nat
  BY DEF IsSeq
<1>2. Turns(lines, known, f)
  <2>1. ASSUME NEW s \in SUBSET D, s # {}
        PROVE  f[s] = TakeLine(f[s \ {Max(s)}], lines[Max(s)])
    <3> DEFINE i == Max(s)
               t == s \ {i}
    <3>1. i \in s /\ \A m \in s : m <= i
      BY <1>1, <2>1, GreatestOf
    <3>2. t \in SUBSET D /\ s = t \cup {i} /\ i \in D /\ \A m \in t : m < i
      BY <1>1, <3>1
    <3> HIDE DEF i, t
    <3>3. After(lines, known, t \cup {i}) = TakeLine(After(lines, known, t), lines[i])
      BY <3>2, AfterOneMore
    <3>4. f[s] = TakeLine(f[t], lines[i])
      BY <3>2, <3>3
    <3> QED BY <3>4 DEF i, t
  <2>2. f[{}] = NoneTaken(known)
    BY AfterNone
  <2> HIDE DEF f
  <2>3. \A s \in SUBSET D : f[s] = IF s = {} THEN NoneTaken(known)
                                  ELSE LET i == Max(s) IN TakeLine(f[s \ {i}], lines[i])
    BY <2>1, <2>2
  <2>4. DOMAIN f = SUBSET D /\ f = [s \in SUBSET D |-> f[s]]
    BY DEF f
  <2> QED BY <2>3, <2>4 DEF Turns
<1>3. PICK g : Turns(lines, known, g) /\ Loop(lines, known) = g[D]
  BY <1>2, LoopIsTurns
<1>4. g[{}] = NoneTaken(known) /\ \A s \in SUBSET D : s # {} => g[s] = TakeLine(g[s \ {Max(s)}], lines[Max(s)])
  BY <1>3 DEF Turns
<1> DEFINE Bad == {k \in 0..N : g[1..k] # After(lines, known, 1..k)}
<1>5. ASSUME Bad # {} PROVE FALSE
  <2>1. Bad \subseteq Nat
    BY <1>1
  <2>2. PICK k \in Bad : \A l \in Bad : k <= l
    BY <1>5, <2>1, SmallestOf
  <2>3. k # 0
    <3>1. 1..0 = {}
      OBVIOUS
    <3> QED BY <1>4, <2>2, <3>1, AfterNone
  <2>4. k \in 1..N /\ k \in Nat /\ k - 1 \in 0..N /\ k - 1 \in Nat
    BY <1>1, <2>2, <2>3
  <2>5. g[1..(k - 1)] = After(lines, known, 1..(k - 1))
    BY <2>2, <2>4
  <2>6. 1..k \in SUBSET D /\ 1..k # {} /\ Max(1..k) = k /\ (1..k) \ {k} = 1..(k - 1)
    <3> HIDE DEF Bad, D, N
    <3>1. k \in 1..k /\ 1..k \in SUBSET (1..k) /\ 1..k # {}
      BY <2>4
    <3>2. Max(1..k) \in 1..k /\ \A m \in 1..k : m <= Max(1..k)
      BY <2>4, <3>1, GreatestOf
    <3>3. Max(1..k) = k
      BY <2>4, <3>1, <3>2
    <3>4. (1..k) \ {k} = 1..(k - 1)
      BY <2>4
    <3>5. 1..k \subseteq 1..N
      BY <1>1, <2>4
    <3> QED BY <1>1, <3>1, <3>3, <3>4, <3>5
  <2>7. g[1..k] = TakeLine(g[1..(k - 1)], lines[k])
    BY <1>4, <2>6
  <2>8. After(lines, known, (1..(k - 1)) \cup {k}) = TakeLine(After(lines, known, 1..(k - 1)), lines[k])
    <3>1. k \in DOMAIN lines /\ 1..(k - 1) \in SUBSET DOMAIN lines /\ \A m \in 1..(k - 1) : m < k
      BY <1>1, <2>4
    <3> QED BY <3>1, AfterOneMore
  <2>9. (1..(k - 1)) \cup {k} = 1..k
    BY <2>4
  <2> QED BY <2>2, <2>5, <2>7, <2>8, <2>9
<1>6. g[1..N] = After(lines, known, 1..N)
  BY <1>1, <1>5
<1> QED BY <1>1, <1>3, <1>6

(* A lot is of a plausible size, whatever the fire's power and whatever     *)
(* district and season it is taken to be of.                                *)
LEMMA TonnesArePlausible ==
  ASSUME NEW frp \in Int, NEW district, NEW feedstock
  PROVE  EstimateTonnes(frp, district, feedstock) \in MIN_LOT_TONNES..MAX_LOT_TONNES
<1>1. StateOf(district) \in {"PB", "HR", "RJ", "CH"}
  <2> DEFINE named == {d \in Districts : d.name = district}
  <2>1. CASE named = {}
    BY <2>1 DEF StateOf
  <2>2. CASE named # {}
    <3>1. (CHOOSE d \in named : TRUE) \in named
      BY <2>2
    <3>2. StateOf(district) = (CHOOSE d \in named : TRUE).state
      BY <2>2 DEF StateOf
    <3> QED BY <3>1, <3>2, DistrictsAssumption
  <2> QED BY <2>1, <2>2
<1>2. Holding(StateOf(district)) \in {362, 222, 273, 200}
  BY <1>1 DEF Holding
<1>3. ResidueYield(feedstock) \in {55, 30, 40}
  BY DEF ResidueYield
<1>4. DefaultTonnesFor(district, feedstock) \in Int
  <2> DEFINE h == Holding(StateOf(district))
             y == ResidueYield(feedstock)
  <2>1. h * y * 8 + 500 \in Int
    BY <1>2, <1>3
  <2> HIDE DEF h, y
  <2> QED BY <2>1 DEF DefaultTonnesFor, h, y
<1> DEFINE burnt  == (frp * 6624 + 5000) \div 10000
           tonnes == IF frp > 0 THEN burnt ELSE DefaultTonnesFor(district, feedstock)
<1>5. tonnes \in Int
  <2>1. burnt \in Int
    OBVIOUS
  <2> HIDE DEF burnt
  <2> QED BY <1>4, <2>1
<1>6. EstimateTonnes(frp, district, feedstock) = Min({600, Max({15, tonnes})})
  BY DEF EstimateTonnes, MIN_LOT_TONNES, MAX_LOT_TONNES
<1> HIDE DEF tonnes
<1>7. \A a, b \in Int : Max({a, b}) = (IF a >= b THEN a ELSE b) /\ Min({a, b}) = (IF a <= b THEN a ELSE b)
  <2> TAKE a, b \in Int
  <2>1. \A x \in {a, b} : (\A y \in {a, b} : x >= y) => x = (IF a >= b THEN a ELSE b)
    OBVIOUS
  <2>2. \E x \in {a, b} : \A y \in {a, b} : x >= y
    OBVIOUS
  <2>3. \A x \in {a, b} : (\A y \in {a, b} : x <= y) => x = (IF a <= b THEN a ELSE b)
    OBVIOUS
  <2>4. \E x \in {a, b} : \A y \in {a, b} : x <= y
    OBVIOUS
  <2> QED BY <2>1, <2>2, <2>3, <2>4 DEF Max, Min
<1>8. Max({15, tonnes}) = IF 15 >= tonnes THEN 15 ELSE tonnes
  BY <1>5, <1>7
<1>9. Max({15, tonnes}) \in Int /\ Max({15, tonnes}) >= 15
  BY <1>5, <1>8
<1>10. Min({600, Max({15, tonnes})}) = IF 600 <= Max({15, tonnes}) THEN 600 ELSE Max({15, tonnes})
  <2> DEFINE m == Max({15, tonnes})
  <2> HIDE DEF m
  <2>1. m \in Int /\ 600 \in Int
    BY <1>9 DEF m
  <2>2. Min({600, m}) = IF 600 <= m THEN 600 ELSE m
    BY <1>7, <2>1
  <2> QED BY <2>2 DEF m
<1> QED BY <1>6, <1>9, <1>10 DEF MIN_LOT_TONNES, MAX_LOT_TONNES

(* The parts of a finite set that has five.                                 *)
LEMMA FiveParts ==
  ASSUME NEW A, NEW B, NEW C, NEW D, NEW E,
         IsFiniteSet(A), IsFiniteSet(B), IsFiniteSet(C), IsFiniteSet(D), IsFiniteSet(E),
         A \cap B = {}, (A \cup B) \cap C = {}, (A \cup B \cup C) \cap D = {},
         (A \cup B \cup C \cup D) \cap E = {}
  PROVE  Cardinality(A \cup B \cup C \cup D \cup E)
           = Cardinality(A) + Cardinality(B) + Cardinality(C) + Cardinality(D) + Cardinality(E)
<1>1. \A X, Y : IsFiniteSet(X) /\ IsFiniteSet(Y) /\ X \cap Y = {} =>
        /\ IsFiniteSet(X \cup Y) /\ Cardinality(X \cup Y) = Cardinality(X) + Cardinality(Y)
        /\ Cardinality(X) \in Nat /\ Cardinality(Y) \in Nat
  <2> TAKE X, Y
  <2> HAVE IsFiniteSet(X) /\ IsFiniteSet(Y) /\ X \cap Y = {}
  <2>1. IsFiniteSet(X \cup Y) /\ Cardinality(X \cup Y) = Cardinality(X) + Cardinality(Y) - Cardinality(X \cap Y)
    BY FS_Union
  <2>2. Cardinality(X \cap Y) = 0
    BY FS_EmptySet
  <2>3. Cardinality(X) \in Nat /\ Cardinality(Y) \in Nat
    BY FS_CardinalityType
  <2> QED BY <2>1, <2>2, <2>3
<1>2. IsFiniteSet(A \cup B) /\ Cardinality(A \cup B) = Cardinality(A) + Cardinality(B)
  BY <1>1
<1>3. IsFiniteSet(A \cup B \cup C) /\ Cardinality(A \cup B \cup C) = Cardinality(A \cup B) + Cardinality(C)
  BY <1>1, <1>2
<1>4. /\ IsFiniteSet(A \cup B \cup C \cup D)
      /\ Cardinality(A \cup B \cup C \cup D) = Cardinality(A \cup B \cup C) + Cardinality(D)
  BY <1>1, <1>3
<1>5. Cardinality(A \cup B \cup C \cup D \cup E) = Cardinality(A \cup B \cup C \cup D) + Cardinality(E)
  BY <1>1, <1>4
<1> QED BY <1>2, <1>3, <1>4, <1>5

(* The plan's sets are those of the loop, at its end.                       *)
LEMMA PlanIs ==
  ASSUME NEW lines, IsSeq(lines), NEW known
  PROVE  LET D == DOMAIN lines
             plan == PlanIngest(lines, known)
             skipped == SkippedIn(lines, known, D)
         IN  /\ FreshIn(lines, known, D) = Fresh(lines, known)
             /\ plan.detections = KeepAt(DetectionsOf(lines), Fresh(lines, known))
             /\ \A field \in Skips : plan[field] = Cardinality(skipped[field])
<1> DEFINE D == DOMAIN lines
           skipped == SkippedIn(lines, known, D)
           usable  == {n \in D : Usable(lines[n])}
           outside == {n \in usable : IsExcluded([lat |-> lines[n].lat, lon |-> lines[n].lon])}
           low     == {n \in usable \ outside : IsLowConfidence(lines[n].confidence)}
           fr   == Fresh(lines, known)
<1>1. D = 1..Len(lines) /\ Len(lines) \in Nat
  BY DEF IsSeq
<1>2. FreshIn(lines, known, D) = fr
  <2>1. \A n \in D : \A m : m \in 1..(n - 1) <=> (m \in D /\ m < n)
    BY <1>1
  <2>2. \A n \in D : Wanted(lines[n]) <=> Kind(lines[n]) = "wanted"
    BY KindIs
  <2> QED BY <2>1, <2>2 DEF FreshIn, Fresh
<1>3. PlanIngest(lines, known) =
        [detections           |-> KeepAt(DetectionsOf(lines), fr),
         parsed               |-> Cardinality(usable),
         skippedUnparseable   |-> Cardinality(D \ usable),
         skippedOutsideArea   |-> Cardinality(outside),
         skippedLowConfidence |-> Cardinality(low),
         skippedDuplicate     |-> Cardinality(usable \ (outside \cup low \cup fr))]
  BY DEF PlanIngest, DetectionsOf
<1>4. skipped["skippedUnparseable"] = D \ usable
  BY DEF SkippedIn, Skips, Kind
<1>5. skipped["skippedOutsideArea"] = outside
  BY DEF SkippedIn, Skips, Kind
<1>6. skipped["skippedLowConfidence"] = low
  BY DEF SkippedIn, Skips, Kind
<1>7. skipped["skippedDuplicate"] = usable \ (outside \cup low \cup fr)
  BY <1>2 DEF SkippedIn, Skips, Kind
<1> HIDE DEF skipped, usable, outside, low, fr
<1> QED BY <1>2, <1>3, <1>4, <1>5, <1>6, <1>7 DEF Skips, skipped, fr

(* Each line is skipped for one reason, or makes a detection.               *)
LEMMA EveryLineOnce ==
  ASSUME NEW lines, IsSeq(lines), NEW known
  PROVE  LET skipped == SkippedIn(lines, known, DOMAIN lines)
         IN  Len(lines) = Cardinality(Fresh(lines, known))
               + Cardinality(skipped["skippedUnparseable"]) + Cardinality(skipped["skippedOutsideArea"])
               + Cardinality(skipped["skippedLowConfidence"]) + Cardinality(skipped["skippedDuplicate"])
<1> DEFINE D == DOMAIN lines
           skipped == SkippedIn(lines, known, D)
           A == FreshIn(lines, known, D)
           B == skipped["skippedUnparseable"]
           C == skipped["skippedOutsideArea"]
           L == skipped["skippedLowConfidence"]
           E == skipped["skippedDuplicate"]
<1>1. D = 1..Len(lines) /\ Len(lines) \in Nat /\ Cardinality(D) = Len(lines)
  <2>1. D = 1..Len(lines) /\ Len(lines) \in Nat
    BY DEF IsSeq
  <2>2. Cardinality(1..Len(lines)) = Len(lines)
    <3>1. 1 \in Int /\ Len(lines) \in Int
      BY <2>1
    <3>2. Cardinality(1..Len(lines)) = IF 1 > Len(lines) THEN 0 ELSE Len(lines) - 1 + 1
      BY <3>1, FS_Interval
    <3> QED BY <2>1, <3>2
  <2> QED BY <2>1, <2>2
<1>2. IsFiniteSet(A) /\ IsFiniteSet(B) /\ IsFiniteSet(C) /\ IsFiniteSet(L) /\ IsFiniteSet(E)
  <2>1. D \in SUBSET DOMAIN lines
    OBVIOUS
  <2> QED BY <2>1, PartsAreFinite DEF Skips
<1>3. /\ A \subseteq {n \in D : Kind(lines[n]) = "wanted"}
      /\ B = {n \in D : Kind(lines[n]) = "skippedUnparseable"}
      /\ C = {n \in D : Kind(lines[n]) = "skippedOutsideArea"}
      /\ L = {n \in D : Kind(lines[n]) = "skippedLowConfidence"}
      /\ E = {n \in D : Kind(lines[n]) = "wanted"} \ A
  BY DEF SkippedIn, Skips, FreshIn
<1>4. \A n \in D : Kind(lines[n]) \in (Skips \ {"skippedDuplicate"}) \cup {"wanted"}
  BY KindIs
<1> HIDE DEF A, B, C, L, E, D
<1>5. D = A \cup B \cup C \cup L \cup E
  BY <1>3, <1>4 DEF Skips
<1>6. A \cap B = {} /\ (A \cup B) \cap C = {} /\ (A \cup B \cup C) \cap L = {}
      /\ (A \cup B \cup C \cup L) \cap E = {}
  BY <1>3
<1>7. Cardinality(D) = Cardinality(A) + Cardinality(B) + Cardinality(C) + Cardinality(L) + Cardinality(E)
  BY <1>2, <1>5, <1>6, FiveParts
<1>8. A = Fresh(lines, known)
  BY PlanIs DEF A, D
<1> QED BY <1>1, <1>7, <1>8 DEF B, C, L, E, D

(* A line of a response: what toDetection finds in it.                      *)
AreLines(lines) == IsSeq(lines) /\ \A n \in DOMAIN lines : lines[n].frp \in Int

(* The plan of an ingest, of any response and any known detections: it is   *)
(* what the loop makes, counts every line once, has no id twice, finds      *)
(* nothing when it is run again, and lists lots of a plausible size         *)
(* (planIngest).                                                            *)
LEMMA PlanOfAnyFeed ==
  ASSUME NEW lines, AreLines(lines), NEW known
  PROVE  PlanFollowsTheLoop(lines, known)
<1> DEFINE D     == DOMAIN lines
           plan  == PlanIngest(lines, known)
           loop  == Loop(lines, known)
           fr    == Fresh(lines, known)
           dets  == DetectionsOf(lines)
           N     == Cardinality(fr)
           found == {plan.detections[i].detectionId : i \in DOMAIN plan.detections}
           again == known \cup found
           Id(n) == DetectionIdOf(lines[n])
<1>1. IsSeq(lines) /\ D = 1..Len(lines) /\ Len(lines) \in Nat
  BY DEF AreLines, IsSeq
<1>2. fr \in SUBSET D /\ fr \subseteq Nat /\ IsFiniteSet(fr) /\ N \in Nat
  <2>1. fr \in SUBSET D
    BY DEF Fresh
  <2>2. IsFiniteSet(1..Len(lines))
    BY <1>1, FS_Interval
  <2> HIDE DEF fr
  <2>3. IsFiniteSet(fr) /\ fr \subseteq Nat
    BY <1>1, <2>1, <2>2, FS_Subset
  <2> QED BY <2>1, <2>3, FS_CardinalityType
<1>3. /\ FreshIn(lines, known, D) = fr
      /\ plan.detections = KeepAt(dets, fr)
      /\ \A field \in Skips : plan[field] = Cardinality(SkippedIn(lines, known, D)[field])
  BY <1>1, PlanIs
<1>4. plan.detections = [i \in 1..N |-> dets[Nth(fr, i)]] /\ Len(plan.detections) = N
  <2> HIDE DEF fr, plan
  <2> QED BY <1>2, <1>3, KeepAtIs
<1>5. \A i \in 1..N : Nth(fr, i) \in fr
  <2> HIDE DEF fr
  <2> QED BY <1>2, NthIsRanked
<1>6. \A n \in fr : \E i \in 1..N : Nth(fr, i) = n
  <2> HIDE DEF fr
  <2> QED BY <1>2, NthIsRanked
<1>7. \A n \in fr : n \in D /\ dets[n] = ToDetection(lines[n]) /\ dets[n].detectionId = Id(n)
  BY <1>2 DEF DetectionsOf, ToDetection
<1>8. found = {Id(n) : n \in fr} /\ DOMAIN plan.detections = 1..N
  <2> HIDE DEF fr, Id, dets, D, N, plan
  <2>1. DOMAIN plan.detections = 1..N
    BY <1>4
  <2>2. \A i \in 1..N : plan.detections[i].detectionId = Id(Nth(fr, i)) /\ Nth(fr, i) \in fr
    BY <1>4, <1>5, <1>7
  <2>3. \A n \in fr : \E i \in 1..N : plan.detections[i].detectionId = Id(n)
    BY <1>6, <2>2
  <2> QED BY <2>1, <2>2, <2>3
<1>9. plan.detections = loop.detections /\ \A field \in Skips : plan[field] = loop.counts[field]
  <2>1. loop = After(lines, known, D)
    BY <1>1, LoopIsAfter
  <2> HIDE DEF plan, loop, fr, D
  <2> QED BY <1>3, <2>1 DEF After, dets
<1>10. Len(lines) = Len(plan.detections) + plan.skippedUnparseable + plan.skippedOutsideArea
                      + plan.skippedLowConfidence + plan.skippedDuplicate
  <2>1. Len(lines) = Cardinality(fr)
               + Cardinality(SkippedIn(lines, known, D)["skippedUnparseable"])
               + Cardinality(SkippedIn(lines, known, D)["skippedOutsideArea"])
               + Cardinality(SkippedIn(lines, known, D)["skippedLowConfidence"])
               + Cardinality(SkippedIn(lines, known, D)["skippedDuplicate"])
    BY <1>1, EveryLineOnce
  <2> HIDE DEF plan, fr, D
  <2>2. /\ plan.skippedUnparseable = Cardinality(SkippedIn(lines, known, D)["skippedUnparseable"])
        /\ plan.skippedOutsideArea = Cardinality(SkippedIn(lines, known, D)["skippedOutsideArea"])
        /\ plan.skippedLowConfidence = Cardinality(SkippedIn(lines, known, D)["skippedLowConfidence"])
        /\ plan.skippedDuplicate = Cardinality(SkippedIn(lines, known, D)["skippedDuplicate"])
    BY <1>3 DEF Skips
  <2> QED BY <1>4, <2>1, <2>2
<1>11. Cardinality(found) = Len(plan.detections)
  <2> DEFINE id == [n \in fr |-> Id(n)]
  <2>1. ASSUME NEW m \in fr, NEW n \in fr, Id(m) = Id(n) PROVE m = n
    <3>1. \A k \in fr, l \in fr : k < l => Id(k) # Id(l)
      <4> TAKE k \in fr, l \in fr
      <4> HAVE k < l
      <4>1. k \in 1..(l - 1) /\ Wanted(lines[k])
        BY <1>1, <1>2 DEF Fresh
      <4> QED BY <4>1 DEF Fresh
    <3> HIDE DEF fr, Id
    <3> QED BY <1>2, <2>1, <3>1
  <2>2. id \in Bijection(fr, found)
    <3> HIDE DEF fr, Id, found
    <3>1. id \in [fr -> found]
      BY <1>8
    <3>2. \A f \in found : \E n \in fr : id[n] = f
      BY <1>8
    <3>3. \A m \in fr, n \in fr : id[m] = id[n] => m = n
      BY <2>1
    <3> HIDE DEF id
    <3> QED BY <3>1, <3>2, <3>3 DEF Bijection, Injection, Surjection, IsInjective
  <2> HIDE DEF fr, found, plan, id
  <2>3. ExistsBijection(fr, found)
    BY <2>2 DEF ExistsBijection
  <2>4. Cardinality(found) = Cardinality(fr)
    BY <1>2, <2>3, FS_Bijection
  <2> QED BY <1>4, <2>4
<1>12. PlanIngest(lines, again).detections = <<>>
  <2>1. Fresh(lines, again) = {}
    <3> SUFFICES ASSUME NEW n \in Fresh(lines, again) PROVE FALSE
      OBVIOUS
    <3>1. n \in D /\ Wanted(lines[n]) /\ Id(n) \notin known /\ Id(n) \notin found
      BY DEF Fresh
    <3>2. \A m \in 1..(n - 1) : Wanted(lines[m]) => Id(m) # Id(n)
      BY DEF Fresh
    <3>3. n \in fr
      BY <3>1, <3>2 DEF Fresh
    <3> HIDE DEF fr, found, Id
    <3> QED BY <1>8, <3>1, <3>3
  <2>2. PlanIngest(lines, again).detections = KeepAt(dets, Fresh(lines, again))
    <3> HIDE DEF again
    <3> QED BY <1>1, PlanIs
  <2>3. IsFiniteSet({}) /\ Cardinality({}) = 0
    BY FS_EmptySet
  <2>4. Len(KeepAt(dets, {})) = 0 /\ IsSeq(KeepAt(dets, {}))
    BY <2>3, KeepAtIs
  <2> HIDE DEF again, dets
  <2> QED BY <2>1, <2>2, <2>4 DEF IsSeq
<1>13. \A i \in DOMAIN plan.detections :
         ToLot(plan.detections[i]).tonnes \in MIN_LOT_TONNES..MAX_LOT_TONNES
  <2> SUFFICES ASSUME NEW i \in 1..N
               PROVE  ToLot(plan.detections[i]).tonnes \in MIN_LOT_TONNES..MAX_LOT_TONNES
    BY <1>8
  <2> DEFINE n == Nth(fr, i)
             d == ToDetection(lines[n])
  <2>1. n \in D /\ plan.detections[i] = d
    BY <1>4, <1>5, <1>7
  <2>2. d.frp \in Int
    BY <2>1 DEF AreLines, ToDetection
  <2> HIDE DEF n, d, plan
  <2>3. ToLot(d).tonnes = EstimateTonnes(d.frp, d.district, FeedstockForDate(d.month))
    BY DEF ToLot
  <2> QED BY <2>1, <2>2, <2>3, TonnesArePlausible
<1> HIDE DEF again, plan, loop
<1> QED BY <1>9, <1>10, <1>11, <1>12, <1>13 DEF PlanFollowsTheLoop, again, plan, loop

(* So PlanIsTheLoop holds of every feed, however long (planIngest).         *)
THEOREM PlanAlwaysTheLoop == (case.of = "feed" => AreLines(case.lines)) => PlanIsTheLoop
BY PlanOfAnyFeed DEF PlanIsTheLoop

-----------------------------------------------------------------------------
(* What a step of one call leaves alone in the others.                      *)

StepOf(c) ==
  /\ \A r \in rows : r \in rows' \/ (r.by = c /\ pc[c] = "insert")
  /\ \A r \in rows' : r \in rows \/ r.by = c
  /\ \A d \in Calls \ {c} :
       /\ pc'[d] = pc[d] /\ feed'[d] = feed[d] /\ fresh'[d] = fresh[d]
       /\ next'[d] = next[d] /\ output'[d] = output[d]
  /\ pc'[c] = "insert" => pc[c] \in {"select", "insert"}

LEMMA RowsOfOthersStay ==
  ASSUME NEW c \in Calls, StepOf(c), NEW d \in Calls \ {c}, NEW table
  PROVE  RowsBy(d, table)' = RowsBy(d, table)
BY DEF StepOf, RowsBy, Rows

(* A row that is committed, or of the call that counts on it, stays so.     *)
LEMMA SureStays ==
  ASSUME RowInv, NEW c \in Calls, StepOf(c), NEW r \in rows, NEW d \in Calls \ {c}, Sure(r, d)
  PROVE  Sure(r, d)'
<1>1. CASE r.by = c
  <2>1. pc[c] # "insert" /\ pc[c] # "select" /\ r \in rows'
    BY <1>1 DEF Sure, StepOf, RowInv, RowOK, Early
  <2> QED BY <1>1, <2>1 DEF Sure, StepOf
<1>2. CASE r.by # c
  BY <1>2 DEF Sure, StepOf, RowInv, RowOK
<1> QED BY <1>1, <1>2

LEMMA CommittedStays ==
  ASSUME RowInv, NEW c \in Calls, StepOf(c), NEW r \in Committed
  PROVE  r \in Committed'
<1>1. r \in rows /\ pc[r.by] # "insert" /\ r.by \in Calls /\ pc[r.by] \notin Early
  BY DEF Committed, RowInv, RowOK
<1>2. r \in rows' /\ pc'[r.by] # "insert"
  BY <1>1 DEF StepOf, Early
<1> QED BY <1>2 DEF Committed

LEMMA OthersKeep ==
  ASSUME RowInv, NEW c \in Calls, StepOf(c), NEW d \in Calls \ {c}, CallInv(d)
  PROVE  CallInv(d)'
<1>1. pc'[d] = pc[d] /\ feed'[d] = feed[d] /\ fresh'[d] = fresh[d]
      /\ next'[d] = next[d] /\ output'[d] = output[d]
  BY DEF StepOf
<1>2. \A r : r.by = d => (r \in rows <=> r \in rows')
  BY DEF StepOf
<1>3. Planned(d)' = Planned(d)
  BY <1>1 DEF Planned
<1>4. PairInv(d)'
  <2>1. ASSUME NEW r \in rows', r.by = d, r.table = "lots", NEW e \in r.from
        PROVE  DetectionRow(e, d) \in rows'
    <3>1. DetectionRow(e, d) \in rows
      BY <1>2, <2>1 DEF CallInv, PairInv
    <3> QED BY <1>2, <3>1 DEF DetectionRow
  <2>2. ASSUME NEW r \in rows', r.by = d, r.table = "detections"
        PROVE  IF pc'[d] = "insert" THEN r.id \in Range(fresh'[d]) ELSE LotRow(r.id, d) \in rows'
    <3>1. IF pc[d] = "insert" THEN r.id \in Range(fresh[d]) ELSE LotRow(r.id, d) \in rows
      BY <1>2, <2>2 DEF CallInv, PairInv
    <3> QED BY <1>1, <1>2, <3>1 DEF LotRow
  <2>3. \A table, id : Has(d, table, id) => Has(d, table, id)'
    BY SureStays DEF Has, Sure
  <2>4. ASSUME pc[d] = "insert", NEW i \in 1..Planned(d)
        PROVE  /\ i < next[d] => Has(d, "detections", fresh[d][i])
               /\ Planned(d) + i < next[d] => Has(d, "lots", LotIdOf(fresh[d][i]))
    BY <2>4 DEF CallInv, PairInv
  <2>5. ASSUME pc[d] = "insert", NEW i \in 1..Planned(d)
        PROVE  /\ i < next[d] => Has(d, "detections", fresh[d][i])'
               /\ Planned(d) + i < next[d] => Has(d, "lots", LotIdOf(fresh[d][i]))'
    BY <1>1, <2>3, <2>4, <2>5
  <2> QED BY <1>1, <1>3, <2>1, <2>2, <2>5 DEF PairInv
<1>5. ListInv(d)'
  <2>1. \A id : id \in {r.id : r \in Detections} => id \in {r.id : r \in Detections'}
    BY CommittedStays DEF Detections, Rows, Committed
  <2> QED BY <1>1, <2>1 DEF CallInv, ListInv
<1>6. CountInv(d)'
  BY <1>1, RowsOfOthersStay DEF CallInv, CountInv
<1> QED BY <1>4, <1>5, <1>6 DEF CallInv

(* The entries in the ledger are of calls that are done, and a call that    *)
(* makes a step is not.                                                     *)
LEMMA EntriesKeep ==
  ASSUME LedgerInv, NEW c \in Calls, StepOf(c), pc[c] # "done", UNCHANGED ledger
  PROVE  LedgerInv'
<1> SUFFICES ASSUME NEW i \in DOMAIN ledger
             PROVE  LET d == ledger[i].call
                    IN  /\ d \in Calls /\ pc'[d] = "done"
                        /\ ledger[i].newDetections = Cardinality(RowsBy(d, "detections")')
                        /\ ledger[i].lotsCreated = Cardinality(RowsBy(d, "lots")')
                        /\ \A j \in DOMAIN ledger : ledger[j].call = d => i = j
  BY DEF LedgerInv
<1>1. ledger[i].call \in Calls \ {c}
  BY DEF LedgerInv
<1> QED BY <1>1, RowsOfOthersStay DEF LedgerInv, StepOf

(* What is left to show of a step of c.                                     *)
LEMMA StepKeeps ==
  ASSUME IInv, NEW c \in Calls, StepOf(c), pc[c] # "done", UNCHANGED ledger,
         Types', RowInv', CallInv(c)'
  PROVE  IInv'
<1>1. \A d \in Calls \ {c} : CallInv(d)'
  BY OthersKeep DEF IInv
<1>2. LedgerInv'
  BY EntriesKeep DEF IInv
<1>3. (\A d \in Calls : CallInv(d))'
  BY <1>1
<1> QED BY <1>2, <1>3 DEF IInv

LEMMA TypesKeep ==
  ASSUME Types, NEW c \in Calls, NEW step \in Steps, Goto(c, step), StepOf(c),
         DOMAIN feed' = Calls, DOMAIN file' = Calls, DOMAIN fresh' = Calls,
         DOMAIN next' = Calls, DOMAIN output' = Calls,
         \A d \in Calls \ {c} : file'[d] = file[d],
         IsSeq(cache'), \A i \in DOMAIN cache' : IsBody(cache'[i]), Len(cache') >= Len(cache),
         IsSeq(ledger'), CallTypes(c)'
  PROVE  Types'
<1>1. Len(cache) \in Nat /\ Len(cache') \in Nat
  BY DEF Types, IsSeq
<1>2. ASSUME NEW d \in Calls \ {c} PROVE CallTypes(d)'
  <2>1. CallTypes(d)
    BY DEF Types
  <2>2. /\ pc'[d] = pc[d] /\ feed'[d] = feed[d] /\ fresh'[d] = fresh[d]
        /\ next'[d] = next[d] /\ output'[d] = output[d] /\ file'[d] = file[d]
    BY DEF StepOf
  <2>3. file[d] \in 0..Len(cache')
    BY <1>1, <2>1 DEF CallTypes
  <2> QED BY <2>1, <2>2, <2>3 DEF CallTypes, Planned, IsBody, IsSeq
<1>3. pc' \in [Calls -> Steps]
  BY DEF Types, Goto
<1>4. \A d \in Calls : CallTypes(d)'
  BY <1>2
<1> QED BY <1>3, <1>4 DEF Types, IsSeq, IsBody

LEMMA RowsKeep ==
  ASSUME RowInv, Types, NEW c \in Calls, NEW step \in Steps, Goto(c, step), rows' \subseteq rows,
         pc[c] \notin Early => step \notin Early, c \in Declarations => step # "insert"
  PROVE  RowInv'
<1>1. ASSUME NEW r \in rows' PROVE RowOK(r)'
  <2>1. RowOK(r)
    BY DEF RowInv
  <2>2. pc'[r.by] = IF r.by = c THEN step ELSE pc[r.by]
    BY <2>1 DEF Goto, Types, RowOK
  <2> QED BY <2>1, <2>2 DEF RowOK, DeclaredRow, DetectionRow, LotRow
<1>2. \A r, s \in rows' : r.table = s.table /\ r.id = s.id => r = s
  BY DEF RowInv
<1> QED BY <1>1, <1>2 DEF RowInv

-----------------------------------------------------------------------------
(* The steps before an ingest's transaction: nothing is written yet.        *)

LEMMA NoRowsYet ==
  ASSUME RowInv, NEW c \in Calls, pc[c] \in Early
  PROVE  \A r \in rows : r.by # c
BY DEF RowInv, RowOK

LEMMA EarlyKeeps ==
  ASSUME IInv, NEW c \in Ingests, NEW step \in Early, pc[c] \in Early, Goto(c, step),
         UNCHANGED <<db, fresh, next, output>>,
         DOMAIN feed' = Calls, DOMAIN file' = Calls,
         \A d \in Calls \ {c} : file'[d] = file[d] /\ feed'[d] = feed[d],
         IsSeq(cache'), \A i \in DOMAIN cache' : IsBody(cache'[i]), Len(cache') >= Len(cache),
         IsBody(feed'[c]), file'[c] \in 0..Len(cache'), step = "fillCache" => file'[c] # 0
  PROVE  IInv'
<1>1. /\ c \in Calls /\ step \in Steps /\ pc[c] # "done" /\ pc'[c] = step
      /\ \A d \in Calls \ {c} : pc'[d] = pc[d]
  BY DEF Calls, Steps, Early, Goto, IInv, Types
<1>2. StepOf(c)
  BY <1>1 DEF StepOf, db, Early
<1>3. Types'
  <2>1. CallTypes(c)'
    BY <1>1 DEF CallTypes, IInv, Types, Planned
  <2>2. IsSeq(ledger')
    BY DEF IInv, Types, db, IsSeq
  <2> QED BY <1>1, <1>2, <2>1, <2>2, TypesKeep DEF IInv, Types
<1>4. RowInv'
  BY <1>1, RowsKeep DEF IInv, db, Early
<1>5. CallInv(c)'
  BY <1>1, NoRowsYet DEF IInv, db, Early, CallInv, PairInv, ListInv, CountInv
<1> QED BY <1>1, <1>2, <1>3, <1>4, <1>5, StepKeeps DEF db

LEMMA FeedSteps ==
  ASSUME IInv, NEW c \in Ingests,
         FetchLive(c) \/ FetchFails(c) \/ Fallback(c) \/ CacheFails(c)
  PROVE  IInv'
<1>0. c \in Calls /\ CallTypes(c) /\ DOMAIN feed = Calls /\ DOMAIN file = Calls /\ IsSeq(cache)
      /\ (\A i \in DOMAIN cache : IsBody(cache[i])) /\ Len(cache) \in Nat
  BY DEF IInv, Types, Calls, IsSeq
<1>1. \A body \in Responses \cup {Fixture} : IsBody(body)
  BY FeedAssumption DEF IsBody, IsSeq
<1>2. CASE FetchLive(c)
  <2>1. IsBody(feed'[c])
    BY <1>0, <1>1, <1>2 DEF FetchLive
  <2> QED BY <1>0, <1>2, <2>1, EarlyKeeps DEF FetchLive, CallTypes, db, Early
<1>3. CASE FetchFails(c)
  BY <1>0, <1>3, EarlyKeeps DEF FetchFails, CallTypes, db, Early
<1>4. CASE Fallback(c)
  <2>1. cache # <<>> => IsBody(Last(cache))
    BY <1>0 DEF Last, IsSeq
  <2>2. IsBody(Empty)
    BY DEF Empty, IsBody, IsSeq
  <2>3. PICK body : IsBody(body) /\ feed' = [feed EXCEPT ![c] = body]
    BY <1>1, <1>4, <2>1, <2>2 DEF Fallback, Work
  <2>4. IsBody(feed'[c]) /\ DOMAIN feed' = DOMAIN feed /\ \A d \in Calls \ {c} : feed'[d] = feed[d]
    BY <1>0, <2>3
  <2> QED BY <1>0, <1>4, <2>3, <2>4, EarlyKeeps DEF Fallback, CallTypes, db, Early
<1>5. CASE CacheFails(c)
  BY <1>0, <1>5, EarlyKeeps DEF CacheFails, CallTypes, db, Early
<1> QED BY <1>2, <1>3, <1>4, <1>5

LEMMA CacheSteps ==
  ASSUME IInv, NEW c \in Ingests, OpenCache(c) \/ FillCache(c)
  PROVE  IInv'
<1>0. c \in Calls /\ CallTypes(c) /\ DOMAIN feed = Calls /\ DOMAIN file = Calls /\ IsSeq(cache)
      /\ (\A i \in DOMAIN cache : IsBody(cache[i])) /\ Len(cache) \in Nat
  BY DEF IInv, Types, Calls, IsSeq
<1>1. CASE OpenCache(c)
  <2>1. PICK n \in 0..Len(feed[c].lines) : cache' = Append(cache, Begun(feed[c], n))
    BY <1>1 DEF OpenCache
  <2>2. IsBody(Begun(feed[c], n))
    <3>1. feed[c].lines \in Seq(Range(feed[c].lines)) /\ feed[c].header \in BOOLEAN
      BY <1>0 DEF CallTypes, IsBody, IsSeq
    <3> DEFINE part == SubSeq(feed[c].lines, 1, n - 1)
    <3>2. part \in Seq(Range(feed[c].lines))
      BY <3>1
    <3>3. IsSeq(part)
      BY <3>2, SeqOfItsRange
    <3> QED BY <3>1, <3>3 DEF IsBody, Begun
  <2>3. IsSeq(cache') /\ Len(cache') = Len(cache) + 1
        /\ \A i \in DOMAIN cache' : IsBody(cache'[i])
    <3>1. cache' \in Seq(Range(cache) \cup {Begun(feed[c], n)}) /\ Len(cache') = Len(cache) + 1
      BY <1>0, <2>1 DEF IsSeq
    <3>2. IsSeq(cache')
      BY <3>1, SeqOfItsRange
    <3>3. \A i \in 1..Len(cache') : cache'[i] = IF i = Len(cache) + 1 THEN Begun(feed[c], n) ELSE cache[i]
      BY <1>0, <2>1 DEF IsSeq
    <3>4. DOMAIN cache' = 1..Len(cache') /\ DOMAIN cache = 1..Len(cache)
      BY <1>0, <3>1 DEF IsSeq
    <3>5. \A i \in DOMAIN cache' : IsBody(cache'[i])
      BY <1>0, <2>2, <3>1, <3>3, <3>4
    <3> QED BY <3>1, <3>2, <3>5 DEF IsSeq
  <2>4. /\ pc[c] \in Early /\ Goto(c, "fillCache") /\ file'[c] = Len(cache')
        /\ DOMAIN file' = Calls /\ \A d \in Calls \ {c} : file'[d] = file[d]
        /\ UNCHANGED <<db, feed, fresh, next, output>>
    BY <1>0, <1>1 DEF OpenCache, Early
  <2>5. IsBody(feed'[c]) /\ "fillCache" \in Early
    BY <1>0, <2>4 DEF CallTypes, Early
  <2> QED BY <1>0, <2>3, <2>4, <2>5, EarlyKeeps
<1>2. CASE FillCache(c)
  <2>1. file[c] \in 1..Len(cache) /\ IsBody(feed[c])
    BY <1>0, <1>2 DEF FillCache, CallTypes
  <2>2. IsSeq(cache') /\ Len(cache') = Len(cache)
        /\ \A i \in DOMAIN cache' : IsBody(cache'[i])
    <3>1. cache' \in Seq(Range(cache) \cup {feed[c]}) /\ Len(cache') = Len(cache)
      BY <1>0, <1>2, <2>1 DEF IsSeq, FillCache
    <3>2. IsSeq(cache')
      BY <3>1, SeqOfItsRange
    <3>3. \A i \in DOMAIN cache' : cache'[i] = feed[c] \/ (i \in DOMAIN cache /\ cache'[i] = cache[i])
      BY <1>0, <1>2 DEF IsSeq, FillCache
    <3> QED BY <1>0, <2>1, <3>1, <3>2, <3>3 DEF IsSeq
  <2>3. pc[c] \in Early /\ Goto(c, "select") /\ UNCHANGED <<db, feed, file, fresh, next, output>>
    BY <1>2 DEF FillCache, Early
  <2>4. "select" \in Early /\ file'[c] \in 0..Len(cache')
    BY <1>0, <2>1, <2>2, <2>3 DEF Early
  <2> QED BY <1>0, <2>1, <2>2, <2>3, <2>4, EarlyKeeps
<1> QED BY <1>1, <1>2

-----------------------------------------------------------------------------
(* The transaction of an ingest.                                            *)

LEMMA SelectKeeps ==
  ASSUME IInv, NEW c \in Ingests, Select(c)
  PROVE  IInv'
<1> DEFINE lines == ParseCsv(feed[c])
           ids == FreshIds(lines, KnownIds)
           step == IF ids = <<>> THEN "appendDecision" ELSE "insert"
<1>1. /\ c \in Calls /\ pc[c] = "select" /\ pc[c] \in Early
      /\ fresh' = [fresh EXCEPT ![c] = ids] /\ Goto(c, step)
      /\ UNCHANGED <<db, cache, feed, file, next, output>>
  BY DEF Select, Calls, Early
<1>2. IsBody(feed[c]) /\ next[c] = 1 /\ output[c] = Zero /\ DOMAIN fresh = Calls /\ CallTypes(c)
  BY <1>1 DEF IInv, Types, CallTypes
<1>3. IsSeq(lines)
  BY <1>2, ParsedIsSeq
<1>4. IsSeq(ids)
  BY <1>3, FreshIsTheRest
<1>5. \A line \in Range(lines) :
        Wanted(line) => DetectionIdOf(line) \in KnownIds \/ DetectionIdOf(line) \in Range(ids)
  BY <1>3, FreshIsTheRest
<1> HIDE DEF ids, lines
<1>6. /\ pc'[c] = step /\ fresh'[c] = ids /\ next'[c] = 1 /\ output'[c] = Zero
      /\ feed'[c] = feed[c] /\ file'[c] = file[c] /\ cache' = cache /\ rows' = rows
  BY <1>1, <1>2 DEF Goto, IInv, Types, db
<1>7. StepOf(c)
  BY <1>1 DEF StepOf, Goto, IInv, Types, db
<1>8. Types'
  <2>1. CallTypes(c)'
    <3>1. Len(ids) \in Nat
      BY <1>4 DEF IsSeq
    <3> QED BY <1>2, <1>4, <1>6, <3>1 DEF CallTypes, Planned, IsBody, IsSeq, Early
  <2> QED BY <1>1, <1>7, <2>1, TypesKeep DEF IInv, Types, db, Steps, Ends, IsSeq
<1>9. RowInv'
  <2>1. c \notin Declarations
    BY CallsAssumption
  <2> QED BY <1>1, <2>1, RowsKeep DEF IInv, Steps, Ends, db
<1>10. CallInv(c)'
  <2>1. \A r \in rows' : r.by # c
    BY <1>1, <1>6, NoRowsYet DEF IInv
  <2>2. PairInv(c)'
    <3>1. Planned(c)' = Len(ids) /\ Len(ids) \in Nat
      BY <1>4, <1>6 DEF Planned, IsSeq
    <3>2. \A i \in 1..Len(ids) : ~ (i < 1) /\ ~ (Len(ids) + i < 1)
      BY <3>1
    <3> QED BY <1>6, <2>1, <3>1, <3>2 DEF PairInv
  <2>3. ListInv(c)'
    <3>1. \A r \in Committed : r \in Committed'
      BY <1>1, <1>7, CommittedStays DEF IInv
    <3>2. \A id \in KnownIds : id \in {r.id : r \in Detections'}
      BY <3>1 DEF KnownIds, Detections, Committed, Rows
    <3>3. ids = <<>> => Range(ids) = {}
      BY DEF Range
    <3> SUFFICES ASSUME NEW line \in Range(ParseCsv(feed'[c])), Wanted(line)
                 PROVE  \/ DetectionIdOf(line) \in {r.id : r \in Detections'}
                        \/ pc'[c] = "insert" /\ DetectionIdOf(line) \in Range(fresh'[c])
      BY DEF ListInv
    <3>4. DetectionIdOf(line) \in KnownIds \/ DetectionIdOf(line) \in Range(ids)
      BY <1>5, <1>6 DEF lines
    <3> QED BY <1>6, <3>2, <3>3, <3>4
  <2>4. CountInv(c)'
    <3>1. RowsBy(c, "detections")' = {} /\ RowsBy(c, "lots")' = {}
      BY <2>1 DEF RowsBy, Rows
    <3> QED BY <1>6, <3>1, FS_EmptySet DEF CountInv, Zero
  <2> QED BY <2>2, <2>3, <2>4 DEF CallInv
<1> QED BY <1>1, <1>7, <1>8, <1>9, <1>10, StepKeeps DEF db

(* What a row is, by its table.                                             *)
LEMMA RowShapes ==
  ASSUME RowInv
  PROVE  /\ \A r \in rows : r.table = "detections" => r = DetectionRow(r.id, r.by)
         /\ \A r \in rows : \A d : r.table = "lots" /\ r.id = LotIdOf(d) => r = LotRow(d, r.by)
<1>1. ASSUME NEW r \in rows, r.table = "detections" PROVE r = DetectionRow(r.id, r.by)
  BY <1>1 DEF RowInv, RowOK, DeclaredRow, LotRow
<1>2. ASSUME NEW r \in rows, NEW d, r.table = "lots", r.id = LotIdOf(d) PROVE r = LotRow(d, r.by)
  <2>1. r # DeclaredRow(r.by) /\ r # DetectionRow(r.id, r.by)
    BY <1>2 DEF DeclaredRow, DetectionRow, LotIdOf
  <2>2. PICK e \in r.from : r = LotRow(e, r.by)
    BY <2>1 DEF RowInv, RowOK
  <2>3. r.id = LotIdOf(e)
    BY <2>2 DEF LotRow
  <2>4. e = d
    BY <1>2, <2>3 DEF LotIdOf
  <2> QED BY <2>2, <2>4
<1> QED BY <1>1, <1>2

LEMMA InsertKeeps ==
  ASSUME IInv, NEW c \in Ingests, Insert(c)
  PROVE  IInv'
<1>0. PICK p, n, row, ids : p = Planned(c) /\ n = next[c] /\ row = NextRow(c) /\ ids = fresh[c]
  OBVIOUS
<1>1. /\ c \in Calls /\ pc[c] = "insert" /\ n <= 2 * p /\ WaitsFor(c) = {}
      /\ rows' = rows \cup {r \in {row} : SameKey(r) = {}}
      /\ next' = [next EXCEPT ![c] = @ + 1]
      /\ UNCHANGED <<ledger, cache, pc, feed, file, fresh, output>>
  BY <1>0 DEF Insert, Inserting, Calls
<1>2. /\ p \in Nat /\ n \in 1..(2 * p + 1) /\ DOMAIN next = Calls /\ CallTypes(c)
      /\ \A i \in 1..p : ids[i] \in Range(ids)
  <2>1. CallTypes(c) /\ DOMAIN next = Calls
    BY <1>1 DEF IInv, Types
  <2>2. ids \in Seq(Range(ids)) /\ p = Len(ids)
    BY <1>0, <2>1 DEF CallTypes, IsSeq, Planned
  <2> QED BY <1>0, <2>1, <2>2 DEF CallTypes
<1>3. next'[c] = n + 1 /\ Planned(c)' = p /\ pc' = pc /\ fresh'[c] = ids
  BY <1>0, <1>1, <1>2 DEF Planned
<1>4. IF n <= p THEN row = DetectionRow(ids[n], c) /\ n \in 1..p
                ELSE row = LotRow(ids[n - p], c) /\ n - p \in 1..p /\ n - p < n
  BY <1>0, <1>1, <1>2 DEF NextRow, DetectionRow, LotRow
<1>5. row.by = c
  BY <1>4 DEF DetectionRow, LotRow
<1>6. \A r \in rows' : r \in rows \/ (r = row /\ SameKey(row) = {})
  BY <1>1
<1>7. \A r \in SameKey(row) : Sure(r, c)
  BY <1>0, <1>1 DEF WaitsFor, SameKey, Committed, Sure
<1>8. StepOf(c)
  BY <1>1, <1>5, <1>6 DEF StepOf, IInv, Types
<1>9. Types'
  <2>1. CallTypes(c)'
    BY <1>0, <1>1, <1>2, <1>3 DEF CallTypes, IsBody, IsSeq, Early
  <2>2. Goto(c, "insert") /\ "insert" \in Steps
    BY <1>1 DEF Goto, IInv, Types, Steps
  <2> QED BY <1>1, <1>8, <2>1, <2>2, TypesKeep DEF IInv, Types, IsSeq
<1>10. RowInv'
  <2>1. RowOK(row)'
    BY <1>1, <1>4 DEF RowOK, Early, DetectionRow, LotRow
  <2>2. \A r \in rows : RowOK(r)'
    BY <1>1 DEF IInv, RowInv, RowOK
  <2>3. \A r, s \in rows' : r.table = s.table /\ r.id = s.id => r = s
    BY <1>6 DEF IInv, RowInv, SameKey
  <2> QED BY <1>6, <2>1, <2>2, <2>3 DEF RowInv
<1>11. \A table, id : Has(c, table, id) => Has(c, table, id)'
  BY <1>1 DEF Has, Sure
<1>12. Has(c, row.table, row.id)'
  <2>1. CASE SameKey(row) = {}
    BY <1>1, <1>5, <2>1 DEF Has, Sure
  <2>2. CASE SameKey(row) # {}
    <3>1. Has(c, row.table, row.id)
      BY <1>7, <2>2 DEF Has, SameKey
    <3> QED BY <1>11, <3>1
  <2> QED BY <2>1, <2>2
<1>13. \A i \in 1..p : (i < n => Has(c, "detections", ids[i]))
                    /\ (p + i < n => Has(c, "lots", LotIdOf(ids[i])))
  BY <1>0, <1>1 DEF IInv, CallInv, PairInv
<1>14. PairInv(c)'
  <2>1. ASSUME NEW r \in rows', r.by = c, r.table = "lots", NEW d \in r.from
        PROVE  DetectionRow(d, c) \in rows'
    <3>1. CASE r \in rows
      BY <1>1, <2>1, <3>1 DEF IInv, CallInv, PairInv
    <3>2. CASE r = row /\ SameKey(row) = {}
      <4>1. row = LotRow(ids[n - p], c) /\ n - p \in 1..p /\ n - p < n
        BY <1>4, <2>1, <3>2 DEF DetectionRow
      <4>2. d = ids[n - p]
        BY <2>1, <3>2, <4>1 DEF LotRow
      <4>3. PICK s \in rows : Sure(s, c) /\ s.table = "detections" /\ s.id = d
        <5>1. Has(c, "detections", d)
          BY <1>13, <4>1, <4>2
        <5> QED BY <5>1 DEF Has
      <4>4. s = DetectionRow(d, s.by) /\ s.by \in Calls
        BY <4>3, RowShapes DEF IInv, RowInv, RowOK
      <4>5. s.by = c
        <5>1. SUFFICES ASSUME s.by # c PROVE FALSE
          OBVIOUS
        <5>2. pc[s.by] # "insert"
          BY <4>3, <5>1 DEF Sure
        <5>3. LotRow(s.id, s.by) \in rows
          BY <4>3, <4>4, <5>2 DEF IInv, CallInv, PairInv
        <5>4. LotRow(s.id, s.by) \in SameKey(row)
          BY <4>1, <4>2, <4>3, <5>3 DEF SameKey, LotRow
        <5> QED BY <3>2, <5>4
      <4> QED BY <1>1, <4>4, <4>5
    <3> QED BY <1>6, <3>1, <3>2
  <2>2. ASSUME NEW r \in rows', r.by = c, r.table = "detections"
        PROVE  r.id \in Range(ids)
    <3>1. CASE r \in rows
      BY <1>0, <1>1, <2>2, <3>1 DEF IInv, CallInv, PairInv
    <3>2. CASE r = row
      <4>1. n \in 1..p /\ row = DetectionRow(ids[n], c)
        BY <1>4, <2>2, <3>2 DEF LotRow
      <4> QED BY <1>2, <3>2, <4>1 DEF DetectionRow
    <3> QED BY <1>6, <3>1, <3>2
  <2>3. ASSUME NEW i \in 1..p
        PROVE  /\ i < n + 1 => Has(c, "detections", ids[i])'
               /\ p + i < n + 1 => Has(c, "lots", LotIdOf(ids[i]))'
    <3>1. CASE i = n
      <4>1. row.table = "detections" /\ row.id = ids[i]
        BY <1>4, <2>3, <3>1 DEF DetectionRow
      <4>2. ~ (p + i < n + 1)
        BY <1>2, <2>3, <3>1
      <4> QED BY <1>3, <1>12, <4>1, <4>2
    <3>2. CASE p + i = n
      <4>1. row.table = "lots" /\ row.id = LotIdOf(ids[i])
        <5>1. ~ (n <= p) /\ n - p = i
          BY <1>2, <2>3, <3>2
        <5> QED BY <1>4, <5>1 DEF LotRow
      <4>2. i < n
        BY <1>2, <2>3, <3>2
      <4>3. Has(c, "detections", ids[i])
        BY <1>13, <2>3, <4>2
      <4> QED BY <1>11, <1>12, <4>1, <4>3
    <3>3. CASE i # n /\ p + i # n
      <4>1. (i < n + 1 => i < n) /\ (p + i < n + 1 => p + i < n)
        BY <1>2, <2>3, <3>3
      <4>2. /\ i < n + 1 => Has(c, "detections", ids[i])
            /\ p + i < n + 1 => Has(c, "lots", LotIdOf(ids[i]))
        BY <1>13, <2>3, <4>1
      <4> QED BY <1>11, <4>2
    <3> QED BY <3>1, <3>2, <3>3
  <2> QED BY <1>1, <1>3, <2>1, <2>2, <2>3 DEF PairInv
<1>15. ListInv(c)'
  <2>1. \A r \in Committed : r \in Committed'
    BY <1>1, <1>8, CommittedStays DEF IInv
  <2>2. \A id : id \in {r.id : r \in Detections} => id \in {r.id : r \in Detections'}
    BY <2>1 DEF Detections, Committed, Rows
  <2> QED BY <1>1, <2>2 DEF IInv, CallInv, ListInv
<1>16. CountInv(c)'
  BY <1>1 DEF CountInv
<1> QED BY <1>1, <1>8, <1>9, <1>10, <1>14, <1>15, <1>16, StepKeeps DEF CallInv

LEMMA CommitKeeps ==
  ASSUME IInv, NEW c \in Ingests, Commit(c)
  PROVE  IInv'
<1>1. /\ c \in Calls /\ pc[c] = "insert" /\ next[c] > 2 * Planned(c)
      /\ Goto(c, "appendDecision") /\ UNCHANGED <<db, cache, feed, file, fresh, next>>
      /\ output' = [output EXCEPT ![c] = [newDetections |-> Cardinality(RowsBy(c, "detections")),
                                          lotsCreated |-> Cardinality(RowsBy(c, "lots"))]]
  BY DEF Commit, Calls
<1>2. /\ pc'[c] = "appendDecision" /\ rows' = rows /\ pc' = [pc EXCEPT ![c] = "appendDecision"]
      /\ output'[c] = [newDetections |-> Cardinality(RowsBy(c, "detections")),
                       lotsCreated |-> Cardinality(RowsBy(c, "lots"))]
  BY <1>1 DEF Goto, IInv, Types, db
<1>3. StepOf(c)
  BY <1>1, <1>2 DEF StepOf, IInv, Types
<1>4. Types'
  <2>1. CallTypes(c)'
    BY <1>1, <1>2 DEF CallTypes, IInv, Types, Planned, IsBody, IsSeq, Early
  <2> QED BY <1>1, <1>3, <2>1, TypesKeep DEF IInv, Types, Steps, db, IsSeq
<1>5. RowInv'
  BY <1>1, <1>2, RowsKeep DEF IInv, Steps, Early
<1>6. Planned(c) \in Nat /\ next[c] \in Nat /\ DOMAIN fresh[c] = 1..Planned(c)
  BY <1>1 DEF IInv, Types, CallTypes, IsSeq, Planned
<1>7. ASSUME NEW id \in Range(fresh[c])
      PROVE  Has(c, "detections", id) /\ Has(c, "lots", LotIdOf(id))
  <2>1. PICK i \in 1..Planned(c) : id = fresh[c][i]
    BY <1>6, <1>7 DEF Range
  <2>2. i < next[c] /\ Planned(c) + i < next[c]
    BY <1>1, <1>6, <2>1
  <2> QED BY <1>1, <2>1, <2>2 DEF IInv, CallInv, PairInv
<1>8. PairInv(c)'
  <2>1. ASSUME NEW r \in rows, r.by = c, r.table = "detections"
        PROVE  LotRow(r.id, c) \in rows
    <3>1. r.id \in Range(fresh[c]) /\ r = DetectionRow(r.id, c)
      BY <1>1, <2>1, RowShapes DEF IInv, CallInv, PairInv
    <3>2. PICK s \in rows : Sure(s, c) /\ s.table = "lots" /\ s.id = LotIdOf(r.id)
      BY <1>7, <3>1 DEF Has
    <3>3. s = LotRow(r.id, s.by) /\ s.by \in Calls
      BY <3>2, RowShapes DEF IInv, RowInv, RowOK
    <3>4. DetectionRow(r.id, s.by) \in rows
      BY <3>3 DEF IInv, CallInv, PairInv, LotRow
    <3>5. DetectionRow(r.id, s.by) = r
      BY <2>1, <3>1, <3>4 DEF IInv, RowInv, DetectionRow
    <3>6. s.by = c
      BY <2>1, <3>5 DEF DetectionRow
    <3> QED BY <3>2, <3>3, <3>6
  <2>2. \A r \in rows : r.by = c /\ r.table = "lots" => \A d \in r.from : DetectionRow(d, c) \in rows
    BY <1>1 DEF IInv, CallInv, PairInv
  <2> QED BY <1>2, <2>1, <2>2 DEF PairInv
<1>9. ListInv(c)'
  <2> SUFFICES ASSUME NEW line \in Range(ParseCsv(feed[c])), Wanted(line)
               PROVE  DetectionIdOf(line) \in {r.id : r \in Detections'}
    BY <1>1 DEF ListInv
  <2>1. CASE DetectionIdOf(line) \in {r.id : r \in Detections}
    <3>1. PICK r \in Detections : r.id = DetectionIdOf(line)
      BY <2>1
    <3>2. r \in Detections'
      BY <1>1, <1>2, <1>3, <3>1, CommittedStays DEF IInv, Detections, Rows
    <3> QED BY <3>1, <3>2
  <2>2. CASE DetectionIdOf(line) \in Range(fresh[c])
    <3>1. PICK r \in rows : Sure(r, c) /\ r.table = "detections" /\ r.id = DetectionIdOf(line)
      BY <1>7, <2>2 DEF Has
    <3>2. r.by \in Calls
      BY DEF IInv, RowInv, RowOK
    <3>3. pc'[r.by] # "insert"
      BY <1>2, <3>1, <3>2 DEF Sure, IInv, Types
    <3>4. r \in Detections'
      BY <1>2, <3>1, <3>3 DEF Detections, Committed, Rows
    <3> QED BY <3>1, <3>4
  <2> QED BY <1>1, <2>1, <2>2 DEF IInv, CallInv, ListInv
<1>10. CountInv(c)'
  BY <1>2 DEF CountInv, RowsBy, Rows
<1> QED BY <1>1, <1>3, <1>4, <1>5, <1>8, <1>9, <1>10, StepKeeps DEF CallInv, db

(* A transaction that fails takes its rows with it.                         *)
LEMMA EndKeeps ==
  ASSUME IInv, NEW c \in Calls, pc[c] # "done", Goto(c, "failed"),
         rows' = IF pc[c] = "insert" THEN {r \in rows : r.by # c} ELSE rows,
         UNCHANGED <<ledger, cache, file, output>>,
         DOMAIN feed' = Calls, DOMAIN fresh' = Calls, DOMAIN next' = Calls,
         \A d \in Calls \ {c} :
           feed'[d] = feed[d] /\ fresh'[d] = fresh[d] /\ next'[d] = next[d],
         IsBody(feed'[c]), IsSeq(fresh'[c]), next'[c] \in 1..(2 * Len(fresh'[c]) + 1)
  PROVE  IInv'
<1>1. pc' = [pc EXCEPT ![c] = "failed"] /\ pc'[c] = "failed"
  BY DEF Goto, IInv, Types
<1>2. StepOf(c)
  BY <1>1 DEF StepOf, IInv, Types
<1>3. Types'
  <2>1. CallTypes(c)'
    BY <1>1 DEF CallTypes, IInv, Types, Planned, Early
  <2> QED BY <1>2, <2>1, TypesKeep DEF IInv, Types, Steps, Ends, IsSeq
<1>4. RowInv'
  BY RowsKeep DEF IInv, Steps, Ends, Early
<1>5. PairInv(c)'
  <2>1. CASE pc[c] = "insert"
    BY <1>1, <2>1 DEF PairInv
  <2>2. CASE pc[c] # "insert"
    BY <1>1, <2>2 DEF PairInv, IInv, CallInv
  <2> QED BY <2>1, <2>2
<1>6. ListInv(c)' /\ CountInv(c)'
  BY <1>1 DEF ListInv, CountInv
<1> QED BY <1>2, <1>3, <1>4, <1>5, <1>6, StepKeeps DEF CallInv

LEMMA FailKeeps ==
  ASSUME IInv, NEW c \in Calls, Fail(c)
  PROVE  IInv'
<1>1. /\ pc[c] # "done" /\ Goto(c, "failed")
      /\ rows' = IF pc[c] = "insert" THEN {r \in rows : r.by # c} ELSE rows
      /\ UNCHANGED <<ledger, cache, file, output>>
  BY DEF Fail, Ends
<1>2. /\ DOMAIN feed' = Calls /\ DOMAIN fresh' = Calls /\ DOMAIN next' = Calls
      /\ feed'[c] = Empty /\ fresh'[c] = <<>> /\ next'[c] = 1
      /\ \A d \in Calls \ {c} :
           feed'[d] = feed[d] /\ fresh'[d] = fresh[d] /\ next'[d] = next[d]
  BY DEF Fail, IInv, Types
<1>3. IsBody(feed'[c]) /\ IsSeq(fresh'[c]) /\ next'[c] \in 1..(2 * Len(fresh'[c]) + 1)
  BY <1>2 DEF IsBody, IsSeq, Empty
<1> QED BY <1>1, <1>2, <1>3, EndKeeps

LEMMA VictimKeeps ==
  ASSUME IInv, NEW c \in Ingests, DeadlockVictim(c)
  PROVE  IInv'
<1>1. c \in Calls /\ pc[c] = "insert"
  BY DEF DeadlockVictim, Deadlocked, Inserting, Calls
<1>2. CallTypes(c) /\ DOMAIN feed = Calls /\ DOMAIN fresh = Calls /\ DOMAIN next = Calls
  BY <1>1 DEF IInv, Types
<1>3. IsBody(feed[c]) /\ IsSeq(fresh[c]) /\ next[c] \in 1..(2 * Len(fresh[c]) + 1)
  BY <1>2 DEF CallTypes, Planned
<1> QED BY <1>1, <1>2, <1>3, EndKeeps DEF DeadlockVictim

-----------------------------------------------------------------------------
(* The steps of declareWaste, and the decision.                             *)

LEMMA DeclareKeeps ==
  ASSUME IInv, NEW c \in Declarations, Declare(c)
  PROVE  IInv'
<1>1. /\ c \in Calls /\ c \notin Ingests /\ pc[c] = "declare" /\ pc[c] \in Early
      /\ rows' = rows \cup {DeclaredRow(c)} /\ Goto(c, "appendDecision")
      /\ output' = [output EXCEPT ![c] = [newDetections |-> 0, lotsCreated |-> 1]]
      /\ UNCHANGED <<ledger, cache, feed, file, fresh, next>>
  BY CallsAssumption DEF Declare, DeclaredRow, Calls, Early
<1>2. /\ pc' = [pc EXCEPT ![c] = "appendDecision"] /\ pc'[c] = "appendDecision"
      /\ output'[c] = [newDetections |-> 0, lotsCreated |-> 1]
  BY <1>1 DEF Goto, IInv, Types
<1>3. \A r \in rows : r.by # c
  BY <1>1, NoRowsYet DEF IInv
<1>4. StepOf(c)
  BY <1>1, <1>2 DEF StepOf, IInv, Types, DeclaredRow
<1>5. Types'
  <2>1. CallTypes(c)'
    BY <1>1, <1>2 DEF CallTypes, IInv, Types, Planned, IsBody, IsSeq, Early
  <2> QED BY <1>1, <1>4, <2>1, TypesKeep DEF IInv, Types, Steps, IsSeq
<1>6. RowInv'
  <2>1. \A r \in rows : RowOK(r)'
    BY <1>1, <1>2, <1>3 DEF IInv, RowInv, RowOK, Types
  <2>2. RowOK(DeclaredRow(c))'
    BY <1>1, <1>2 DEF RowOK, DeclaredRow, Early
  <2>3. ASSUME NEW r \in rows, r.table = "lots", r.id = <<"new", c>> PROVE FALSE
    <3>1. RowOK(r)
      BY DEF IInv, RowInv
    <3>2. CASE r = DeclaredRow(r.by)
      BY <1>3, <2>3, <3>2 DEF DeclaredRow
    <3>3. CASE r = DetectionRow(r.id, r.by)
      BY <2>3, <3>3 DEF DetectionRow
    <3>4. CASE \E d \in r.from : r = LotRow(d, r.by)
      BY <2>3, <3>4 DEF LotRow, LotIdOf
    <3> QED BY <3>1, <3>2, <3>3, <3>4 DEF RowOK
  <2>4. \A r, s \in rows' : r.table = s.table /\ r.id = s.id => r = s
    <3> SUFFICES ASSUME NEW r \in rows', NEW s \in rows', r.table = s.table, r.id = s.id
                 PROVE  r = s
      OBVIOUS
    <3>1. \A t \in rows : ~ (t.table = DeclaredRow(c).table /\ t.id = DeclaredRow(c).id)
      BY <2>3 DEF DeclaredRow
    <3>2. CASE r \in rows /\ s \in rows
      BY <3>2 DEF IInv, RowInv
    <3> QED BY <1>1, <3>1, <3>2
  <2> QED BY <1>1, <2>1, <2>2, <2>4 DEF RowInv
<1>7. PairInv(c)'
  BY <1>1, <1>2, <1>3 DEF PairInv, DeclaredRow
<1>8. ListInv(c)'
  BY <1>1 DEF ListInv
<1>9. CountInv(c)'
  <2>1. RowsBy(c, "detections")' = {} /\ RowsBy(c, "lots")' = {DeclaredRow(c)}
    BY <1>1, <1>3 DEF RowsBy, Rows, DeclaredRow
  <2> QED BY <1>2, <2>1, FS_EmptySet, FS_Singleton DEF CountInv
<1> QED BY <1>1, <1>4, <1>5, <1>6, <1>7, <1>8, <1>9, StepKeeps DEF CallInv

LEMMA AppendKeeps ==
  ASSUME IInv, NEW c \in Calls, AppendDecision(c)
  PROVE  IInv'
<1>1. PICK entry :
        /\ entry = [call |-> c, newDetections |-> output[c].newDetections,
                    lotsCreated |-> output[c].lotsCreated]
        /\ ledger' = Append(ledger, entry)
  BY DEF AppendDecision
<1>2. /\ pc[c] = "appendDecision" /\ Goto(c, "done")
      /\ pc' = [pc EXCEPT ![c] = "done"] /\ pc'[c] = "done"
      /\ UNCHANGED <<rows, cache, feed, file, fresh, next, output>>
  BY DEF AppendDecision, Goto, IInv, Types
<1>3. StepOf(c)
  BY <1>2 DEF StepOf, IInv, Types
<1>4. /\ IsSeq(ledger') /\ DOMAIN ledger = 1..Len(ledger) /\ Len(ledger) \in Nat
      /\ DOMAIN ledger' = 1..(Len(ledger) + 1)
      /\ \A i \in DOMAIN ledger' : ledger'[i] = IF i = Len(ledger) + 1 THEN entry ELSE ledger[i]
  <2>1. ledger \in Seq(Range(ledger))
    BY DEF IInv, Types, IsSeq
  <2>2. ledger' \in Seq(Range(ledger) \cup {entry}) /\ Len(ledger') = Len(ledger) + 1
    BY <1>1, <2>1
  <2>3. IsSeq(ledger')
    BY <2>2, SeqOfItsRange
  <2> QED BY <1>1, <2>1, <2>2, <2>3
<1>5. Types'
  <2>1. CallTypes(c)'
    BY <1>2 DEF CallTypes, IInv, Types, Planned, IsBody, IsSeq, Early
  <2> QED BY <1>2, <1>3, <1>4, <2>1, TypesKeep DEF IInv, Types, Steps, Ends, IsSeq
<1>6. RowInv'
  BY <1>2, RowsKeep DEF IInv, Steps, Ends, Early
<1>7. CallInv(c)'
  <2>1. PairInv(c)' /\ CountInv(c)'
    BY <1>2 DEF IInv, CallInv, PairInv, CountInv, RowsBy, Rows
  <2>2. ListInv(c)'
    <3>1. \A r \in Detections : r \in Detections'
      BY <1>2, <1>3, CommittedStays DEF IInv, Detections, Rows
    <3> QED BY <1>2, <3>1 DEF IInv, CallInv, ListInv
  <2> QED BY <2>1, <2>2 DEF CallInv
<1>8. LedgerInv'
  <2>1. \A d \in Calls : \A table : RowsBy(d, table)' = RowsBy(d, table)
    BY <1>2 DEF RowsBy, Rows
  <2>2. \A i \in DOMAIN ledger : ledger[i].call \in Calls \ {c}
    BY <1>2 DEF IInv, LedgerInv
  <2>3. /\ entry.call = c /\ entry.newDetections = Cardinality(RowsBy(c, "detections"))
        /\ entry.lotsCreated = Cardinality(RowsBy(c, "lots"))
    <3>1. output[c] = [newDetections |-> Cardinality(RowsBy(c, "detections")),
                       lotsCreated |-> Cardinality(RowsBy(c, "lots"))]
      BY <1>2 DEF IInv, CallInv, CountInv
    <3> QED BY <1>1, <3>1
  <2> SUFFICES ASSUME NEW i \in DOMAIN ledger', NEW d, d = ledger'[i].call
               PROVE  /\ d \in Calls /\ pc'[d] = "done"
                      /\ ledger'[i].newDetections = Cardinality(RowsBy(d, "detections")')
                      /\ ledger'[i].lotsCreated = Cardinality(RowsBy(d, "lots")')
                      /\ \A j \in DOMAIN ledger' : ledger'[j].call = d => i = j
    BY DEF LedgerInv
  <2>4. CASE i = Len(ledger) + 1
    <3>1. d = c /\ ledger'[i] = entry
      BY <1>4, <2>3, <2>4
    <3>2. \A j \in DOMAIN ledger' : ledger'[j].call = c => i = j
      BY <1>4, <2>2, <2>4
    <3> QED BY <1>2, <2>1, <2>3, <3>1, <3>2
  <2>5. CASE i # Len(ledger) + 1
    <3>1. i \in DOMAIN ledger /\ ledger'[i] = ledger[i] /\ d = ledger[i].call /\ d \in Calls \ {c}
      BY <1>4, <2>2, <2>5
    <3>2. pc'[d] = "done"
      BY <1>2, <3>1 DEF IInv, LedgerInv, Types
    <3>3. \A j \in DOMAIN ledger' : ledger'[j].call = d => i = j
      BY <1>4, <2>3, <3>1 DEF IInv, LedgerInv
    <3>4. /\ ledger[i].newDetections = Cardinality(RowsBy(d, "detections"))
          /\ ledger[i].lotsCreated = Cardinality(RowsBy(d, "lots"))
      BY <3>1 DEF IInv, LedgerInv
    <3> QED BY <2>1, <3>1, <3>2, <3>3, <3>4
  <2> QED BY <2>4, <2>5
<1> QED BY <1>3, <1>5, <1>6, <1>7, <1>8, OthersKeep DEF IInv

-----------------------------------------------------------------------------
LEMMA Start == Init => IInv
<1> SUFFICES ASSUME Init PROVE IInv
  OBVIOUS
<1>1. Types
  <2>1. IsSeq(<<>>) /\ IsBody(Empty) /\ Len(<<>>) = 0
    BY DEF IsSeq, IsBody, Empty
  <2> QED BY <2>1 DEF Init, Types, CallTypes, Steps, Ends, Early, Planned, Zero
<1> QED BY <1>1 DEF Init, IInv, RowInv, CallInv, PairInv, ListInv, CountInv, LedgerInv

LEMMA Step == IInv /\ [Next]_vars => IInv'
<1> SUFFICES ASSUME IInv, [Next]_vars PROVE IInv'
  OBVIOUS
<1>1. CASE \E c \in Ingests : Ingest(c)
  BY <1>1, FeedSteps, CacheSteps, SelectKeeps, InsertKeeps, CommitKeeps, VictimKeeps DEF Ingest
<1>2. CASE \E c \in Declarations : Declare(c)
  BY <1>2, DeclareKeeps
<1>3. CASE \E c \in Calls : AppendDecision(c) \/ Fail(c)
  BY <1>3, AppendKeeps, FailKeeps
<1>4. CASE UNCHANGED vars
  <2>1. Types' /\ RowInv'
    BY <1>4 DEF vars, db, call, IInv, Types, CallTypes, Planned, RowInv, RowOK, IsSeq
  <2>2. ASSUME NEW c \in Calls PROVE CallInv(c)'
    <3>1. PairInv(c)'
      BY <1>4 DEF vars, db, call, IInv, CallInv, PairInv, Has, Sure, Planned
    <3>2. ListInv(c)'
      BY <1>4 DEF vars, db, call, IInv, CallInv, ListInv, Detections, Committed, Rows
    <3>3. CountInv(c)'
      BY <1>4 DEF vars, db, call, IInv, CallInv, CountInv, RowsBy, Rows
    <3> QED BY <3>1, <3>2, <3>3 DEF CallInv
  <2>3. LedgerInv'
    BY <1>4 DEF vars, db, call, IInv, LedgerInv, RowsBy, Rows
  <2> QED BY <2>1, <2>2, <2>3 DEF IInv
<1> QED BY <1>1, <1>2, <1>3, <1>4 DEF Next

LEMMA Always == Spec => []IInv
BY Start, Step, PTL DEF Spec

(* Detections and detected lots are there in pairs, whatever transactions   *)
(* race, deadlock or fail (ingestBurns.ts, declareWaste.ts).                *)
THEOREM LotsInPairs == Spec => []LotWithDetection
<1>1. IInv => LotWithDetection
  <2> SUFFICES ASSUME IInv PROVE LotWithDetection
    OBVIOUS
  <2>1. TypeOK
    <3>1. \A r \in rows : r.table \in {"detections", "lots"} /\ r.by \in Calls
      BY DEF IInv, RowInv, RowOK, DeclaredRow, DetectionRow, LotRow
    <3>2. \A i \in DOMAIN ledger : ledger[i].call \in Calls
      BY DEF IInv, LedgerInv
    <3> QED BY <3>1, <3>2 DEF TypeOK, IInv, Types, CallTypes, Calls, Steps
  <2>2. ASSUME NEW r \in Lots, r.from # {}
        PROVE  \E s \in Detections : r.from = {s.id}
    <3>1. r \in rows /\ r.table = "lots" /\ pc[r.by] # "insert" /\ RowOK(r)
      BY DEF Lots, Committed, Rows, IInv, RowInv
    <3>2. PICK d \in r.from : r = LotRow(d, r.by)
      BY <2>2, <3>1 DEF RowOK, DeclaredRow, DetectionRow
    <3>3. DetectionRow(d, r.by) \in rows
      BY <3>1, <3>2 DEF IInv, CallInv, PairInv, RowOK
    <3>4. DetectionRow(d, r.by) \in Detections
      BY <3>1, <3>3 DEF Detections, Committed, Rows, DetectionRow
    <3> QED BY <3>2, <3>4 DEF LotRow, DetectionRow
  <2>3. ASSUME NEW s \in Detections
        PROVE  \E r \in Lots : r.from = {s.id}
    <3>1. s \in rows /\ s.table = "detections" /\ pc[s.by] # "insert" /\ s.by \in Calls
      BY DEF Detections, Committed, Rows, IInv, RowInv, RowOK
    <3>2. LotRow(s.id, s.by) \in rows
      BY <3>1 DEF IInv, CallInv, PairInv
    <3>3. LotRow(s.id, s.by) \in Lots
      BY <3>1, <3>2 DEF Lots, Committed, Rows, LotRow
    <3> QED BY <3>3 DEF LotRow
  <2>4. \A r \in Lots : r.from = {} <=> r.by \in Declarations
    <3> SUFFICES ASSUME NEW r \in Lots PROVE r.from = {} <=> r.by \in Declarations
      OBVIOUS
    <3>1. RowOK(r) /\ r.table = "lots"
      BY DEF Lots, Committed, Rows, IInv, RowInv
    <3>2. r = DeclaredRow(r.by) => r.from = {}
      BY DEF DeclaredRow
    <3>3. r # DetectionRow(r.id, r.by)
      BY <3>1 DEF DetectionRow
    <3> QED BY <3>1, <3>2, <3>3, CallsAssumption DEF RowOK
  <2>5. {r.from : r \in Lots} \ {{}} = {{s.id} : s \in Detections}
    BY <2>2, <2>3
  <2> QED BY <2>1, <2>4, <2>5 DEF LotWithDetection, IInv, RowInv
<1> QED BY <1>1, Always, PTL

(* The counts in the ledger are of committed rows the call inserted.        *)
THEOREM CountsTrue == Spec => []CountsAreTrue
<1>1. IInv => CountsAreTrue
  <2> SUFFICES ASSUME IInv, NEW i \in DOMAIN ledger
               PROVE  LET c == ledger[i].call
                      IN  /\ RowsBy(c, "lots") \cap Lots = RowsBy(c, "lots")
                          /\ RowsBy(c, "detections") \cap Detections = RowsBy(c, "detections")
    BY DEF CountsAreTrue, IInv, LedgerInv
  <2>1. pc[ledger[i].call] = "done"
    BY DEF IInv, LedgerInv
  <2> QED BY <2>1 DEF RowsBy, Rows, Lots, Detections, Committed
<1> QED BY <1>1, Always, PTL

(* A call that answered leaves nothing of its response behind: what it did  *)
(* not insert itself was committed by the one it waited for.                *)
THEOREM NothingLeftBehind == Spec => []DoneMeansListed
<1>1. IInv => DoneMeansListed
  BY DEF IInv, CallInv, ListInv, DoneMeansListed, Calls
<1> QED BY <1>1, Always, PTL
=============================================================================
