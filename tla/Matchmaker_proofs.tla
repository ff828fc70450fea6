------------------------- MODULE Matchmaker_proofs -------------------------
(* What a matching round promises, whatever lots and units it is given, and *)
(* what the matching lock makes of any number of rounds: first how tonnes   *)
(* add up, the order of the lots and the loop of assign; then the rounds    *)
(* and the ledger; then the lots and the units over all the rounds.         *)
EXTENDS Matchmaker, Rules, FiniteSetTheorems, WellFoundedInduction, TLAPS

(* Every set of naturals has a least element.                               *)
LEMMA LeastNat ==
  ASSUME NEW S, S \subseteq Nat, S # {}
  PROVE  \E x \in S : \A y \in S : x <= y
<1>1. PICK x \in S : \A y \in S : ~ (<<y, x>> \in OpToRel(<, Nat))
  BY NatLessThanWellFounded, WFMin
<1>2. \A y \in S : ~ (y < x)
  BY <1>1 DEF OpToRel
<1> QED BY <1>2

(* A function of the subsets of a finite set may be defined by taking away  *)
(* one element at a time.                                                   *)
Follows(f, X, base, pick, step) ==
  \A s \in SUBSET X : f[s] = IF s = {} THEN base ELSE step[s][f[s \ {pick[s]}]]

(* Such a function exists.                                                  *)
LEMMA Recursion ==
  ASSUME NEW X, IsFiniteSet(X), NEW V, NEW base \in V,
         NEW pick, \A s \in SUBSET X : s # {} => pick[s] \in s,
         NEW step, \A s \in SUBSET X, v \in V : s # {} => step[s][v] \in V
  PROVE  \E f \in [SUBSET X -> V] : Follows(f, X, base, pick, step)
<1> DEFINE Small(n) == {s \in SUBSET X : Cardinality(s) <= n}
           Upto(n, f) == \A s \in Small(n) :
             f[s] = IF s = {} THEN base ELSE step[s][f[s \ {pick[s]}]]
           Can(n) == \E f \in [Small(n) -> V] : Upto(n, f)
           Bad == {n \in Nat : ~ Can(n)}
<1>1. \A s \in SUBSET X : IsFiniteSet(s) /\ Cardinality(s) \in Nat /\ Cardinality(s) <= Cardinality(X)
  BY FS_Subset, FS_CardinalityType
<1>2. \A s \in SUBSET X : s # {} =>
        Cardinality(s) # 0 /\ Cardinality(s \ {pick[s]}) = Cardinality(s) - 1
  BY <1>1, FS_RemoveElement, FS_EmptySet
<1>3. ASSUME Bad # {} PROVE FALSE
  <2>1. PICK n \in Nat : ~ Can(n) /\ \A m \in Nat : ~ Can(m) => n <= m
    <3> HIDE DEF Can
    <3> QED BY <1>3, LeastNat
  <2>2. Can(0)
    <3> DEFINE f == [s \in Small(0) |-> base]
    <3>1. \A s \in Small(0) : s = {}
      <4> TAKE s \in Small(0)
      <4>1. Cardinality(s) \in Nat /\ Cardinality(s) <= 0
        BY <1>1
      <4>2. Cardinality(s) = 0
        BY <4>1
      <4> QED BY <1>2, <4>2
    <3>2. f \in [Small(0) -> V] /\ Upto(0, f)
      BY <3>1
    <3> QED BY <3>2
  <2>3. n - 1 \in Nat /\ Can(n - 1)
    <3> HIDE DEF Can
    <3> QED BY <2>1, <2>2
  <2>4. PICK f \in [Small(n - 1) -> V] : Upto(n - 1, f)
    BY <2>3
  <2> DEFINE g == [s \in Small(n) |-> IF s \in Small(n - 1) THEN f[s]
                                       ELSE step[s][f[s \ {pick[s]}]]]
  <2>5. \A s \in Small(n) : s # {} => s \ {pick[s]} \in Small(n - 1)
    BY <1>1, <1>2, <2>3
  <2>6. \A s \in Small(n - 1) : s \in Small(n)
    BY <1>1, <2>3
  <2>7. {} \in Small(n - 1)
    BY <2>3, FS_EmptySet
  <2>8. g \in [Small(n) -> V]
    BY <2>5, <2>7
  <2>9. \A s \in Small(n - 1) : g[s] = f[s]
    BY <2>6
  <2>10. Upto(n, g)
    <3> TAKE s \in Small(n)
    <3>1. s # {} => g[s \ {pick[s]}] = f[s \ {pick[s]}]
      BY <2>5, <2>9
    <3>2. CASE s \in Small(n - 1)
      BY <2>4, <2>9, <3>1, <3>2
    <3>3. CASE s \notin Small(n - 1)
      BY <2>7, <3>1, <3>3
    <3> QED BY <3>2, <3>3
  <2>11. Can(n)
    <3> HIDE DEF g
    <3> QED BY <2>8, <2>10
  <2> QED BY <2>1, <2>11
<1> DEFINE N == Cardinality(X)
<1>4. N \in Nat
  BY FS_CardinalityType
<1>5. Can(N)
  <2> HIDE DEF Can
  <2> QED BY <1>3, <1>4
<1>6. Small(N) = SUBSET X
  BY <1>1
<1> QED BY <1>5, <1>6 DEF Follows

-----------------------------------------------------------------------------
(* Sums of tonnes.                                                          *)
Tonnes(X) == MapThenSumSet(LAMBDA m : m.assignedTonnes, X)

(* A sum needs finitely many rows, each with a whole number of tonnes.      *)
Weighed(X) == IsFiniteSet(X) /\ \A x \in X : x.assignedTonnes \in Nat

(* The sums of all the parts of X.                                          *)
SumsOf(X, f) ==
  f = [s \in SUBSET X |->
         IF s = {} THEN 0
         ELSE LET x == CHOOSE x \in s : TRUE IN x.assignedTonnes + f[s \ {x}]]

(* Tonnes is computed by taking one row away after another.                 *)
LEMMA TonnesIsSum ==
  ASSUME NEW X, NEW f, SumsOf(X, f)
  PROVE  \E g : SumsOf(X, g) /\ Tonnes(X) = g[X]
BY DEF Tonnes, SumsOf, MapThenSumSet, MapThenFoldSet

(* Such a computation exists for every finite set of weighed rows.          *)
LEMMA SumsExist ==
  ASSUME NEW X, Weighed(X)
  PROVE  \E f \in [SUBSET X -> Nat] : SumsOf(X, f)
<1> DEFINE pick == [s \in SUBSET X |-> CHOOSE x \in s : TRUE]
           step == [s \in SUBSET X |-> [v \in Nat |-> pick[s].assignedTonnes + v]]
<1>1. \A s \in SUBSET X : s # {} => pick[s] \in s
  OBVIOUS
<1>2. \A s \in SUBSET X, v \in Nat : s # {} =>
        step[s][v] = pick[s].assignedTonnes + v /\ step[s][v] \in Nat
  BY <1>1 DEF Weighed
<1> HIDE DEF step
<1>3. PICK f \in [SUBSET X -> Nat] : Follows(f, X, 0, pick, step)
  <2>1. IsFiniteSet(X) /\ 0 \in Nat
    BY DEF Weighed
  <2> HIDE DEF pick
  <2>2. \A s \in SUBSET X, v \in Nat : s # {} => step[s][v] \in Nat
    BY <1>2
  <2> QED BY ONLY <1>1, <2>1, <2>2, Recursion, Zenon
<1>4. \A s \in SUBSET X : s # {} => f[s] = pick[s].assignedTonnes + f[s \ {pick[s]}]
  <2> TAKE s \in SUBSET X
  <2> HAVE s # {}
  <2>1. s \ {pick[s]} \in SUBSET X
    OBVIOUS
  <2>2. f[s \ {pick[s]}] \in Nat
    BY <2>1
  <2>3. f[s] = step[s][f[s \ {pick[s]}]]
    BY <1>3 DEF Follows
  <2> QED BY <1>2, <2>2, <2>3
<1>5. SumsOf(X, f)
  BY <1>3, <1>4 DEF SumsOf, Follows
<1> QED BY <1>5

(* Two tables of sums agree where both are defined.                         *)
LEMMA SumsAgree ==
  ASSUME NEW X, IsFiniteSet(X), NEW Y \in SUBSET X, NEW f, SumsOf(X, f), NEW g, SumsOf(Y, g)
  PROVE  \A s \in SUBSET Y : f[s] = g[s]
<1> DEFINE Bad == {n \in Nat : \E s \in SUBSET Y : Cardinality(s) = n /\ f[s] # g[s]}
<1>1. \A s \in SUBSET Y : IsFiniteSet(s) /\ Cardinality(s) \in Nat
  BY FS_Subset, FS_CardinalityType
<1>2. ASSUME Bad # {} PROVE FALSE
  <2>1. PICK n \in Bad : \A m \in Bad : n <= m
    BY <1>2, LeastNat
  <2>2. PICK s \in SUBSET Y : Cardinality(s) = n /\ f[s] # g[s]
    BY <2>1
  <2>3. s # {}
    BY <2>2 DEF SumsOf
  <2> DEFINE x == CHOOSE x \in s : TRUE
             t == s \ {x}
  <2>4. x \in s
    BY <2>3
  <2>5. t \in SUBSET Y /\ Cardinality(t) = n - 1 /\ n # 0
    BY <1>1, <2>2, <2>3, <2>4, FS_RemoveElement, FS_EmptySet
  <2>6. f[t] = g[t]
    BY <1>1, <2>1, <2>5
  <2>7. f[s] = x.assignedTonnes + f[t] /\ g[s] = x.assignedTonnes + g[t]
    BY <2>3 DEF SumsOf
  <2> QED BY <2>2, <2>6, <2>7
<1> QED BY <1>1, <1>2

(* What Tonnes computes: nothing for no rows, else one of the rows and the  *)
(* rest.                                                                    *)
LEMMA TonnesStep ==
  ASSUME NEW X, Weighed(X)
  PROVE  /\ Tonnes(X) \in Nat
         /\ X = {} => Tonnes(X) = 0
         /\ X # {} => LET x == CHOOSE x \in X : TRUE
                      IN  Tonnes(X) = x.assignedTonnes + Tonnes(X \ {x})
<1> DEFINE x == CHOOSE x \in X : TRUE
           Y == X \ {x}
<1>1. Weighed(Y) /\ Y \in SUBSET X /\ IsFiniteSet(X)
  BY FS_Subset DEF Weighed
<1>2. PICK f \in [SUBSET X -> Nat] : SumsOf(X, f)
  BY SumsExist
<1>3. PICK g : SumsOf(X, g) /\ Tonnes(X) = g[X]
  BY <1>2, TonnesIsSum
<1>4. PICK h \in [SUBSET Y -> Nat] : SumsOf(Y, h)
  BY <1>1, SumsExist
<1>5. PICK k : SumsOf(Y, k) /\ Tonnes(Y) = k[Y]
  BY <1>4, TonnesIsSum
<1>6. f[X] = g[X] /\ f[Y] = g[Y]
  BY <1>1, <1>2, <1>3, SumsAgree
<1>7. f[Y] = k[Y]
  BY <1>1, <1>2, <1>5, SumsAgree
<1>8. X # {} => g[X] = x.assignedTonnes + g[Y]
  BY <1>3 DEF SumsOf
<1>9. X = {} => g[X] = 0
  BY <1>3 DEF SumsOf
<1>10. f[X] \in Nat
  OBVIOUS
<1> QED BY <1>3, <1>5, <1>6, <1>7, <1>8, <1>9, <1>10

(* Any element may be taken away, not only the one CHOOSE names.            *)
LEMMA TonnesLess ==
  ASSUME NEW X, Weighed(X), NEW x \in X
  PROVE  Tonnes(X) = x.assignedTonnes + Tonnes(X \ {x})
<1> DEFINE Bad == {n \in Nat : \E s \in SUBSET X : Cardinality(s) = n /\
                     \E y \in s : Tonnes(s) # y.assignedTonnes + Tonnes(s \ {y})}
<1>1. \A s \in SUBSET X : IsFiniteSet(s) /\ Cardinality(s) \in Nat /\ Weighed(s) /\ Tonnes(s) \in Nat
  <2> TAKE s \in SUBSET X
  <2>1. IsFiniteSet(s)
    BY FS_Subset DEF Weighed
  <2>2. Weighed(s)
    BY <2>1 DEF Weighed
  <2> QED BY <2>1, <2>2, FS_CardinalityType, TonnesStep
<1>2. ASSUME Bad # {} PROVE FALSE
  <2>1. PICK n \in Bad : \A m \in Bad : n <= m
    BY <1>2, LeastNat
  <2>2. PICK s \in SUBSET X : Cardinality(s) = n /\ \E y \in s : Tonnes(s) # y.assignedTonnes + Tonnes(s \ {y})
    BY <2>1
  <2>3. PICK y \in s : Tonnes(s) # y.assignedTonnes + Tonnes(s \ {y})
    BY <2>2
  <2> DEFINE z == CHOOSE z \in s : TRUE
  <2>4. z \in s /\ Tonnes(s) = z.assignedTonnes + Tonnes(s \ {z})
    BY <1>1, <2>3, TonnesStep
  <2>5. z # y
    BY <2>3, <2>4
  <2> HIDE DEF z
  <2>6. /\ s \ {z} \in SUBSET X /\ s \ {y} \in SUBSET X /\ (s \ {z}) \ {y} \in SUBSET X
        /\ (s \ {z}) \ {y} = (s \ {y}) \ {z}
        /\ y \in s \ {z} /\ z \in s \ {y}
    BY <2>4, <2>5
  <2>7. Cardinality(s \ {z}) = n - 1 /\ Cardinality(s \ {y}) = n - 1
    BY <1>1, <2>2, <2>4, FS_RemoveElement
  <2>8. n - 1 \in Nat /\ n - 1 \notin Bad
    BY <1>1, <2>1, <2>6, <2>7
  <2>9. /\ Tonnes(s \ {z}) = y.assignedTonnes + Tonnes((s \ {z}) \ {y})
        /\ Tonnes(s \ {y}) = z.assignedTonnes + Tonnes((s \ {y}) \ {z})
    BY <2>6, <2>7, <2>8
  <2>10. /\ y.assignedTonnes \in Nat /\ z.assignedTonnes \in Nat
         /\ Tonnes((s \ {y}) \ {z}) \in Nat
    BY <1>1, <2>4, <2>6 DEF Weighed
  <2> DEFINE rest == Tonnes((s \ {y}) \ {z})
  <2>11. /\ Tonnes(s) = z.assignedTonnes + (y.assignedTonnes + rest)
         /\ Tonnes(s \ {y}) = z.assignedTonnes + rest
    BY <2>4, <2>6, <2>9
  <2> HIDE DEF rest
  <2>12. z.assignedTonnes + (y.assignedTonnes + rest) = y.assignedTonnes + (z.assignedTonnes + rest)
    BY <2>10 DEF rest
  <2> QED BY <2>3, <2>11, <2>12
<1> QED BY <1>1, <1>2

(* A row more weighs its tonnes more.                                       *)
LEMMA TonnesMore ==
  ASSUME NEW X, Weighed(X), NEW x, x \notin X, x.assignedTonnes \in Nat
  PROVE  Weighed(X \cup {x}) /\ Tonnes(X \cup {x}) = Tonnes(X) + x.assignedTonnes
<1>1. Weighed(X \cup {x})
  BY FS_AddElement DEF Weighed
<1>2. (X \cup {x}) \ {x} = X
  OBVIOUS
<1>3. Tonnes(X \cup {x}) = x.assignedTonnes + Tonnes((X \cup {x}) \ {x})
  BY <1>1, TonnesLess
<1>4. Tonnes(X) \in Nat
  BY TonnesStep
<1>5. Tonnes(X \cup {x}) = x.assignedTonnes + Tonnes(X)
  BY <1>2, <1>3
<1> QED BY <1>1, <1>4, <1>5

(* Apart, sums add up; so a part weighs no more than the whole.             *)
LEMMA TonnesApart ==
  ASSUME NEW X, Weighed(X), NEW Y, Weighed(Y), X \cap Y = {}
  PROVE  Weighed(X \cup Y) /\ Tonnes(X \cup Y) = Tonnes(X) + Tonnes(Y)
<1> DEFINE Bad == {n \in Nat : \E s \in SUBSET Y : Cardinality(s) = n /\
                     Tonnes(X \cup s) # Tonnes(X) + Tonnes(s)}
<1>1. \A s \in SUBSET Y : /\ IsFiniteSet(s) /\ Cardinality(s) \in Nat /\ Weighed(s) /\ Tonnes(s) \in Nat
                          /\ Weighed(X \cup s)
  <2> TAKE s \in SUBSET Y
  <2>1. IsFiniteSet(s) /\ IsFiniteSet(X \cup s)
    BY FS_Subset, FS_Union DEF Weighed
  <2>2. Weighed(s) /\ Weighed(X \cup s)
    BY <2>1 DEF Weighed
  <2> QED BY <2>1, <2>2, FS_CardinalityType, TonnesStep
<1>2. Tonnes(X) \in Nat
  BY TonnesStep
<1>3. ASSUME Bad # {} PROVE FALSE
  <2>1. PICK n \in Bad : \A m \in Bad : n <= m
    BY <1>3, LeastNat
  <2>2. PICK s \in SUBSET Y : Cardinality(s) = n /\ Tonnes(X \cup s) # Tonnes(X) + Tonnes(s)
    BY <2>1
  <2>3. s # {}
    <3>1. Tonnes({}) = 0 /\ X \cup {} = X
      BY <1>1, TonnesStep
    <3> QED BY <1>2, <2>2, <3>1
  <2>4. PICK x \in s : TRUE
    BY <2>3
  <2> DEFINE t == s \ {x}
  <2>5. /\ t \in SUBSET Y /\ x \notin t /\ x \notin X \cup t
        /\ t \cup {x} = s /\ (X \cup t) \cup {x} = X \cup s
    BY <2>4
  <2>6. x.assignedTonnes \in Nat
    BY <2>4 DEF Weighed
  <2>7. Cardinality(t) = n - 1 /\ n # 0
    BY <1>1, <2>2, <2>3, <2>4, FS_RemoveElement, FS_EmptySet
  <2> HIDE DEF t
  <2>12. n - 1 \in Nat /\ n - 1 \notin Bad
    <3>1. n \in Nat
      BY <2>1
    <3> HIDE DEF Bad
    <3> QED BY <2>1, <2>7, <3>1
  <2>8. Tonnes(X \cup t) = Tonnes(X) + Tonnes(t)
    BY <2>5, <2>7, <2>12
  <2>9. Tonnes(s) = Tonnes(t) + x.assignedTonnes
    BY <1>1, <2>5, <2>6, TonnesMore
  <2>10. Tonnes(X \cup s) = Tonnes(X \cup t) + x.assignedTonnes
    BY <1>1, <2>5, <2>6, TonnesMore
  <2>11. (Tonnes(X) + Tonnes(t)) + x.assignedTonnes = Tonnes(X) + (Tonnes(t) + x.assignedTonnes)
    <3>1. Tonnes(t) \in Nat
      BY <1>1, <2>5
    <3> QED BY <1>2, <2>6, <3>1
  <2> QED BY <2>2, <2>8, <2>9, <2>10, <2>11
<1>4. Tonnes(X \cup Y) = Tonnes(X) + Tonnes(Y)
  BY <1>1, <1>3
<1> QED BY <1>1, <1>4

(* A part weighs no more than the whole.                                    *)
LEMMA TonnesOfPart ==
  ASSUME NEW Y, Weighed(Y), NEW X \in SUBSET Y
  PROVE  Weighed(X) /\ Tonnes(X) \in Nat /\ Tonnes(Y) \in Nat /\ Tonnes(X) <= Tonnes(Y)
<1>1. IsFiniteSet(X) /\ IsFiniteSet(Y \ X)
  BY FS_Subset DEF Weighed
<1>2. Weighed(X) /\ Weighed(Y \ X) /\ X \cap (Y \ X) = {} /\ X \cup (Y \ X) = Y
  BY <1>1 DEF Weighed
<1>3. Tonnes(Y) = Tonnes(X) + Tonnes(Y \ X)
  BY <1>2, TonnesApart
<1>4. Tonnes(X) \in Nat /\ Tonnes(Y \ X) \in Nat
  BY <1>2, TonnesStep
<1> QED BY <1>2, <1>3, <1>4

(* Rows made of assignments, one of each, weigh the same.                   *)
LEMMA TonnesOfRows ==
  ASSUME NEW A, Weighed(A), NEW row, DOMAIN row = A,
         \A a \in A : row[a].assignedTonnes = a.assignedTonnes,
         \A a, b \in A : row[a] = row[b] => a = b
  PROVE  LET rows == {row[a] : a \in A}
         IN  Weighed(rows) /\ Tonnes(rows) = Tonnes(A)
<1> DEFINE Of(s) == {row[a] : a \in s}
           Bad == {n \in Nat : \E s \in SUBSET A : Cardinality(s) = n /\
                     ~ (Weighed(Of(s)) /\ Tonnes(Of(s)) = Tonnes(s))}
<1>1. \A s \in SUBSET A : IsFiniteSet(s) /\ Cardinality(s) \in Nat /\ Weighed(s)
  <2> TAKE s \in SUBSET A
  <2>1. IsFiniteSet(s)
    BY FS_Subset DEF Weighed
  <2> QED BY <2>1, FS_CardinalityType DEF Weighed
<1>2. ASSUME Bad # {} PROVE FALSE
  <2>1. PICK n \in Bad : \A m \in Bad : n <= m
    BY <1>2, LeastNat
  <2>2. PICK s \in SUBSET A : Cardinality(s) = n /\ ~ (Weighed(Of(s)) /\ Tonnes(Of(s)) = Tonnes(s))
    BY <2>1
  <2>3. s # {}
    <3>1. Of({}) = {} /\ Weighed({})
      BY <1>1
    <3> QED BY <2>2, <3>1
  <2>4. PICK a \in s : TRUE
    BY <2>3
  <2> DEFINE t == s \ {a}
  <2>5. t \in SUBSET A /\ a \notin t /\ t \cup {a} = s /\ a \in A
    BY <2>4
  <2>6. Of(s) = Of(t) \cup {row[a]} /\ row[a] \notin Of(t)
    BY <2>5
  <2>7. a.assignedTonnes \in Nat /\ row[a].assignedTonnes = a.assignedTonnes
    BY <2>5 DEF Weighed
  <2>8. Cardinality(t) = n - 1 /\ n # 0
    BY <1>1, <2>2, <2>3, <2>4, FS_RemoveElement, FS_EmptySet
  <2> HIDE DEF t
  <2>12. n - 1 \in Nat /\ n - 1 \notin Bad
    <3>1. n \in Nat
      BY <2>1
    <3> HIDE DEF Bad
    <3> QED BY <2>1, <2>8, <3>1
  <2>9. Weighed(Of(t)) /\ Tonnes(Of(t)) = Tonnes(t)
    BY <2>5, <2>8, <2>12
  <2> HIDE DEF Of
  <2>10. Weighed(Of(s)) /\ Tonnes(Of(s)) = Tonnes(Of(t)) + row[a].assignedTonnes
    BY <2>6, <2>7, <2>9, TonnesMore
  <2>11. Tonnes(s) = Tonnes(t) + a.assignedTonnes
    BY <1>1, <2>5, <2>7, TonnesMore
  <2> QED BY <2>2, <2>7, <2>9, <2>10, <2>11
<1> HIDE DEF Of
<1>3. Weighed(Of(A)) /\ Tonnes(Of(A)) = Tonnes(A)
  BY <1>1, <1>2
<1> QED BY <1>3 DEF Of

-----------------------------------------------------------------------------
(* The order of the lots.                                                   *)

(* What assign asks of the lots and the units: whole numbers, and one of    *)
(* each id.                                                                 *)
AreLots(lots, units) ==
  /\ IsFiniteSet(lots)
  /\ \A l \in lots : l.id \in Nat /\ l.tonnes \in Nat /\ \A u \in units : l.km[u.id] \in Nat
  /\ \A l, m \in lots : l.id = m.id => l = m

AreUnits(units) ==
  /\ \A u \in units : u.id \in Nat /\ u.capacity \in Nat
  /\ \A u, v \in units : u.id = v.id => u = v

(* ByTonnesDesc lists every lot once, each after those ahead of it.         *)
LEMMA SortedCopy ==
  ASSUME NEW units, NEW lots, AreLots(lots, units)
  PROVE  LET order == ByTonnesDesc(lots)
             N     == Cardinality(lots)
         IN  /\ N \in Nat /\ order \in [1..N -> lots]
             /\ \A l \in lots : \E k \in 1..N : order[k] = l
             /\ \A j, k \in 1..N : j < k => Ahead(order[j], order[k]) /\ order[j] # order[k]
             /\ \A j, k \in 1..N : Ahead(order[j], order[k]) => j < k
<1> DEFINE N == Cardinality(lots)
           before(l) == {m \in lots : Ahead(m, l)}
           rank == [l \in lots |-> Cardinality(before(l)) + 1]
           order == ByTonnesDesc(lots)
<1>1. N \in Nat /\ IsFiniteSet(lots)
  BY FS_CardinalityType DEF AreLots
<1>2. \A l, m \in lots : l = m \/ Ahead(l, m) \/ Ahead(m, l)
  BY DEF AreLots, Ahead
<1>3. \A l, m, n \in lots : ~ Ahead(l, l) /\ (Ahead(l, m) /\ Ahead(m, n) => Ahead(l, n))
  BY DEF AreLots, Ahead
<1>4. \A l \in lots : IsFiniteSet(before(l)) /\ Cardinality(before(l)) \in Nat
  BY <1>1, FS_Subset, FS_CardinalityType
<1>5. \A l, m \in lots : Ahead(l, m) => rank[l] < rank[m]
  <2> TAKE l, m \in lots
  <2> HAVE Ahead(l, m)
  <2>1. before(l) \in SUBSET before(m) /\ l \in before(m) /\ l \notin before(l)
    BY <1>3
  <2>2. Cardinality(before(l)) <= Cardinality(before(m)) /\ Cardinality(before(l)) # Cardinality(before(m))
    BY <1>4, <2>1, FS_Subset
  <2>3. Cardinality(before(l)) \in Nat /\ Cardinality(before(m)) \in Nat
    BY <1>4
  <2>4. rank[l] = Cardinality(before(l)) + 1 /\ rank[m] = Cardinality(before(m)) + 1
    OBVIOUS
  <2> HIDE DEF before, rank
  <2> QED BY <2>2, <2>3, <2>4
<1>6. \A l \in lots : rank[l] \in 1..N
  <2> TAKE l \in lots
  <2>1. before(l) \in SUBSET lots /\ l \notin before(l)
    BY <1>3
  <2>2. Cardinality(before(l)) <= N /\ Cardinality(before(l)) # N
    BY <1>1, <2>1, FS_Subset
  <2> HIDE DEF before
  <2> QED BY <1>1, <1>4, <2>2
<1>7. \A l, m \in lots : rank[l] = rank[m] => l = m
  <2> TAKE l, m \in lots
  <2>1. rank[l] \in Nat /\ rank[m] \in Nat
    BY <1>6
  <2> HIDE DEF rank
  <2> QED BY <1>2, <1>5, <2>1
<1>8. \A k \in 1..N : \E l \in lots : rank[l] = k
  <2>1. rank \in [lots -> 1..N]
    BY <1>6
  <2>2. rank \in Injection(lots, 1..N)
    BY <1>7, <2>1 DEF Injection, IsInjective
  <2>3. IsFiniteSet(1..N) /\ Cardinality(1..N) = N
    BY <1>1, FS_Interval
  <2> HIDE DEF rank
  <2>4. rank \in Surjection(lots, 1..N)
    BY <2>2, <2>3, FS_Injection
  <2> QED BY <2>4 DEF Surjection
<1>9. \A k \in 1..N : order[k] \in lots /\ rank[order[k]] = k
  <2> TAKE k \in 1..N
  <2>1. order[k] = CHOOSE l \in lots : Cardinality(before(l)) = k - 1
    BY DEF ByTonnesDesc
  <2>2. PICK l \in lots : rank[l] = k
    BY <1>8
  <2>3. Cardinality(before(l)) = k - 1
    <3>1. rank[l] = Cardinality(before(l)) + 1
      OBVIOUS
    <3>2. Cardinality(before(l)) \in Nat
      BY <1>4
    <3> HIDE DEF before, rank
    <3> QED BY <2>2, <3>1, <3>2
  <2>4. order[k] \in lots /\ Cardinality(before(order[k])) = k - 1
    BY <2>1, <2>3
  <2> QED BY <2>4
<1>10. DOMAIN order = 1..N /\ order = [k \in 1..N |-> order[k]]
  BY DEF ByTonnesDesc
<1>11. order \in [1..N -> lots]
  BY <1>9, <1>10
<1> HIDE DEF order, rank
<1>12. \A l \in lots : order[rank[l]] = l
  BY <1>6, <1>7, <1>9
<1>13. \A j, k \in 1..N : Ahead(order[j], order[k]) => j < k
  BY <1>5, <1>9
<1>14. \A j, k \in 1..N : j < k => Ahead(order[j], order[k]) /\ order[j] # order[k]
  <2> TAKE j, k \in 1..N
  <2> HAVE j < k
  <2>1. order[j] # order[k]
    BY <1>9
  <2>2. ~ Ahead(order[k], order[j])
    BY <1>13
  <2> QED BY <1>2, <1>9, <2>1, <2>2
<1> QED BY <1>1, <1>6, <1>11, <1>12, <1>13, <1>14 DEF order, N

-----------------------------------------------------------------------------
(* One turn of the loop.                                                    *)

Ids(units) == {u.id : u \in units}

Row(units) == [lotId : Nat, unitId : Ids(units), assignedTonnes : Nat]

RoundState(units) == [remaining : [Ids(units) -> Int], assignments : SUBSET Row(units)]

Given(lot, unit) == [lotId |-> lot.id, unitId |-> unit.id, assignedTonnes |-> lot.tonnes]

(* The nearest of some candidates is one of them.                           *)
LEMMA NearestIsOne ==
  ASSUME NEW units, AreUnits(units), NEW lot, lot.tonnes \in Nat,
         \A u \in units : lot.km[u.id] \in Nat,
         NEW some \in SUBSET units, some # {}
  PROVE  Nearest(lot, some) \in some
<1> DEFINE debits == {Debit(lot, u) : u \in some}
<1>1. \A u \in some : Debit(lot, u) \in Nat /\ u.id \in Nat
  <2> TAKE u \in some
  <2>1. lot.km[u.id] \in Nat /\ lot.tonnes \in Nat
    OBVIOUS
  <2>2. lot.tonnes * lot.km[u.id] \in Nat
    BY <2>1
  <2> QED BY <2>2 DEF Debit, AreUnits
<1>2. debits \subseteq Nat /\ debits # {}
  BY <1>1
<1>3. PICK d \in debits : \A e \in debits : d <= e
  BY <1>2, LeastNat
<1> DEFINE ids == {u.id : u \in {v \in some : Debit(lot, v) = d}}
<1>4. ids \subseteq Nat /\ ids # {}
  BY <1>1
<1>5. PICK i \in ids : \A j \in ids : i <= j
  BY <1>4, LeastNat
<1>6. PICK u \in some : u.id = i /\ Debit(lot, u) = d
  BY <1>5
<1>7. \A v \in some : Debit(lot, u) < Debit(lot, v) \/ (Debit(lot, u) = Debit(lot, v) /\ u.id <= v.id)
  <2> TAKE v \in some
  <2>1. d <= Debit(lot, v) /\ d \in Nat /\ Debit(lot, v) \in Nat
    BY <1>1, <1>2, <1>3
  <2>2. Debit(lot, v) = d => u.id <= v.id
    BY <1>5, <1>6
  <2> QED BY <1>6, <2>1, <2>2
<1> QED BY <1>7 DEF Nearest

(* A lot with candidates is given to one of them, any other is passed over. *)
LEMMA PlaceIs ==
  ASSUME NEW units, AreUnits(units), NEW lots, AreLots(lots, units), NEW lot \in lots,
         NEW r, NEW round \in RoundState(units)
  PROVE  LET some == WithRoom(lot, units, r, round.remaining)
             next == Place(round, lot, units, r)
         IN  /\ next \in RoundState(units)
             /\ some = {} => next = round
             /\ some # {} => \E u \in some :
                  /\ u = Nearest(lot, some)
                  /\ next.assignments = round.assignments \cup {Given(lot, u)}
                  /\ next.remaining[u.id] = round.remaining[u.id] - lot.tonnes
                  /\ \A i \in Ids(units) \ {u.id} : next.remaining[i] = round.remaining[i]
<1> DEFINE some == WithRoom(lot, units, r, round.remaining)
           u == Nearest(lot, some)
<1>1. CASE some = {}
  BY <1>1 DEF Place
<1>2. CASE some # {}
  <2>1. some \in SUBSET units
    BY DEF WithRoom
  <2>2. u \in some /\ u \in units
    BY <1>2, <2>1, NearestIsOne DEF AreLots
  <2> HIDE DEF u
  <2>3. Place(round, lot, units, r) =
          [remaining   |-> [round.remaining EXCEPT ![u.id] = @ - lot.tonnes],
           assignments |-> round.assignments \cup {Given(lot, u)}]
    BY <1>2 DEF Place, u, Given
  <2> HIDE DEF some
  <2>4. u.id \in Ids(units) /\ lot.tonnes \in Nat /\ lot.id \in Nat
    BY <2>2 DEF Ids, AreLots
  <2>5. round.remaining \in [Ids(units) -> Int] /\ round.assignments \in SUBSET Row(units)
    BY DEF RoundState
  <2>6. Given(lot, u) \in Row(units)
    BY <2>4 DEF Given, Row
  <2>7. Place(round, lot, units, r) \in RoundState(units)
    BY <2>3, <2>4, <2>5, <2>6 DEF RoundState
  <2>8. /\ Place(round, lot, units, r).assignments = round.assignments \cup {Given(lot, u)}
        /\ Place(round, lot, units, r).remaining = [round.remaining EXCEPT ![u.id] = @ - lot.tonnes]
    BY <2>3
  <2>9. /\ Place(round, lot, units, r).remaining[u.id] = round.remaining[u.id] - lot.tonnes
        /\ \A i \in Ids(units) \ {u.id} : Place(round, lot, units, r).remaining[i] = round.remaining[i]
    BY <2>4, <2>5, <2>8
  <2> QED BY <1>2, <2>2, <2>7, <2>8, <2>9 DEF u, some
<1> QED BY <1>1, <1>2

(* The room of a unit: what is not committed of its capacity, or none.      *)
LEMMA RoomIs ==
  ASSUME NEW u, u.capacity \in Nat, NEW committed, committed[u.id] \in Nat
  PROVE  /\ Room(u, committed) \in Nat
         /\ Room(u, committed) = IF committed[u.id] <= u.capacity
                                 THEN u.capacity - committed[u.id] ELSE 0
<1> DEFINE d == u.capacity - committed[u.id]
           room == IF committed[u.id] <= u.capacity THEN d ELSE 0
<1>1. d \in Int /\ room \in Nat /\ room \in {0, d} /\ room >= 0 /\ room >= d
  OBVIOUS
<1>2. \A x \in {0, d} : (\A y \in {0, d} : x >= y) => x = room
  BY <1>1
<1>3. \A y \in {0, d} : room >= y
  BY <1>1
<1>4. Max({0, d}) = room
  <2> HIDE DEF d, room
  <2> QED BY <1>1, <1>2, <1>3 DEF Max
<1> QED BY <1>1, <1>4 DEF Room

-----------------------------------------------------------------------------
(* The loop.                                                                *)

(* What the loop starts from, the loop over a given order, and the round    *)
(* each set of the order's indices makes.                                   *)
StartOf(units, committed) ==
  LET UnitWith(i) == CHOOSE u \in units : u.id = i
  IN  [remaining   |-> [i \in {u.id : u \in units} |-> Room(UnitWith(i), committed)],
       assignments |-> {}]

Fold(order, start, units, r) ==
  FoldLeft(LAMBDA round, lot : Place(round, lot, units, r), start, order)

Turns(order, start, units, r, f) ==
  f = [s \in SUBSET DOMAIN order |->
         IF s = {} THEN start
         ELSE LET i == Max(s) IN Place(f[s \ {i}], order[i], units, r)]

(* assign is the fold of its turns over the sorted copy.                    *)
LEMMA AssignIsFold ==
  ASSUME NEW lots, NEW units, NEW r, NEW committed
  PROVE  Assign(lots, units, r, committed) =
           Fold(ByTonnesDesc(lots), StartOf(units, committed), units, r).assignments
BY Zenon DEF Fold, Assign, StartOf

(* The fold gives each prefix of the order the round that its turns make.   *)
LEMMA FoldIsTurns ==
  ASSUME NEW order, NEW start, NEW units, NEW r, NEW f, Turns(order, start, units, r, f)
  PROVE  \E g : Turns(order, start, units, r, g) /\ Fold(order, start, units, r) = g[DOMAIN order]
BY Zenon DEF Fold, Turns, FoldLeft, MapThenFoldSet

(* Fresh units of a round.                                                  *)
LEMMA StartIs ==
  ASSUME NEW units, AreUnits(units), NEW committed, \A u \in units : committed[u.id] \in Nat
  PROVE  /\ StartOf(units, committed) \in RoundState(units)
         /\ StartOf(units, committed).assignments = {}
         /\ \A u \in units : StartOf(units, committed).remaining[u.id] = Room(u, committed)
<1> DEFINE UnitWith(i) == CHOOSE u \in units : u.id = i
<1>1. \A u \in units : UnitWith(u.id) = u
  BY DEF AreUnits
<1>2. \A u \in units : Room(u, committed) \in Nat
  BY RoomIs DEF AreUnits
<1> DEFINE left == [i \in Ids(units) |-> Room(UnitWith(i), committed)]
<1>3. StartOf(units, committed) = [remaining |-> left, assignments |-> {}]
  BY DEF StartOf, Ids
<1> HIDE DEF UnitWith
<1>4. \A u \in units : left[u.id] = Room(u, committed)
  BY <1>1 DEF Ids
<1>5. left \in [Ids(units) -> Int]
  <2>1. \A i \in Ids(units) : Room(UnitWith(i), committed) \in Int
    BY <1>1, <1>2 DEF Ids
  <2> QED BY <2>1
<1> HIDE DEF left
<1> QED BY <1>3, <1>4, <1>5 DEF RoundState

(* The last index of a prefix, and the prefix without it.                   *)
LEMMA MaxOfPrefix ==
  ASSUME NEW k \in Nat, k # 0
  PROVE  Max(1..k) = k /\ (1..k) \ {k} = 1..(k - 1)
<1>1. \A x \in 1..k : (\A y \in 1..k : x >= y) => x = k
  OBVIOUS
<1>2. k \in 1..k /\ \A y \in 1..k : k >= y
  OBVIOUS
<1>3. Max(1..k) = k
  BY <1>1, <1>2 DEF Max
<1> QED BY <1>3

(* A set of indices has a greatest one.                                     *)
LEMMA MaxIsIn ==
  ASSUME NEW n \in Nat, NEW s \in SUBSET (1..n), s # {}
  PROVE  Max(s) \in s
<1> DEFINE above == {n - x : x \in s}
<1>1. above \subseteq Nat /\ above # {}
  <2>1. \A x \in s : x \in 1..n /\ n - x \in Nat
    OBVIOUS
  <2> QED BY <2>1
<1>2. PICK d \in above : \A e \in above : d <= e
  BY <1>1, LeastNat
<1>3. PICK x \in s : d = n - x
  BY <1>2
<1>4. \A y \in s : x >= y
  <2> TAKE y \in s
  <2>1. n - x <= n - y
    BY <1>2, <1>3
  <2> QED BY <2>1
<1> QED BY <1>4 DEF Max

(* R[k] is the round after k lots.                                          *)
IsRun(R, lots, units, r, committed) ==
  LET N == Cardinality(lots)
  IN  /\ R[0] = StartOf(units, committed)
      /\ \A k \in 0..N : R[k] \in RoundState(units)
      /\ \A k \in 1..N : R[k] = Place(R[k - 1], ByTonnesDesc(lots)[k], units, r)
      /\ Assign(lots, units, r, committed) = R[N].assignments

(* Every call of assign is such a run.                                      *)
LEMMA AssignRuns ==
  ASSUME NEW units, AreUnits(units), NEW lots, AreLots(lots, units), NEW r,
         NEW committed, \A u \in units : committed[u.id] \in Nat
  PROVE  \E R : IsRun(R, lots, units, r, committed)
<1> DEFINE N == Cardinality(lots)
           order == ByTonnesDesc(lots)
           start == StartOf(units, committed)
           V == RoundState(units)
           pick == [s \in SUBSET (1..N) |-> Max(s)]
           step == [s \in SUBSET (1..N) |-> [v \in V |-> Place(v, order[pick[s]], units, r)]]
<1>1. N \in Nat /\ order \in [1..N -> lots]
  BY SortedCopy
<1>2. start \in V
  BY StartIs
<1>3. IsFiniteSet(1..N)
  BY <1>1, FS_Interval
<1>4. \A s \in SUBSET (1..N) : s # {} => pick[s] \in s /\ pick[s] = Max(s)
  BY <1>1, MaxIsIn
<1>5. \A s \in SUBSET (1..N), v \in V : s # {} =>
        step[s][v] \in V /\ step[s][v] = Place(v, order[Max(s)], units, r)
  <2> SUFFICES ASSUME NEW s \in SUBSET (1..N), NEW v \in V, s # {}
               PROVE  step[s][v] \in V /\ step[s][v] = Place(v, order[Max(s)], units, r)
    OBVIOUS
  <2>1. pick[s] = Max(s) /\ order[Max(s)] \in lots
    BY <1>1, <1>4
  <2>2. step[s][v] = Place(v, order[Max(s)], units, r)
    BY <2>1
  <2> QED BY <2>1, <2>2, PlaceIs
<1> HIDE DEF N, order, start, V, pick, step
<1>6. PICK f \in [SUBSET (1..N) -> V] : Follows(f, 1..N, start, pick, step)
  <2>1. \A s \in SUBSET (1..N) : s # {} => pick[s] \in s
    BY <1>4
  <2>2. \A s \in SUBSET (1..N), v \in V : s # {} => step[s][v] \in V
    BY <1>5
  <2> QED BY ONLY <1>2, <1>3, <2>1, <2>2, Recursion, Zenon
<1>7. Turns(order, start, units, r, f)
  <2>1. DOMAIN order = 1..N
    BY <1>1
  <2>2. \A s \in SUBSET (1..N) :
          f[s] = IF s = {} THEN start ELSE LET i == Max(s) IN Place(f[s \ {i}], order[i], units, r)
    <3> TAKE s \in SUBSET (1..N)
    <3>1. f[s] = IF s = {} THEN start ELSE step[s][f[s \ {pick[s]}]]
      BY <1>6 DEF Follows
    <3>2. f[s \ {pick[s]}] \in V
      OBVIOUS
    <3> QED BY <1>4, <1>5, <3>1, <3>2
  <2> QED BY <2>1, <2>2 DEF Turns
<1>8. PICK g : Turns(order, start, units, r, g) /\ Fold(order, start, units, r) = g[DOMAIN order]
  BY <1>7, FoldIsTurns
<1> DEFINE R == [k \in 0..N |-> g[1..k]]
<1>9. R[0] = start
  <2>1. 1..0 = {} /\ 0 \in 0..N
    BY <1>1
  <2> QED BY <1>8, <2>1 DEF Turns
<1>10. ASSUME NEW k \in 1..N PROVE R[k] = Place(R[k - 1], order[k], units, r)
  <2>1. k \in Nat /\ k # 0 /\ k \in 0..N /\ k - 1 \in 0..N
    BY <1>1
  <2>2. 1..k \in SUBSET DOMAIN order /\ 1..k # {}
    BY <1>1
  <2>3. g[1..k] = Place(g[(1..k) \ {Max(1..k)}], order[Max(1..k)], units, r)
    BY <1>8, <2>2 DEF Turns
  <2>4. g[1..k] = Place(g[1..(k - 1)], order[k], units, r)
    BY <2>1, <2>3, MaxOfPrefix
  <2> QED BY <2>1, <2>4
<1>11. R[N] = Fold(order, start, units, r)
  BY <1>1, <1>8
<1> HIDE DEF R
<1>12. \A k \in 0..N : R[k] \in V
  <2> DEFINE Bad == {k \in 0..N : R[k] \notin V}
  <2>1. ASSUME Bad # {} PROVE FALSE
    <3>1. Bad \subseteq Nat
      BY <1>1
    <3>2. PICK k \in Bad : \A j \in Bad : k <= j
      BY <2>1, <3>1, LeastNat
    <3>3. k \in 0..N /\ R[k] \notin V
      BY <3>2
    <3>4. k # 0
      BY <1>2, <1>9, <3>3
    <3>5. k \in 1..N /\ k - 1 \in 0..N /\ order[k] \in lots
      BY <1>1, <3>3, <3>4
    <3>6. R[k - 1] \in V
      BY <3>2, <3>5
    <3>7. Place(R[k - 1], order[k], units, r) \in V
      BY <3>5, <3>6, PlaceIs DEF V
    <3> QED BY <1>10, <3>3, <3>5, <3>7
  <2> QED BY <2>1
<1>13. Assign(lots, units, r, committed) = R[N].assignments
  BY <1>11, AssignIsFold DEF order, start
<1> QED BY <1>9, <1>10, <1>12, <1>13 DEF IsRun, N, order, start, V

-----------------------------------------------------------------------------
(* What the loop keeps true: after k lots,                                  *)
Served(R, lots, units, committed, k) ==
  LET order == ByTonnesDesc(lots)
      given == R[k].assignments
  IN  (* what was given went to these lots, once and whole,                 *)
      /\ \A a \in given : \E j \in 1..k : a.lotId = order[j].id /\ a.assignedTonnes = order[j].tonnes
      /\ \A a, b \in given : a.lotId = b.lotId => a = b
      /\ IsFiniteSet(given)
      (* and what is left of a unit's room is what was not given of it.     *)
      /\ \A u \in units : /\ R[k].remaining[u.id] >= 0
                          /\ R[k].remaining[u.id] + TonnesAt(u, given) = Room(u, committed)

(* What later lots do not undo.                                             *)
Kept(R, lots, units, j, k) ==
  /\ R[j].assignments \subseteq R[k].assignments
  /\ \A a \in R[k].assignments \ R[j].assignments :
       \E i \in (j + 1)..k : a.lotId = ByTonnesDesc(lots)[i].id
  /\ \A u \in units : R[k].remaining[u.id] <= R[j].remaining[u.id]

(* The tonnes at a unit are those of its rows.                              *)
LEMMA TonnesAtIs ==
  ASSUME NEW u, NEW A
  PROVE  TonnesAt(u, A) = Tonnes({a \in A : a.unitId = u.id})
BY DEF TonnesAt, Tonnes

(* The rows of a round can be weighed, and fewer of them weigh less.        *)
LEMMA RowsWeighed ==
  ASSUME NEW units, NEW A \in SUBSET Row(units), IsFiniteSet(A)
  PROVE  /\ Weighed(A)
         /\ \A B \in SUBSET A, u \in units : TonnesAt(u, B) \in Nat /\ TonnesAt(u, B) <= TonnesAt(u, A)
<1>1. Weighed(A)
  BY DEF Weighed, Row
<1>2. ASSUME NEW B \in SUBSET A, NEW u \in units
      PROVE  TonnesAt(u, B) \in Nat /\ TonnesAt(u, B) <= TonnesAt(u, A)
  <2> DEFINE P == {a \in B : a.unitId = u.id}
             Q == {a \in A : a.unitId = u.id}
  <2>1. P \in SUBSET Q /\ Q \in SUBSET A
    OBVIOUS
  <2>2. Weighed(Q)
    BY <1>1, <2>1, TonnesOfPart
  <2> QED BY <2>1, <2>2, TonnesOfPart, TonnesAtIs
<1> QED BY <1>1, <1>2

(* After any number of lots, those served got theirs, once and whole.       *)
LEMMA ServedAll ==
  ASSUME NEW units, AreUnits(units), NEW lots, AreLots(lots, units), NEW r,
         NEW committed, \A u \in units : committed[u.id] \in Nat,
         NEW R, IsRun(R, lots, units, r, committed)
  PROVE  \A k \in 0..Cardinality(lots) : Served(R, lots, units, committed, k)
<1> DEFINE N == Cardinality(lots)
           order == ByTonnesDesc(lots)
           Bad == {k \in 0..N : ~ Served(R, lots, units, committed, k)}
<1>1. /\ N \in Nat /\ order \in [1..N -> lots]
      /\ \A j, k \in 1..N : j < k => order[j] # order[k]
  BY SortedCopy
<1>2. ASSUME Bad # {} PROVE FALSE
  <2>1. Bad \subseteq Nat
    BY <1>1
  <2> DEFINE S(k) == Served(R, lots, units, committed, k)
  <2>2. PICK k \in 0..N : ~ S(k) /\ \A j \in 0..N : ~ S(j) => k <= j
    <3> HIDE DEF S
    <3> QED BY <1>2, <2>1, LeastNat DEF S
  <2>3. S(0)
    <3>1. R[0] = StartOf(units, committed)
      BY DEF IsRun
    <3>2. R[0].assignments = {} /\ \A u \in units : R[0].remaining[u.id] = Room(u, committed)
      BY <3>1, StartIs
    <3>3. \A u \in units : Room(u, committed) \in Nat
      BY RoomIs DEF AreUnits
    <3>4. \A u \in units : TonnesAt(u, {}) = 0
      <4>1. Weighed({}) /\ Tonnes({}) = 0
        BY FS_EmptySet, TonnesStep DEF Weighed
      <4>2. \A u \in units : {a \in {} : a.unitId = u.id} = {}
        OBVIOUS
      <4> QED BY <4>1, <4>2, TonnesAtIs
    <3> QED BY <3>2, <3>3, <3>4, FS_EmptySet DEF Served
  <2>4. k \in 1..N /\ k - 1 \in 0..N /\ S(k - 1)
    <3> HIDE DEF S
    <3> QED BY <1>1, <2>2, <2>3
  <2> DEFINE lot   == order[k]
             old   == R[k - 1].assignments
             some  == WithRoom(lot, units, r, R[k - 1].remaining)
  <2>5. lot \in lots /\ lot.id \in Nat /\ lot.tonnes \in Nat
    BY <1>1, <2>4 DEF AreLots
  <2>6. /\ R[k - 1] \in RoundState(units) /\ R[k] \in RoundState(units)
        /\ R[k] = Place(R[k - 1], lot, units, r)
    BY <2>4 DEF IsRun
  <2>7. /\ \A a \in old : \E j \in 1..(k - 1) : a.lotId = order[j].id /\ a.assignedTonnes = order[j].tonnes
        /\ \A a, b \in old : a.lotId = b.lotId => a = b
        /\ IsFiniteSet(old)
        /\ \A u \in units : /\ R[k - 1].remaining[u.id] >= 0
                            /\ R[k - 1].remaining[u.id] + TonnesAt(u, old) = Room(u, committed)
    BY <2>4 DEF Served
  <2>8. 1..(k - 1) \subseteq 1..k /\ k \in 1..k
    BY <2>4
  <2>9. some = {} => R[k] = R[k - 1]
    BY <2>5, <2>6, PlaceIs
  <2>10. some # {} => \E u \in some :
           /\ R[k].assignments = old \cup {Given(lot, u)}
           /\ R[k].remaining[u.id] = R[k - 1].remaining[u.id] - lot.tonnes
           /\ \A i \in Ids(units) \ {u.id} : R[k].remaining[i] = R[k - 1].remaining[i]
    <3> HIDE DEF lot
    <3> QED BY ONLY <2>5, <2>6, AreUnits(units), AreLots(lots, units), PlaceIs
  <2>11. CASE some = {}
    BY <2>2, <2>7, <2>8, <2>9, <2>11 DEF Served
  <2>12. CASE some # {}
    <3> HIDE DEF some
    <3>1. PICK u \in some :
           /\ R[k].assignments = old \cup {Given(lot, u)}
           /\ R[k].remaining[u.id] = R[k - 1].remaining[u.id] - lot.tonnes
           /\ \A i \in Ids(units) \ {u.id} : R[k].remaining[i] = R[k - 1].remaining[i]
      BY <2>10, <2>12
    <3>2. u \in units /\ R[k - 1].remaining[u.id] >= lot.tonnes
      BY DEF some, WithRoom
    <3> DEFINE a0 == Given(lot, u)
    <3>3. a0.lotId = lot.id /\ a0.unitId = u.id /\ a0.assignedTonnes = lot.tonnes
      BY DEF Given
    <3>4. \A a \in old : a.lotId # lot.id
      <4> TAKE a \in old
      <4>1. PICK j \in 1..(k - 1) : a.lotId = order[j].id
        BY <2>7
      <4>2. j \in 1..N /\ j < k /\ order[j] \in lots
        BY <1>1, <2>4
      <4>3. order[j] # lot
        BY <1>1, <2>4, <4>2
      <4> QED BY <2>5, <4>1, <4>2, <4>3 DEF AreLots
    <3>5. old \in SUBSET Row(units) /\ R[k].assignments \in SUBSET Row(units)
      BY <2>6 DEF RoundState
    <3> HIDE DEF a0, old
    <3>6. \A v \in units : TonnesAt(v, old) \in Nat
      BY <2>7, <3>5, RowsWeighed
    <3>7. ASSUME NEW v \in units, v # u
          PROVE  /\ R[k].remaining[v.id] >= 0
                 /\ R[k].remaining[v.id] + TonnesAt(v, R[k].assignments) = Room(v, committed)
      <4>1. v.id # u.id /\ v.id \in Ids(units)
        BY <3>2, <3>7 DEF AreUnits, Ids
      <4>2. {a \in R[k].assignments : a.unitId = v.id} = {a \in old : a.unitId = v.id}
        BY <3>1, <3>3, <4>1 DEF a0, old
      <4>3. TonnesAt(v, R[k].assignments) = TonnesAt(v, old)
        BY <4>2, TonnesAtIs
      <4> QED BY <2>7, <3>1, <4>1, <4>3
    <3>8. /\ R[k].remaining[u.id] >= 0
          /\ R[k].remaining[u.id] + TonnesAt(u, R[k].assignments) = Room(u, committed)
      <4> DEFINE here == {a \in old : a.unitId = u.id}
      <4>1. {a \in R[k].assignments : a.unitId = u.id} = here \cup {a0} /\ a0 \notin here
        BY <3>1, <3>3, <3>4 DEF a0, old
      <4>2. Weighed(here)
        <5>1. Weighed(old)
          BY <2>7, <3>5, RowsWeighed
        <5> QED BY <5>1, TonnesOfPart
      <4>3. Tonnes(here \cup {a0}) = Tonnes(here) + lot.tonnes
        BY <2>5, <3>3, <4>1, <4>2, TonnesMore
      <4>4. TonnesAt(u, R[k].assignments) = TonnesAt(u, old) + lot.tonnes
        BY <4>1, <4>3, TonnesAtIs
      <4>5. R[k - 1].remaining[u.id] \in Int
        BY <2>6, <3>2 DEF RoundState, Ids
      <4>6. TonnesAt(u, old) \in Nat
        BY <3>2, <3>6
      <4>7. R[k - 1].remaining[u.id] + TonnesAt(u, old) = Room(u, committed)
        BY <2>7, <3>2 DEF old
      <4> QED BY <2>5, <3>1, <3>2, <4>4, <4>5, <4>6, <4>7
    <3>9. \A a \in R[k].assignments :
            \E j \in 1..k : a.lotId = order[j].id /\ a.assignedTonnes = order[j].tonnes
      BY <2>7, <2>8, <3>1, <3>3 DEF a0, old
    <3>10. \A a, b \in R[k].assignments : a.lotId = b.lotId => a = b
      BY <2>7, <3>1, <3>3, <3>4 DEF a0, old
    <3>11. IsFiniteSet(R[k].assignments)
      BY <2>7, <3>1, FS_AddElement DEF old
    <3> QED BY <2>2, <3>7, <3>8, <3>9, <3>10, <3>11 DEF Served
  <2> QED BY <2>11, <2>12
<1> QED BY <1>2

(* What was given is never taken back, and room never grows.                *)
LEMMA KeptAll ==
  ASSUME NEW units, AreUnits(units), NEW lots, AreLots(lots, units), NEW r,
         NEW committed, \A u \in units : committed[u.id] \in Nat,
         NEW R, IsRun(R, lots, units, r, committed), NEW j \in 0..Cardinality(lots)
  PROVE  \A k \in j..Cardinality(lots) : Kept(R, lots, units, j, k)
<1> DEFINE N == Cardinality(lots)
           order == ByTonnesDesc(lots)
           K(k) == Kept(R, lots, units, j, k)
           Bad == {k \in j..N : ~ K(k)}
<1>1. N \in Nat /\ order \in [1..N -> lots] /\ j \in Nat
  BY SortedCopy
<1>2. \A k \in 0..N : R[k] \in RoundState(units)
  BY DEF IsRun
<1>3. ASSUME Bad # {} PROVE FALSE
  <2>1. Bad \subseteq Nat
    BY <1>1
  <2>2. PICK k \in j..N : ~ K(k) /\ \A i \in j..N : ~ K(i) => k <= i
    <3> HIDE DEF K
    <3> QED BY <1>3, <2>1, LeastNat
  <2>3. K(j)
    <3>1. \A u \in units : R[j].remaining[u.id] \in Int
      BY <1>2 DEF RoundState, Ids
    <3> QED BY <3>1 DEF Kept
  <2>4. k \in 1..N /\ k - 1 \in j..N /\ k - 1 \in 0..N /\ k \in 0..N /\ K(k - 1)
    <3> HIDE DEF K
    <3> QED BY <1>1, <2>2, <2>3
  <2> DEFINE lot  == order[k]
             some == WithRoom(lot, units, r, R[k - 1].remaining)
  <2>5. lot \in lots /\ lot.tonnes \in Nat /\ R[k] = Place(R[k - 1], lot, units, r)
    BY <1>1, <2>4 DEF IsRun, AreLots
  <2>6. /\ R[j].assignments \subseteq R[k - 1].assignments
        /\ \A a \in R[k - 1].assignments \ R[j].assignments :
             \E i \in (j + 1)..(k - 1) : a.lotId = order[i].id
        /\ \A u \in units : R[k - 1].remaining[u.id] <= R[j].remaining[u.id]
    BY <2>4 DEF Kept
  <2>7. (j + 1)..(k - 1) \subseteq (j + 1)..k /\ k \in (j + 1)..k
    BY <1>1, <2>4
  <2>8. CASE some = {}
    <3>1. R[k] = R[k - 1]
      BY <1>2, <2>4, <2>5, <2>8, PlaceIs
    <3> QED BY <2>2, <2>6, <2>7, <3>1 DEF Kept
  <2>9. CASE some # {}
    <3>1. PICK u \in some :
           /\ R[k].assignments = R[k - 1].assignments \cup {Given(lot, u)}
           /\ R[k].remaining[u.id] = R[k - 1].remaining[u.id] - lot.tonnes
           /\ \A i \in Ids(units) \ {u.id} : R[k].remaining[i] = R[k - 1].remaining[i]
      <4>1. R[k - 1] \in RoundState(units)
        BY <1>2, <2>4
      <4> HIDE DEF lot
      <4> QED BY ONLY <2>5, <2>9, <4>1, AreUnits(units), AreLots(lots, units), PlaceIs
    <3>2. Given(lot, u).lotId = lot.id
      BY DEF Given
    <3>3. \A a \in R[k].assignments \ R[j].assignments : \E i \in (j + 1)..k : a.lotId = order[i].id
      BY <2>6, <2>7, <3>1, <3>2
    <3>4. ASSUME NEW v \in units PROVE R[k].remaining[v.id] <= R[j].remaining[v.id]
      <4>1. v.id \in Ids(units)
        BY DEF Ids
      <4>2. /\ R[k - 1].remaining[v.id] \in Int /\ R[j].remaining[v.id] \in Int
            /\ R[k].remaining[v.id] \in Int
        BY <1>2, <2>4, <4>1 DEF RoundState
      <4>3. R[k].remaining[v.id] <= R[k - 1].remaining[v.id]
        BY <2>5, <3>1, <4>1, <4>2
      <4> QED BY <2>6, <4>2, <4>3
    <3> QED BY <2>2, <2>6, <3>1, <3>3, <3>4 DEF Kept
  <2> QED BY <2>8, <2>9
<1> QED BY <1>3

-----------------------------------------------------------------------------
(* What a round hands out: whole lots that were on offer, each once, and no *)
(* more to a unit than it has room for.                                     *)
LEMMA AssignGives ==
  ASSUME NEW units, AreUnits(units), NEW lots, AreLots(lots, units), NEW r,
         NEW committed, \A u \in units : committed[u.id] \in Nat
  PROVE  LET A == Assign(lots, units, r, committed)
         IN  /\ A \in SUBSET Row(units) /\ IsFiniteSet(A)
             /\ \A a \in A : \E l \in lots : a.lotId = l.id /\ a.assignedTonnes = l.tonnes
             /\ \A a, b \in A : a.lotId = b.lotId => a = b
             /\ \A u \in units : TonnesAt(u, A) <= Room(u, committed)
<1> DEFINE N == Cardinality(lots)
           order == ByTonnesDesc(lots)
           A == Assign(lots, units, r, committed)
<1>1. PICK R : IsRun(R, lots, units, r, committed)
  BY AssignRuns
<1>2. N \in Nat /\ order \in [1..N -> lots]
  BY SortedCopy
<1>3. A = R[N].assignments /\ R[N] \in RoundState(units)
  BY <1>1, <1>2 DEF IsRun
<1>4. Served(R, lots, units, committed, N)
  BY <1>1, <1>2, ServedAll
<1>5. A \in SUBSET Row(units)
  BY <1>3 DEF RoundState
<1>6. IsFiniteSet(A) /\ (\A a, b \in A : a.lotId = b.lotId => a = b)
  BY <1>3, <1>4 DEF Served
<1>7. \A a \in A : \E l \in lots : a.lotId = l.id /\ a.assignedTonnes = l.tonnes
  BY <1>2, <1>3, <1>4 DEF Served
<1>8. ASSUME NEW u \in units PROVE TonnesAt(u, A) <= Room(u, committed)
  <2>1. R[N].remaining[u.id] >= 0 /\ R[N].remaining[u.id] + TonnesAt(u, A) = Room(u, committed)
    BY <1>3, <1>4 DEF Served
  <2>2. R[N].remaining[u.id] \in Int
    BY <1>3 DEF RoundState, Ids
  <2>3. TonnesAt(u, A) \in Nat
    BY <1>5, <1>6, RowsWeighed
  <2> QED BY <2>1, <2>2, <2>3
<1> QED BY <1>5, <1>6, <1>7, <1>8

(* What a set of lots took from the units is what the loop left behind      *)
(* when its rows were all those of these lots.                              *)
LEMMA LeftIs ==
  ASSUME NEW units, AreUnits(units), NEW committed,
         \A u \in units : committed[u.id] \in Nat,
         NEW round \in RoundState(units), IsFiniteSet(round.assignments),
         \A u \in units : round.remaining[u.id] + TonnesAt(u, round.assignments) = Room(u, committed),
         NEW ahead, NEW A, {a \in A : \E l \in ahead : l.id = a.lotId} = round.assignments
  PROVE  \A u \in units : LeftBy(ahead, units, committed, A)[u.id] = round.remaining[u.id]
<1> TAKE u \in units
<1> DEFINE given == round.assignments
<1>1. u.id \in {v.id : v \in units} /\ (CHOOSE v \in units : v.id = u.id) = u
  BY DEF AreUnits
<1>2. LeftBy(ahead, units, committed, A)[u.id] = Room(u, committed) - TonnesAt(u, given)
  BY <1>1 DEF LeftBy
<1>3. round.remaining[u.id] + TonnesAt(u, given) = Room(u, committed)
  OBVIOUS
<1>4. round.remaining[u.id] \in Int
  BY DEF RoundState, Ids
<1>5. TonnesAt(u, given) \in Nat
  <2>1. given \in SUBSET Row(units) /\ IsFiniteSet(given)
    BY DEF RoundState
  <2> QED BY <2>1, RowsWeighed
<1> QED BY <1>2, <1>3, <1>4, <1>5

(* What a round gave when it came to a lot is what it gave to the lots      *)
(* ahead of it; what it gave then and there, it gave to that lot.           *)
InTurn(R, lots, A, k) ==
  LET lot == ByTonnesDesc(lots)[k]
      old == R[k - 1].assignments
  IN  /\ {a \in A : \E l \in {m \in lots : Ahead(m, lot)} : l.id = a.lotId} = old
      /\ \A a \in old : a.lotId # lot.id
      /\ {a \in A : a.lotId = lot.id} = R[k].assignments \ old

(* The loop serves each lot in its turn.                                    *)
LEMMA RowsAre ==
  ASSUME NEW units, AreUnits(units), NEW lots, AreLots(lots, units), NEW r,
         NEW committed, \A u \in units : committed[u.id] \in Nat,
         NEW R, IsRun(R, lots, units, r, committed), NEW k \in 1..Cardinality(lots)
  PROVE  InTurn(R, lots, Assign(lots, units, r, committed), k)
<1> DEFINE N == Cardinality(lots)
           order == ByTonnesDesc(lots)
           A == Assign(lots, units, r, committed)
           lot == order[k]
           old == R[k - 1].assignments
           new == R[k].assignments
<1>1. /\ N \in Nat /\ order \in [1..N -> lots]
      /\ \A l \in lots : \E j \in 1..N : order[j] = l
      /\ \A i, j \in 1..N : i < j => Ahead(order[i], order[j]) /\ order[i] # order[j]
      /\ \A i, j \in 1..N : Ahead(order[i], order[j]) => i < j
  BY SortedCopy
<1>2. k \in 1..N /\ k \in 0..N /\ k - 1 \in 0..N /\ N \in (k - 1)..N /\ N \in k..N /\ k \in (k - 1)..N
  BY <1>1
<1>3. \A i, j \in 1..N : order[i].id = order[j].id => i = j
  <2> TAKE i, j \in 1..N
  <2>1. order[i] \in lots /\ order[j] \in lots
    BY <1>1
  <2>2. i < j \/ j < i \/ i = j
    BY <1>1
  <2> QED BY <1>1, <2>1, <2>2 DEF AreLots
<1>4. A = R[N].assignments
  BY DEF IsRun
<1>5. Kept(R, lots, units, k - 1, N) /\ Kept(R, lots, units, k, N) /\ Kept(R, lots, units, k - 1, k)
  <2>1. \A j \in 0..N : \A i \in j..N : Kept(R, lots, units, j, i)
    BY KeptAll
  <2> HIDE DEF N
  <2> QED BY <1>2, <2>1
<1>6. /\ old \subseteq A /\ new \subseteq A
      /\ \A a \in A \ old : \E i \in k..N : a.lotId = order[i].id
      /\ \A a \in A \ new : \E i \in (k + 1)..N : a.lotId = order[i].id
      /\ \A a \in new \ old : \E i \in k..k : a.lotId = order[i].id
  <2>1. (k - 1) + 1 = k
    BY <1>2
  <2> QED BY <1>4, <1>5, <2>1 DEF Kept
<1>7. \A a \in old : \E j \in 1..(k - 1) : a.lotId = order[j].id
  <2>1. Served(R, lots, units, committed, k - 1)
    BY <1>2, ServedAll
  <2> QED BY <2>1 DEF Served
<1> HIDE DEF N, order, A, old, new
<1>8. \A a \in old : a.lotId # lot.id
  <2> TAKE a \in old
  <2>1. PICK j \in 1..(k - 1) : a.lotId = order[j].id
    BY <1>7
  <2>2. j \in 1..N /\ j # k
    BY <1>1, <1>2
  <2> QED BY <1>2, <1>3, <2>1, <2>2
<1>9. {a \in A : a.lotId = lot.id} = new \ old
  <2>1. \A a \in new \ old : a.lotId = lot.id
    <3>1. \A i \in k..k : i = k
      BY <1>1, <1>2
    <3> QED BY <1>6, <3>1
  <2>2. ASSUME NEW a \in A, a.lotId = lot.id, a \notin new PROVE FALSE
    <3>1. PICK i \in (k + 1)..N : a.lotId = order[i].id
      BY <1>6, <2>2
    <3>2. i \in 1..N /\ i # k
      BY <1>1, <1>2
    <3> QED BY <1>2, <1>3, <2>2, <3>1, <3>2
  <2> QED BY <1>6, <1>8, <2>1, <2>2
<1>10. ASSUME NEW a \in old PROVE \E l \in {m \in lots : Ahead(m, lot)} : l.id = a.lotId
  <2>1. PICK j \in 1..(k - 1) : a.lotId = order[j].id
    BY <1>7
  <2>2. j \in 1..N /\ j < k
    BY <1>1, <1>2
  <2>3. order[j] \in lots /\ Ahead(order[j], order[k])
    BY <1>1, <1>2, <2>2
  <2> QED BY <2>1, <2>3
<1>11. ASSUME NEW a \in A, NEW l \in lots, Ahead(l, lot), l.id = a.lotId PROVE a \in old
  <2>1. PICK j \in 1..N : order[j] = l
    BY <1>1
  <2>2. j < k
    BY <1>1, <1>2, <1>11, <2>1
  <2>3. ASSUME a \notin old PROVE FALSE
    <3>1. PICK i \in k..N : a.lotId = order[i].id
      BY <1>6, <2>3
    <3>2. i \in 1..N /\ i # j
      BY <1>1, <1>2, <2>2
    <3> QED BY <1>3, <1>11, <2>1, <3>1, <3>2
  <2> QED BY <2>3
<1>12. {a \in A : \E l \in {m \in lots : Ahead(m, lot)} : l.id = a.lotId} = old
  BY <1>6, <1>10, <1>11
<1> QED BY <1>8, <1>9, <1>12 DEF InTurn, A, old, new, order

(* Two accounts of the room at the units admit the same candidates.         *)
LEMMA SameRoom ==
  ASSUME NEW units, NEW lot, NEW r, NEW left, NEW right,
         \A u \in units : left[u.id] = right[u.id]
  PROVE  WithRoom(lot, units, r, left) = WithRoom(lot, units, r, right)
BY DEF WithRoom

(* For any lots, units, radius and commitments, assign follows its five     *)
(* rules: big lots first, each whole and at the nearest unit in range that  *)
(* accepts it and has room, or nowhere if there is none; and it turns no    *)
(* lot away that there is room for at the end (matching.ts, assign).        *)
LEMMA AssignIsGreedy ==
  ASSUME NEW units, AreUnits(units), NEW lots, AreLots(lots, units), NEW r,
         NEW committed, \A u \in units : committed[u.id] \in Nat
  PROVE  LET round == Assign(lots, units, r, committed)
         IN  /\ FollowsTheRule(lots, units, r, committed, round)
             /\ NothingLeftOver(lots, units, r, committed, round)
<1> DEFINE N == Cardinality(lots)
           order == ByTonnesDesc(lots)
           A == Assign(lots, units, r, committed)
<1>1. PICK R : IsRun(R, lots, units, r, committed)
  BY AssignRuns
<1>2. N \in Nat /\ order \in [1..N -> lots] /\ \A l \in lots : \E k \in 1..N : order[k] = l
  BY SortedCopy
<1>3. \A k \in 0..N : R[k] \in RoundState(units) /\ Served(R, lots, units, committed, k)
  BY <1>1, ServedAll DEF IsRun
<1>4. A = R[N].assignments
  BY <1>1 DEF IsRun
<1>5. FollowsTheRule(lots, units, r, committed, A)
  <2> SUFFICES ASSUME NEW lot \in lots
      PROVE  LET ahead == {l \in lots : Ahead(l, lot)}
                 some  == WithRoom(lot, units, r, LeftBy(ahead, units, committed, A))
             IN  {a \in A : a.lotId = lot.id} =
                   IF some = {} THEN {} ELSE {Given(lot, Nearest(lot, some))}
    BY DEF FollowsTheRule, Given
  <2> DEFINE ahead == {l \in lots : Ahead(l, lot)}
             some  == WithRoom(lot, units, r, LeftBy(ahead, units, committed, A))
  <2>1. PICK k \in 1..N : order[k] = lot
    BY <1>2
  <2>2. k - 1 \in 0..N /\ k \in 1..N
    BY <1>2
  <2> DEFINE old == R[k - 1].assignments
  <2>3. /\ {a \in A : \E l \in ahead : l.id = a.lotId} = old
        /\ \A a \in old : a.lotId # lot.id
        /\ {a \in A : a.lotId = lot.id} = R[k].assignments \ old
    <3>1. InTurn(R, lots, A, k)
      BY <1>1, RowsAre
    <3> QED BY <2>1, <3>1 DEF InTurn
  <2>4. /\ R[k - 1] \in RoundState(units) /\ IsFiniteSet(old)
        /\ \A u \in units : R[k - 1].remaining[u.id] + TonnesAt(u, old) = Room(u, committed)
    BY <1>3, <2>2 DEF Served
  <2>5. R[k] = Place(R[k - 1], lot, units, r)
    BY <1>1, <2>1 DEF IsRun
  <2>6. some = WithRoom(lot, units, r, R[k - 1].remaining)
    <3>1. \A u \in units : LeftBy(ahead, units, committed, A)[u.id] = R[k - 1].remaining[u.id]
      <4> HIDE DEF A, ahead
      <4> QED BY <2>3, <2>4, LeftIs
    <3> HIDE DEF A, ahead
    <3> QED BY <3>1, SameRoom
  <2> HIDE DEF A, ahead, some
  <2>7. CASE some = {}
    <3>1. R[k] = R[k - 1]
      BY <2>4, <2>5, <2>6, <2>7, PlaceIs
    <3> QED BY <2>3, <2>7, <3>1 DEF some, ahead
  <2>8. CASE some # {}
    <3>1. R[k].assignments = old \cup {Given(lot, Nearest(lot, some))}
      BY <2>4, <2>5, <2>6, <2>8, PlaceIs
    <3>2. Given(lot, Nearest(lot, some)) \notin old
      <4>1. Given(lot, Nearest(lot, some)).lotId = lot.id
        BY DEF Given
      <4> QED BY <2>3, <4>1
    <3> QED BY <2>3, <2>8, <3>1, <3>2 DEF some, ahead
  <2> QED BY <2>7, <2>8 DEF some, ahead
<1>6. NothingLeftOver(lots, units, r, committed, A)
  <2> DEFINE left == LeftBy(lots, units, committed, A)
  <2>1. /\ N \in 0..N /\ R[N] \in RoundState(units) /\ IsFiniteSet(A)
        /\ \A u \in units : /\ R[N].remaining[u.id] >= 0
                            /\ R[N].remaining[u.id] + TonnesAt(u, A) = Room(u, committed)
    <3>1. N \in 0..N
      BY <1>2
    <3> QED BY <1>3, <1>4, <3>1 DEF Served
  <2>2. {a \in A : \E l \in lots : l.id = a.lotId} = A
    BY AssignGives
  <2>3. \A u \in units : left[u.id] = R[N].remaining[u.id]
    <3> HIDE DEF A, N
    <3> QED BY <1>4, <2>1, <2>2, LeftIs
  <2>4. \A i \in DOMAIN left : left[i] >= 0
    <3>1. DOMAIN left = {u.id : u \in units}
      BY DEF LeftBy
    <3>2. \A u \in units : R[N].remaining[u.id] >= 0
      BY <2>1
    <3> HIDE DEF left
    <3> QED BY <2>3, <3>1, <3>2
  <2>5. ASSUME NEW lot \in lots, \A a \in A : a.lotId # lot.id
        PROVE  WithRoom(lot, units, r, left) = {}
    <3>1. PICK k \in 1..N : order[k] = lot
      BY <1>2
    <3>2. k - 1 \in 0..N /\ N \in (k - 1)..N
      BY <1>2
    <3> DEFINE some == WithRoom(lot, units, r, R[k - 1].remaining)
    <3>3. R[k - 1] \in RoundState(units) /\ R[k] = Place(R[k - 1], lot, units, r)
      BY <1>1, <1>3, <3>1, <3>2 DEF IsRun
    <3>4. InTurn(R, lots, A, k)
      BY <1>1, RowsAre
    <3>5. /\ R[k].assignments \ R[k - 1].assignments = {}
          /\ \A a \in R[k - 1].assignments : a.lotId # lot.id
      <4>1. {a \in A : a.lotId = lot.id} = R[k].assignments \ R[k - 1].assignments
        BY <3>1, <3>4 DEF InTurn
      <4> QED BY <2>5, <3>1, <3>4, <4>1 DEF InTurn
    <3>6. some = {}
      <4> SUFFICES ASSUME some # {} PROVE FALSE
        OBVIOUS
      <4>1. R[k].assignments = R[k - 1].assignments \cup {Given(lot, Nearest(lot, some))}
        <5> HIDE DEF some
        <5>1. some # {} => \E u \in some :
                /\ u = Nearest(lot, some)
                /\ R[k].assignments = R[k - 1].assignments \cup {Given(lot, u)}
          BY <3>3, PlaceIs DEF some
        <5> QED BY <5>1
      <4>2. Given(lot, Nearest(lot, some)).lotId = lot.id
        BY DEF Given
      <4> QED BY <3>5, <4>1, <4>2
    <3>7. \A u \in units : left[u.id] <= R[k - 1].remaining[u.id] /\ left[u.id] \in Int
                           /\ R[k - 1].remaining[u.id] \in Int
      <4>1. Kept(R, lots, units, k - 1, N)
        BY <1>1, <3>2, KeptAll
      <4> HIDE DEF left
      <4> QED BY <2>1, <2>3, <3>3, <4>1 DEF Kept, RoundState, Ids
    <3>8. ASSUME NEW u \in WithRoom(lot, units, r, left) PROVE FALSE
      <4> HIDE DEF left
      <4>1. /\ u \in units /\ left[u.id] >= lot.tonnes /\ lot.tonnes \in Nat
            /\ lot.feedstock \in u.accepts /\ lot.km[u.id] <= r
        BY DEF WithRoom, AreLots
      <4>2. R[k - 1].remaining[u.id] >= lot.tonnes
        BY <3>7, <4>1
      <4>3. u \in some
        BY <4>1, <4>2 DEF WithRoom
      <4> QED BY <3>6, <4>3
    <3> QED BY <3>8
  <2> HIDE DEF A, left
  <2> QED BY <2>4, <2>5 DEF NothingLeftOver, left
<1> QED BY <1>5, <1>6

IsRound(c) ==
  AreUnits(c.units) /\ AreLots(c.lots, c.units) /\ \A u \in c.units : c.committed[u.id] \in Nat

(* So AssignFollowsTheRule holds of every round, of any lots and units      *)
(* (assign).                                                                *)
THEOREM AssignAlwaysGreedy == (case.of = "round" => IsRound(case)) => AssignFollowsTheRule
BY AssignIsGreedy DEF AssignFollowsTheRule, IsRound

-----------------------------------------------------------------------------
(* Any number of rounds at once.                                           *)

Steps == InTransaction \cup Ends \cup {"new", "lock", "appendDecision"}

Typed ==
  /\ pc \in [Rounds -> Steps]
  /\ DOMAIN decided = Rounds /\ DOMAIN offer = Rounds /\ DOMAIN decidedAt = Rounds
  /\ ledger \in Seq(Rounds)

(* A round in its transaction holds the lock, alone.                        *)
LockInv == \A c \in Rounds : pc[c] \in InTransaction => lockHolder = {c}

(* What round c has decided is its own, still what it would decide when it  *)
(* commits, in the table once it has, and not before.                       *)
RowInv ==
  \A c \in Rounds :
    /\ \A m \in decided[c] : m.round = c
    /\ pc[c] = "commit" => decided[c] = Decide(c, offer[c])
    /\ pc[c] \in {"appendDecision", "done"} => decided[c] = {m \in matches : m.round = c}
    /\ pc[c] \in InTransaction \cup {"new", "lock"} => \A m \in matches : m.round # c

IInv == Typed /\ LockInv /\ RowInv /\ DecisionsAreTrue

-----------------------------------------------------------------------------
(* Nothing has run yet.                                                     *)
LEMMA InitIInv == Init => IInv
BY DEF Init, IInv, Typed, LockInv, RowInv, DecisionsAreTrue, Steps, InTransaction, Ends

(* What a round decides carries its name, and is read off the rows, its     *)
(* day and what it was called with.                                         *)
LEMMA DecideNames ==
  ASSUME NEW c, NEW lots, NEW m \in Decide(c, lots)
  PROVE  m.round = c
BY DEF Decide

(* A step of round c to another step: nobody else moves, and no row of      *)
(* another round comes or goes.                                             *)
LEMMA StepKeeps ==
  ASSUME IInv, NEW c \in Rounds, NEW step \in Steps \ {"done"},
         pc' = [pc EXCEPT ![c] = step], pc[c] # "done",
         UNCHANGED <<ledger, input>>,
         DOMAIN decided' = Rounds, DOMAIN offer' = Rounds, DOMAIN decidedAt' = Rounds,
         \A d \in Rounds \ {c} : /\ decided'[d] = decided[d] /\ offer'[d] = offer[d]
                                 /\ decidedAt'[d] = decidedAt[d],
         \A d \in Rounds \ {c} : pc[d] \in InTransaction => lockHolder' = {d} /\ matches' = matches,
         step \in InTransaction => lockHolder' = {c} /\ \A d \in Rounds \ {c} : pc[d] \notin InTransaction,
         \A m \in matches : m \in matches',
         \A m \in matches' : m \in matches \/ m.round = c,
         RowInv!(c)'
  PROVE  IInv'
<1>1. Typed'
  BY DEF IInv, Typed
<1>2. pc'[c] = step /\ \A d \in Rounds \ {c} : pc'[d] = pc[d]
  BY DEF IInv, Typed
<1>3. LockInv'
  BY <1>2 DEF IInv, LockInv
<1>4. RowInv'
  <2> SUFFICES ASSUME NEW d \in Rounds, d # c PROVE RowInv!(d)'
    BY DEF RowInv
  <2>1. RowInv!(d)
    BY DEF IInv, RowInv
  <2>2. pc'[d] = pc[d] /\ decided'[d] = decided[d] /\ offer'[d] = offer[d] /\ decidedAt'[d] = decidedAt[d]
    BY <1>2
  <2>3. ASSUME pc[d] = "commit" PROVE (decided[d] = Decide(d, offer[d]))'
    <3>1. matches' = matches /\ input' = input
      BY <2>3 DEF InTransaction
    <3> QED BY <2>1, <2>2, <2>3, <3>1 DEF Decide
  <2>4. {m \in matches' : m.round = d} = {m \in matches : m.round = d}
    OBVIOUS
  <2>5. (\A m \in matches : m.round # d) => \A m \in matches' : m.round # d
    OBVIOUS
  <2> QED BY <2>1, <2>2, <2>3, <2>4, <2>5
<1>5. DecisionsAreTrue'
  <2> SUFFICES ASSUME NEW i \in DOMAIN ledger PROVE DecisionsAreTrue!(i)'
    BY DEF DecisionsAreTrue
  <2>1. DecisionsAreTrue!(i) /\ ledger[i] \in Rounds
    BY DEF IInv, DecisionsAreTrue, Typed
  <2>2. ledger[i] # c
    BY <2>1
  <2>3. pc'[ledger[i]] = "done" /\ decided'[ledger[i]] = decided[ledger[i]]
    BY <1>2, <2>1, <2>2
  <2>4. {m \in matches' : m.round = ledger[i]} = {m \in matches : m.round = ledger[i]}
    BY <2>2
  <2> QED BY <2>1, <2>3, <2>4
<1> QED BY <1>1, <1>3, <1>4, <1>5 DEF IInv

(* The producer, the clock and a stutter touch nothing a round relies on.   *)
LEMMA OthersKeep ==
  ASSUME IInv, (\E l \in Lots : ListLot(l)) \/ Midnight \/ UNCHANGED vars
  PROVE  IInv'
<1>1. UNCHANGED <<pc, matches, ledger, lockHolder, input, decidedAt, offer, decided>>
  BY DEF ListLot, Midnight, call, db, vars
<1> QED BY <1>1 DEF IInv, Typed, LockInv, RowInv, DecisionsAreTrue, Decide

(* Every step of a round but the last.                                      *)
LEMMA RoundKeeps ==
  ASSUME IInv, NEW c \in Rounds,
         Start(c) \/ AcquireLock(c) \/ SelectLots(c) \/ SelectCommitted(c) \/ Commit(c) \/ Fail(c)
  PROVE  IInv'
<1> USE DEF InTransaction, Steps, Ends
<1>1. /\ RowInv!(c) /\ (pc[c] \in InTransaction => lockHolder = {c})
      /\ \A d \in Rounds : pc[d] \in InTransaction => lockHolder = {d}
      /\ DOMAIN decided = Rounds /\ DOMAIN offer = Rounds /\ DOMAIN decidedAt = Rounds
      /\ pc \in [Rounds -> Steps]
  BY DEF IInv, RowInv, LockInv, Typed
<1>2. \A d \in Rounds \ {c} : pc[d] \in InTransaction => lockHolder = {d} /\ pc[c] \notin InTransaction
  BY <1>1
<1>3. CASE Start(c)
  <2>1. /\ pc[c] = "new" /\ pc' = [pc EXCEPT ![c] = "lock"]
        /\ decidedAt' = [decidedAt EXCEPT ![c] = today]
        /\ UNCHANGED <<listed, matched, matches, ledger, lockHolder, input, offer, decided>>
    BY <1>3 DEF Start, Goto, db
  <2>2. pc'[c] = "lock"
    BY <1>1, <2>1
  <2>3. RowInv!(c)'
    BY <1>1, <2>1, <2>2
  <2> QED BY <1>1, <2>1, <2>3, StepKeeps
<1>4. CASE AcquireLock(c)
  <2>1. /\ pc[c] = "lock" /\ pc' = [pc EXCEPT ![c] = "selectLots"]
        /\ lockHolder = {} /\ lockHolder' = {c}
        /\ UNCHANGED <<matches, ledger, input, decidedAt, offer, decided>>
    BY <1>4 DEF AcquireLock, Goto
  <2>2. pc'[c] = "selectLots"
    BY <1>1, <2>1
  <2>3. RowInv!(c)'
    BY <1>1, <2>1, <2>2
  <2>4. \A d \in Rounds \ {c} : pc[d] \notin InTransaction
    BY <1>2, <2>1
  <2> QED BY <1>1, <2>1, <2>3, <2>4, StepKeeps
<1>5. CASE SelectLots(c)
  <2>1. /\ pc[c] = "selectLots" /\ pc' = [pc EXCEPT ![c] = "selectCommitted"]
        /\ DOMAIN offer' = Rounds /\ \A d \in Rounds \ {c} : offer'[d] = offer[d]
        /\ UNCHANGED <<matches, ledger, lockHolder, input, decidedAt, decided>>
    BY <1>1, <1>5 DEF SelectLots, Goto, db
  <2>2. pc'[c] = "selectCommitted"
    BY <1>1, <2>1
  <2>3. RowInv!(c)'
    BY <1>1, <2>1, <2>2
  <2> QED BY <1>1, <1>2, <2>1, <2>3, StepKeeps
<1>6. CASE SelectCommitted(c)
  <2>1. /\ pc[c] = "selectCommitted" /\ pc' = [pc EXCEPT ![c] = "commit"]
        /\ DOMAIN decided' = Rounds /\ \A d \in Rounds \ {c} : decided'[d] = decided[d]
        /\ decided'[c] = Decide(c, offer[c])
        /\ UNCHANGED <<matches, ledger, lockHolder, input, decidedAt, offer>>
    BY <1>1, <1>6 DEF SelectCommitted, Goto, db
  <2>2. pc'[c] = "commit"
    BY <1>1, <2>1
  <2>3. \A m \in decided'[c] : m.round = c
    BY <2>1, DecideNames
  <2>4. (decided[c] = Decide(c, offer[c]))'
    BY <2>1 DEF Decide
  <2>5. RowInv!(c)'
    BY <1>1, <2>1, <2>2, <2>3, <2>4
  <2> QED BY <1>1, <1>2, <2>1, <2>5, StepKeeps
<1>7. CASE Commit(c)
  <2>1. /\ pc[c] = "commit" /\ pc' = [pc EXCEPT ![c] = "appendDecision"]
        /\ matches' = matches \cup decided[c]
        /\ UNCHANGED <<ledger, input, decidedAt, offer, decided>>
    BY <1>7 DEF Commit, Goto
  <2>2. pc'[c] = "appendDecision"
    BY <1>1, <2>1
  <2>3. decided[c] = {m \in matches' : m.round = c}
    BY <1>1, <2>1
  <2>4. RowInv!(c)'
    BY <1>1, <2>1, <2>2, <2>3
  <2>5. \A d \in Rounds \ {c} : pc[d] \notin InTransaction
    BY <1>2, <2>1
  <2>6. \A m \in matches' : m \in matches \/ m.round = c
    BY <1>1, <2>1
  <2> QED BY <1>1, <2>1, <2>4, <2>5, <2>6, StepKeeps
<1>8. CASE Fail(c)
  <2>1. /\ pc[c] \in InTransaction \cup {"lock", "appendDecision"} /\ pc' = [pc EXCEPT ![c] = "failed"]
        /\ lockHolder' = lockHolder \ {c}
        /\ UNCHANGED <<matches, ledger, input, decidedAt, offer, decided>>
    BY <1>8 DEF Fail, Goto
  <2>2. pc'[c] = "failed"
    BY <1>1, <2>1
  <2>3. RowInv!(c)'
    BY <1>1, <2>1, <2>2
  <2>4. \A d \in Rounds \ {c} : pc[d] \in InTransaction => lockHolder' = {d}
    BY <1>2, <2>1
  <2> QED BY <1>1, <2>1, <2>3, <2>4, StepKeeps
<1> QED BY <1>3, <1>4, <1>5, <1>6, <1>7, <1>8

(* The decision of a round that committed joins the ledger, once.           *)
LEMMA AppendKeeps ==
  ASSUME IInv, NEW c \in Rounds, AppendDecision(c)
  PROVE  IInv'
<1>1. /\ pc[c] = "appendDecision" /\ pc' = [pc EXCEPT ![c] = "done"] /\ ledger' = Append(ledger, c)
      /\ UNCHANGED <<matches, lockHolder, input, decidedAt, offer, decided>>
  BY DEF AppendDecision, Goto
<1>2. /\ pc \in [Rounds -> Steps] /\ ledger \in Seq(Rounds) /\ Len(ledger) \in Nat
      /\ DOMAIN ledger = 1..Len(ledger)
  BY DEF IInv, Typed
<1>3. pc'[c] = "done" /\ \A d \in Rounds \ {c} : pc'[d] = pc[d]
  BY <1>1, <1>2
<1>4. Typed'
  BY <1>1, <1>2 DEF IInv, Typed, Steps, Ends
<1>5. LockInv'
  BY <1>1, <1>3 DEF IInv, LockInv, InTransaction
<1>6. RowInv'
  <2> SUFFICES ASSUME NEW d \in Rounds PROVE RowInv!(d)'
    BY DEF RowInv
  <2>1. RowInv!(d)
    BY DEF IInv, RowInv
  <2>2. (decided[d] = Decide(d, offer[d])) => (decided[d] = Decide(d, offer[d]))'
    BY <1>1 DEF Decide
  <2>3. d # c => pc'[d] = pc[d]
    BY <1>3
  <2> QED BY <1>1, <1>3, <2>1, <2>2, <2>3 DEF InTransaction
<1>7. /\ DOMAIN ledger' = 1..Len(ledger) + 1 /\ ledger'[Len(ledger) + 1] = c
      /\ \A i \in 1..Len(ledger) : ledger'[i] = ledger[i]
  BY <1>1, <1>2
<1>8. ASSUME NEW i \in 1..Len(ledger)
      PROVE  /\ ledger[i] \in Rounds \ {c} /\ pc[ledger[i]] = "done"
             /\ decided[ledger[i]] = {m \in matches : m.round = ledger[i]}
             /\ \A j \in 1..Len(ledger) : ledger[i] = ledger[j] => i = j
  <2>1. ledger[i] \in Rounds
    BY <1>2
  <2>2. DecisionsAreTrue!(i)
    BY <1>2 DEF IInv, DecisionsAreTrue
  <2> QED BY <1>1, <1>2, <2>1, <2>2
<1>9. decided[c] = {m \in matches : m.round = c}
  BY <1>1 DEF IInv, RowInv
<1>10. DecisionsAreTrue'
  <2> SUFFICES ASSUME NEW i \in DOMAIN ledger' PROVE DecisionsAreTrue!(i)'
    BY DEF DecisionsAreTrue
  <2>1. CASE i = Len(ledger) + 1
    BY <1>1, <1>2, <1>3, <1>7, <1>8, <1>9, <2>1
  <2>2. CASE i # Len(ledger) + 1
    <3>1. i \in 1..Len(ledger)
      BY <1>2, <1>7, <2>2
    <3>2. \A j \in DOMAIN ledger' : ledger'[i] = ledger'[j] => i = j
      BY <1>2, <1>7, <1>8, <3>1
    <3>3. ledger'[i] = ledger[i] /\ pc'[ledger[i]] = pc[ledger[i]]
      BY <1>3, <1>7, <1>8, <3>1
    <3> QED BY <1>1, <1>8, <3>1, <3>2, <3>3
  <2> QED BY <2>1, <2>2
<1> QED BY <1>4, <1>5, <1>6, <1>10 DEF IInv

(* Every step keeps the invariant.                                          *)
LEMMA NextIInv ==
  ASSUME IInv, [Next]_vars
  PROVE  IInv'
<1>1. ASSUME NEW c \in Rounds, AppendDecision(c) PROVE IInv'
  BY <1>1, AppendKeeps
<1>2. ASSUME NEW c \in Rounds,
             Start(c) \/ AcquireLock(c) \/ SelectLots(c) \/ SelectCommitted(c) \/ Commit(c) \/ Fail(c)
      PROVE  IInv'
  BY <1>2, RoundKeeps
<1>3. CASE (\E l \in Lots : ListLot(l)) \/ Midnight \/ UNCHANGED vars
  BY <1>3, OthersKeep
<1> QED BY <1>1, <1>2, <1>3 DEF Next

-----------------------------------------------------------------------------
(* What a round writes is what assign makes of the lots it read and of what *)
(* is committed at the moment it writes: the lock makes the statements of   *)
(* its transaction one step (runMatching.ts 57-134).                        *)
THEOREM RoundsLookAtomic == Spec => RoundsAreAtomic
<1>1. IInv /\ [Next]_vars =>
        [\A c \in Rounds : Commit(c) => matches' = matches \cup Decide(c, offer[c])]_vars
  <2> SUFFICES ASSUME IInv, NEW c \in Rounds, Commit(c)
               PROVE  matches' = matches \cup Decide(c, offer[c])
    OBVIOUS
  <2>1. pc[c] = "commit" /\ matches' = matches \cup decided[c]
    BY DEF Commit
  <2> QED BY <2>1 DEF IInv, RowInv
<1> QED BY <1>1, InitIInv, NextIInv, PTL DEF Spec, RoundsAreAtomic

(* A decision in the ledger is of a round that is over, is there once, and  *)
(* tells of exactly the matches that round wrote (runMatching.ts 111-157).  *)
THEOREM LedgerTellsTheTruth == Spec => []DecisionsAreTrue
<1>1. IInv => DecisionsAreTrue
  BY DEF IInv
<1> QED BY <1>1, InitIInv, NextIInv, PTL DEF Spec

-----------------------------------------------------------------------------
(* The invariant of the lots and the units.  What a round offers is still   *)
(* listed when it commits, because only a round in its transaction takes a  *)
(* lot off the list; the sets are finite, so that tonnes add up.            *)
PlaceInv ==
  /\ PlacedOnceWithinCapacity
  /\ IsFiniteSet(listed) /\ IsFiniteSet(matches)
  /\ \A c \in Rounds :
       /\ IsFiniteSet(offer[c])
       /\ pc[c] \in {"selectCommitted", "commit"} => offer[c] \subseteq listed

(* Nothing is placed yet.                                                   *)
LEMMA InitPlaceInv == Init => PlaceInv
<1> SUFFICES ASSUME Init PROVE PlaceInv
  OBVIOUS
<1>1. TypeOK
  BY LastDayAssumption DEF Init, TypeOK, Ends
<1>2. LotPlacedOnce
  BY DEF Init, LotPlacedOnce
<1>3. CapacityPerDay
  <2>1. Weighed({}) /\ Tonnes({}) = 0
    BY FS_EmptySet, TonnesStep DEF Weighed
  <2> SUFFICES ASSUME NEW u \in Units, NEW day \in 0..LastDay
               PROVE  TonnesAt(u, {m \in matches : m.decidedAt = day}) <= u.capacity
    BY DEF CapacityPerDay
  <2>2. {a \in {m \in matches : m.decidedAt = day} : a.unitId = u.id} = {}
    BY DEF Init
  <2>3. u.capacity \in Nat
    BY UnitsAssumption
  <2> QED BY <2>1, <2>2, <2>3, TonnesAtIs
<1>4. IsFiniteSet(listed) /\ IsFiniteSet(matches) /\ \A c \in Rounds : IsFiniteSet(offer[c])
  BY FS_EmptySet DEF Init
<1>5. \A c \in Rounds : pc[c] \notin {"selectCommitted", "commit"}
  BY DEF Init
<1> QED BY <1>1, <1>2, <1>3, <1>4, <1>5 DEF PlaceInv, PlacedOnceWithinCapacity

(* What is committed to a unit.                                             *)
LEMMA CommittedIs ==
  ASSUME NEW rows \in SUBSET MatchRows, IsFiniteSet(rows), NEW day, NEW u \in Units
  PROVE  LET since == {m \in rows : m.unitId = u.id /\ m.decidedAt >= day}
         IN  /\ Weighed(since)
             /\ CommittedSince(rows, day)[u.id] = Tonnes(since)
             /\ CommittedSince(rows, day)[u.id] \in Nat
<1> DEFINE since == {m \in rows : m.unitId = u.id /\ m.decidedAt >= day}
<1>1. Weighed(rows)
  BY DEF Weighed, MatchRows
<1>2. Weighed(since) /\ Tonnes(since) \in Nat
  BY <1>1, TonnesOfPart
<1>3. u.id \in {v.id : v \in Units}
  OBVIOUS
<1>4. CommittedSince(rows, day)[u.id] = Tonnes(since)
  BY <1>3 DEF CommittedSince, Tonnes
<1> QED BY <1>2, <1>4

(* The lots a round reads are fit for assign,                               *)
LEMMA OurLots ==
  ASSUME NEW lots \in SUBSET Lots, IsFiniteSet(lots)
  PROVE  AreLots(lots, Units)
BY LotsAssumption DEF AreLots

(* and so are the units.                                                    *)
LEMMA OurUnits == AreUnits(Units)
BY UnitsAssumption DEF AreUnits

(* What a round that decides now makes of the lots it offers.               *)
LEMMA DecideGives ==
  ASSUME TypeOK, IsFiniteSet(matches), NEW c \in Rounds, NEW lots \in SUBSET Lots, IsFiniteSet(lots)
  PROVE  LET rows == Decide(c, lots)
         IN  /\ rows \in SUBSET MatchRows /\ IsFiniteSet(rows)
             /\ \A m \in rows : m.decidedAt = decidedAt[c] /\ \E l \in lots : m.lotId = l.id
             /\ \A m, n \in rows : m.lotId = n.lotId => m = n
             /\ \A u \in Units :
                  TonnesAt(u, rows) <= Room(u, CommittedSince(matches, decidedAt[c]))
<1> DEFINE committed == CommittedSince(matches, decidedAt[c])
           A == Assign(lots, Units, input[c].maxRadiusKm, committed)
           row == [a \in A |-> [lotId |-> a.lotId, unitId |-> a.unitId,
                                assignedTonnes |-> a.assignedTonnes,
                                decidedAt |-> decidedAt[c], round |-> c]]
           rows == Decide(c, lots)
<1>1. \A u \in Units : committed[u.id] \in Nat
  <2>1. matches \in SUBSET MatchRows
    BY DEF TypeOK
  <2> QED BY <2>1, CommittedIs
<1>2. /\ A \in SUBSET Row(Units) /\ IsFiniteSet(A)
      /\ \A a \in A : \E l \in lots : a.lotId = l.id /\ a.assignedTonnes = l.tonnes
      /\ \A a, b \in A : a.lotId = b.lotId => a = b
      /\ \A u \in Units : TonnesAt(u, A) <= Room(u, committed)
  <2> HIDE DEF committed
  <2> QED BY <1>1, OurLots, OurUnits, AssignGives
<1>3. rows = {row[a] : a \in A}
  BY DEF Decide
<1> HIDE DEF A, rows
<1>4. \A a \in A : /\ row[a].lotId = a.lotId /\ row[a].unitId = a.unitId
                   /\ row[a].assignedTonnes = a.assignedTonnes
                   /\ row[a].decidedAt = decidedAt[c] /\ row[a].round = c
  OBVIOUS
<1>5. decidedAt[c] \in 0..LastDay
  BY DEF TypeOK
<1>6. \A a \in A : row[a] \in MatchRows
  <2> TAKE a \in A
  <2>1. a.lotId \in LotIds
    BY <1>2 DEF LotIds
  <2>2. a.unitId \in {u.id : u \in Units} /\ a.assignedTonnes \in Nat
    BY <1>2 DEF Row, Ids
  <2> QED BY <1>5, <2>1, <2>2 DEF MatchRows
<1>7. DOMAIN row = A
  OBVIOUS
<1> HIDE DEF row
<1>8. Weighed(A)
  BY <1>2, OurUnits, RowsWeighed
<1>9. \A a, b \in A : row[a] = row[b] => a = b
  BY <1>2, <1>4
<1>10. IsFiniteSet(rows)
  BY <1>3, <1>4, <1>7, <1>8, <1>9, TonnesOfRows DEF Weighed
<1>11. ASSUME NEW u \in Units PROVE TonnesAt(u, rows) = TonnesAt(u, A)
  <2> DEFINE here == {a \in A : a.unitId = u.id}
             part == [a \in here |-> row[a]]
  <2>1. Weighed(here)
    BY <1>8, TonnesOfPart
  <2>2. {m \in rows : m.unitId = u.id} = {part[a] : a \in here}
    BY <1>3, <1>4
  <2>3. /\ DOMAIN part = here
        /\ \A a \in here : part[a].assignedTonnes = a.assignedTonnes
        /\ \A a, b \in here : part[a] = part[b] => a = b
    BY <1>4, <1>9
  <2>4. Tonnes({part[a] : a \in here}) = Tonnes(here)
    <3> HIDE DEF part, here
    <3> QED BY <2>1, <2>3, TonnesOfRows
  <2> QED BY <2>2, <2>4, TonnesAtIs
<1>12. \A m \in rows : m.decidedAt = decidedAt[c] /\ \E l \in lots : m.lotId = l.id
  BY <1>2, <1>3, <1>4
<1>13. \A m, n \in rows : m.lotId = n.lotId => m = n
  BY <1>2, <1>3, <1>4
<1>14. \A u \in Units : TonnesAt(u, rows) <= Room(u, committed)
  BY <1>2, <1>11
<1>15. rows \in SUBSET MatchRows
  BY <1>3, <1>6
<1> QED BY <1>10, <1>12, <1>13, <1>14, <1>15 DEF rows

(* A round that commits: its rows join the table, their lots leave.         *)
LEMMA CommitPlaces ==
  ASSUME PlaceInv, IInv, NEW c \in Rounds, Commit(c)
  PROVE  PlaceInv'
<1>1. /\ pc[c] = "commit" /\ pc' = [pc EXCEPT ![c] = "appendDecision"]
      /\ matches' = matches \cup decided[c]
      /\ listed' = listed \ PlacedBy(c) /\ matched' = matched \cup PlacedBy(c)
      /\ lockHolder' = lockHolder \ {c}
      /\ UNCHANGED <<ledger, input, decidedAt, offer, decided, today>>
  BY DEF Commit, Goto
<1>2. /\ TypeOK /\ LotPlacedOnce /\ CapacityPerDay /\ IsFiniteSet(listed) /\ IsFiniteSet(matches)
      /\ \A d \in Rounds : /\ IsFiniteSet(offer[d])
                           /\ pc[d] \in {"selectCommitted", "commit"} => offer[d] \subseteq listed
  BY DEF PlaceInv, PlacedOnceWithinCapacity
<1> DEFINE rows == decided[c]
           day == decidedAt[c]
           committed == CommittedSince(matches, day)
<1>3. /\ rows \in SUBSET MatchRows /\ IsFiniteSet(rows)
      /\ \A m \in rows : m.decidedAt = day /\ \E l \in offer[c] : m.lotId = l.id
      /\ \A m, n \in rows : m.lotId = n.lotId => m = n
      /\ \A u \in Units : TonnesAt(u, rows) <= Room(u, committed)
  <2>1. decided[c] = Decide(c, offer[c])
    BY <1>1 DEF IInv, RowInv
  <2>2. offer[c] \in SUBSET Lots
    BY <1>2 DEF TypeOK
  <2> QED BY <1>2, <2>1, <2>2, DecideGives
<1>4. matches \in SUBSET MatchRows /\ matches' \in SUBSET MatchRows /\ IsFiniteSet(matches')
  BY <1>1, <1>2, <1>3, FS_Union DEF TypeOK
<1>5. offer[c] \subseteq listed /\ listed \subseteq Lots /\ day \in 0..LastDay
  BY <1>1, <1>2 DEF TypeOK
<1> HIDE DEF rows, day, committed
<1>6. TypeOK'
  <2>1. PlacedBy(c) \subseteq Lots
    BY DEF PlacedBy
  <2> QED BY <1>1, <1>2, <1>4, <2>1 DEF TypeOK
<1>7. LotPlacedOnce'
  <2>1. /\ \A m, n \in matches : m.lotId = n.lotId => m = n
        /\ matched = {l \in Lots : \E m \in matches : m.lotId = l.id}
        /\ listed \cap matched = {}
    BY <1>2 DEF LotPlacedOnce
  <2>2. \A m \in rows, n \in matches : m.lotId # n.lotId
    <3> SUFFICES ASSUME NEW m \in rows, NEW n \in matches, m.lotId = n.lotId PROVE FALSE
      OBVIOUS
    <3>1. PICK l \in offer[c] : m.lotId = l.id
      BY <1>3
    <3>2. l \in listed /\ l \in matched
      BY <1>5, <2>1, <3>1
    <3> QED BY <2>1, <3>2
  <2>3. \A m, n \in matches' : m.lotId = n.lotId => m = n
    BY <1>1, <1>3, <2>1, <2>2 DEF rows
  <2>4. matched' = {l \in Lots : \E m \in matches' : m.lotId = l.id}
    BY <1>1, <2>1 DEF PlacedBy
  <2>5. listed' \cap matched' = {}
    BY <1>1, <2>1
  <2> QED BY <2>3, <2>4, <2>5 DEF LotPlacedOnce
<1>8. CapacityPerDay'
  <2> SUFFICES ASSUME NEW u \in Units, NEW d \in 0..LastDay
               PROVE  TonnesAt(u, {m \in matches' : m.decidedAt = d}) <= u.capacity
    BY DEF CapacityPerDay
  <2> DEFINE old   == {m \in matches : m.unitId = u.id /\ m.decidedAt = d}
             new   == {m \in rows : m.unitId = u.id}
             since == {m \in matches : m.unitId = u.id /\ m.decidedAt >= day}
  <2>1. TonnesAt(u, {m \in matches : m.decidedAt = d}) <= u.capacity
    BY <1>2 DEF CapacityPerDay
  <2>2. Tonnes(old) <= u.capacity
    <3>1. {m \in {n \in matches : n.decidedAt = d} : m.unitId = u.id} = old
      OBVIOUS
    <3> QED BY <2>1, <3>1, TonnesAtIs
  <2>3. Weighed(matches) /\ Weighed(rows)
    BY <1>2, <1>3, <1>4 DEF Weighed, MatchRows
  <2>4. Weighed(old) /\ Weighed(new) /\ Tonnes(old) \in Nat /\ Tonnes(new) \in Nat
    BY <2>3, TonnesOfPart
  <2>5. CASE d # day
    <3>1. {m \in {n \in matches' : n.decidedAt = d} : m.unitId = u.id} = old
      BY <1>1, <1>3, <2>5 DEF rows
    <3> QED BY <2>2, <3>1, TonnesAtIs
  <2>6. CASE d = day
    <3>1. {m \in {n \in matches' : n.decidedAt = d} : m.unitId = u.id} = old \cup new
      BY <1>1, <1>3, <2>6 DEF rows
    <3>2. old \cap new = {}
      <4> SUFFICES ASSUME NEW m \in matches, m \in rows PROVE FALSE
        OBVIOUS
      <4>1. PICK l \in offer[c] : m.lotId = l.id
        BY <1>3
      <4>2. l \in listed /\ l \in matched
        BY <1>2, <1>5, <4>1 DEF LotPlacedOnce
      <4> QED BY <1>2, <4>2 DEF LotPlacedOnce
    <3>3. Tonnes(old \cup new) = Tonnes(old) + Tonnes(new)
      BY <2>4, <3>2, TonnesApart
    <3>4. Tonnes(new) <= Room(u, committed)
      BY <1>3, TonnesAtIs
    <3>5. /\ Weighed(since) /\ committed[u.id] = Tonnes(since) /\ committed[u.id] \in Nat
      BY <1>2, <1>4, CommittedIs DEF committed
    <3>6. old \in SUBSET since
      BY <1>5, <2>6
    <3>7. Tonnes(old) <= committed[u.id]
      BY <3>5, <3>6, TonnesOfPart
    <3>8. u.capacity \in Nat
      BY UnitsAssumption
    <3>9. Room(u, committed) = IF committed[u.id] <= u.capacity THEN u.capacity - committed[u.id] ELSE 0
      BY <3>5, <3>8, RoomIs
    <3>10. Tonnes(old) + Tonnes(new) <= u.capacity
      <4> HIDE DEF old, new
      <4> QED BY <2>2, <2>4, <3>4, <3>5, <3>7, <3>8, <3>9
    <3> QED BY <3>1, <3>3, <3>10, TonnesAtIs
  <2> QED BY <2>5, <2>6
<1>9. IsFiniteSet(listed')
  BY <1>1, <1>2, FS_Subset
<1>10. ASSUME NEW d \in Rounds
       PROVE  /\ IsFiniteSet(offer'[d])
              /\ pc'[d] \in {"selectCommitted", "commit"} => offer'[d] \subseteq listed'
  <2>1. pc[d] \in InTransaction => d = c
    BY <1>1 DEF IInv, LockInv, InTransaction
  <2>2. pc'[d] = IF d = c THEN "appendDecision" ELSE pc[d]
    BY <1>1, <1>2 DEF TypeOK
  <2> QED BY <1>1, <1>2, <2>1, <2>2 DEF InTransaction
<1> QED BY <1>4, <1>6, <1>7, <1>8, <1>9, <1>10 DEF PlaceInv, PlacedOnceWithinCapacity

(* Every other step of a round leaves lots and matches as they are.         *)
LEMMA RoundPlaces ==
  ASSUME PlaceInv, NEW c \in Rounds,
         \/ Start(c) \/ AcquireLock(c) \/ SelectLots(c) \/ SelectCommitted(c)
         \/ AppendDecision(c) \/ Fail(c)
  PROVE  PlaceInv'
<1>1. /\ TypeOK /\ LotPlacedOnce /\ CapacityPerDay /\ IsFiniteSet(listed) /\ IsFiniteSet(matches)
      /\ \A d \in Rounds : /\ IsFiniteSet(offer[d])
                           /\ pc[d] \in {"selectCommitted", "commit"} => offer[d] \subseteq listed
  BY DEF PlaceInv, PlacedOnceWithinCapacity
<1>2. /\ UNCHANGED <<listed, matched, matches>>
      /\ LotPlacedOnce' /\ CapacityPerDay' /\ IsFiniteSet(listed') /\ IsFiniteSet(matches')
  <2>1. UNCHANGED <<listed, matched, matches>>
    BY DEF Start, AcquireLock, SelectLots, SelectCommitted, AppendDecision, Fail, db
  <2> QED BY <1>1, <2>1 DEF LotPlacedOnce, CapacityPerDay
<1>3. CASE SelectLots(c)
  <2> DEFINE lots == {l \in listed : District[l.id] \in input[c].districts}
  <2>1. /\ pc' = [pc EXCEPT ![c] = "selectCommitted"] /\ offer' = [offer EXCEPT ![c] = lots]
        /\ UNCHANGED <<ledger, lockHolder, input, decidedAt, decided, today>>
    BY <1>3 DEF SelectLots, Goto, db
  <2>2. lots \subseteq listed /\ IsFiniteSet(lots)
    BY <1>1, FS_Subset
  <2> HIDE DEF lots
  <2>3. TypeOK'
    BY <1>1, <1>2, <2>1, <2>2 DEF TypeOK, InTransaction
  <2>4. \A d \in Rounds : /\ IsFiniteSet(offer'[d])
                          /\ pc'[d] \in {"selectCommitted", "commit"} => offer'[d] \subseteq listed'
    BY <1>1, <1>2, <2>1, <2>2 DEF TypeOK
  <2> QED BY <1>2, <2>3, <2>4 DEF PlaceInv, PlacedOnceWithinCapacity
<1>4. CASE SelectCommitted(c)
  <2>1. /\ pc[c] = "selectCommitted" /\ pc' = [pc EXCEPT ![c] = "commit"]
        /\ decided' = [decided EXCEPT ![c] = Decide(c, offer[c])]
        /\ UNCHANGED <<ledger, lockHolder, input, decidedAt, offer, today>>
    BY <1>4 DEF SelectCommitted, Goto, db
  <2>2. Decide(c, offer[c]) \in SUBSET MatchRows
    <3>1. offer[c] \in SUBSET Lots
      BY <1>1 DEF TypeOK
    <3> QED BY <1>1, <3>1, DecideGives
  <2>3. TypeOK'
    BY <1>1, <1>2, <2>1, <2>2 DEF TypeOK, InTransaction
  <2>4. \A d \in Rounds : /\ IsFiniteSet(offer'[d])
                          /\ pc'[d] \in {"selectCommitted", "commit"} => offer'[d] \subseteq listed'
    BY <1>1, <1>2, <2>1 DEF TypeOK
  <2> QED BY <1>2, <2>3, <2>4 DEF PlaceInv, PlacedOnceWithinCapacity
<1>5. ASSUME UNCHANGED offer, TypeOK',
             \A d \in Rounds : pc'[d] \in {"selectCommitted", "commit"} => pc'[d] = pc[d]
      PROVE  PlaceInv'
  BY <1>1, <1>2, <1>5 DEF PlaceInv, PlacedOnceWithinCapacity
<1>6. CASE Start(c)
  <2>1. /\ pc' = [pc EXCEPT ![c] = "lock"] /\ decidedAt' = [decidedAt EXCEPT ![c] = today]
        /\ UNCHANGED <<ledger, lockHolder, input, offer, decided, today>>
    BY <1>6 DEF Start, Goto, db
  <2>2. TypeOK'
    BY <1>1, <1>2, <2>1 DEF TypeOK
  <2> QED BY <1>1, <1>5, <2>1, <2>2 DEF TypeOK
<1>7. CASE AcquireLock(c)
  <2>1. /\ pc' = [pc EXCEPT ![c] = "selectLots"] /\ lockHolder' = {c}
        /\ UNCHANGED <<ledger, input, decidedAt, offer, decided, today>>
    BY <1>7 DEF AcquireLock, Goto
  <2>2. TypeOK'
    BY <1>1, <1>2, <2>1 DEF TypeOK, InTransaction
  <2> QED BY <1>1, <1>5, <2>1, <2>2 DEF TypeOK
<1>8. CASE AppendDecision(c)
  <2>1. /\ pc' = [pc EXCEPT ![c] = "done"] /\ ledger' = Append(ledger, c)
        /\ UNCHANGED <<lockHolder, input, decidedAt, offer, decided, today>>
    BY <1>8 DEF AppendDecision, Goto
  <2>2. TypeOK'
    BY <1>1, <1>2, <2>1 DEF TypeOK, Ends
  <2> QED BY <1>1, <1>5, <2>1, <2>2 DEF TypeOK
<1>9. CASE Fail(c)
  <2>1. /\ pc' = [pc EXCEPT ![c] = "failed"] /\ lockHolder' = lockHolder \ {c}
        /\ UNCHANGED <<ledger, input, decidedAt, offer, decided, today>>
    BY <1>9 DEF Fail, Goto
  <2>2. TypeOK'
    BY <1>1, <1>2, <2>1 DEF TypeOK, Ends
  <2> QED BY <1>1, <1>5, <2>1, <2>2 DEF TypeOK
<1> QED BY <1>3, <1>4, <1>6, <1>7, <1>8, <1>9

(* A lot is listed, a day passes, or nothing happens.                       *)
LEMMA OthersPlace ==
  ASSUME PlaceInv, (\E l \in Lots : ListLot(l)) \/ Midnight \/ UNCHANGED vars
  PROVE  PlaceInv'
<1>1. /\ TypeOK /\ LotPlacedOnce /\ CapacityPerDay /\ IsFiniteSet(listed) /\ IsFiniteSet(matches)
      /\ \A d \in Rounds : /\ IsFiniteSet(offer[d])
                           /\ pc[d] \in {"selectCommitted", "commit"} => offer[d] \subseteq listed
  BY DEF PlaceInv, PlacedOnceWithinCapacity
<1>2. UNCHANGED <<matched, matches, ledger, lockHolder, pc, input, decidedAt, offer, decided>>
  BY DEF ListLot, Midnight, call, db, vars
<1>3. PICK more \in SUBSET Lots : listed' = listed \cup more /\ IsFiniteSet(more) /\ more \cap matched = {}
  <2>1. ASSUME NEW l \in Lots, ListLot(l)
        PROVE  {l} \in SUBSET Lots /\ listed' = listed \cup {l} /\ {l} \cap matched = {}
    BY <2>1 DEF ListLot
  <2>2. CASE \E l \in Lots : ListLot(l)
    BY <2>1, <2>2, FS_Singleton
  <2>3. CASE Midnight \/ UNCHANGED vars
    <3>1. listed' = listed \cup {}
      BY <2>3 DEF Midnight, db, vars
    <3> QED BY <3>1, FS_EmptySet
  <2> QED BY <2>2, <2>3
<1>4. today' \in 0..LastDay
  <2>1. today \in 0..LastDay /\ LastDay \in Nat
    BY <1>1, LastDayAssumption DEF TypeOK
  <2> QED BY <2>1 DEF ListLot, Midnight, vars
<1>5. TypeOK'
  BY <1>1, <1>2, <1>3, <1>4 DEF TypeOK
<1>6. LotPlacedOnce' /\ CapacityPerDay'
  BY <1>1, <1>2, <1>3 DEF LotPlacedOnce, CapacityPerDay
<1>7. IsFiniteSet(listed')
  BY <1>1, <1>3, FS_Union
<1> QED BY <1>1, <1>2, <1>3, <1>5, <1>6, <1>7 DEF PlaceInv, PlacedOnceWithinCapacity

(* Every step keeps it.                                                     *)
LEMMA NextPlaceInv ==
  ASSUME PlaceInv, IInv, [Next]_vars
  PROVE  PlaceInv'
<1>1. ASSUME NEW c \in Rounds, Commit(c) PROVE PlaceInv'
  BY <1>1, CommitPlaces
<1>2. ASSUME NEW c \in Rounds,
             \/ Start(c) \/ AcquireLock(c) \/ SelectLots(c) \/ SelectCommitted(c)
             \/ AppendDecision(c) \/ Fail(c)
      PROVE  PlaceInv'
  BY <1>2, RoundPlaces
<1>3. CASE (\E l \in Lots : ListLot(l)) \/ Midnight \/ UNCHANGED vars
  BY <1>3, OthersPlace
<1> QED BY <1>1, <1>2, <1>3 DEF Next

(* However many rounds race, over any lots and units and any number of      *)
(* days, a lot is placed once and off the list from then on, and no unit is *)
(* committed to more in a day than it takes: matches are inserted and their *)
(* lots updated under one lock, and what was decided on or after the        *)
(* round's day counts against its room (runMatching.ts 57-134).             *)
THEOREM RaceDoublesNothing == Spec => []PlacedOnceWithinCapacity
<1>1. PlaceInv => PlacedOnceWithinCapacity
  BY DEF PlaceInv
<1> QED BY <1>1, InitIInv, NextIInv, InitPlaceInv, NextPlaceInv, PTL DEF Spec
=============================================================================
