--------------------------- MODULE Verifier_proofs ---------------------------
(* Verifier's invariants for any number of calls, ids, photos and matches,  *)
(* and any number of faults.                                                *)
EXTENDS Verifier, FiniteSetTheorems, TLAPS

(* The line for id i: its live calls, each waiting for the one before it,   *)
(* and the first for nobody.                                                *)
Line(i, s) ==
  /\ s \in Seq(Calls)
  /\ \A c \in Calls : (pc[c] \in Live /\ IdOf(c) = i) <=> \E k \in 1..Len(s) : s[k] = c
  /\ \A k, l \in 1..Len(s) : s[k] = s[l] => k = l
  /\ tails[i] = IF Len(s) = 0 THEN NoCall ELSE s[Len(s)]
  /\ Len(s) # 0 => MyTurn(s[1])
  /\ \A k \in 2..Len(s) : ahead[s[k]] = s[k - 1] /\ pc[s[k]] = "waiting"

LineInv ==
  /\ \A c \in released : pc[c] \in Ends
  /\ \A i \in Ids : \E s \in Seq(Calls) : Line(i, s)

(* A call has one payload, once it has any.                                 *)
InputInv ==
  \A c \in Calls :
    /\ pc[c] = "new" => input[c] = {}
    /\ pc[c] # "new" => PayloadOf(c) \in Payloads /\ input[c] = {PayloadOf(c)}

Good(p) == p.look = "good_char" /\ p.sure /\ p.batchOK /\ p.match \in matches

(* "accepted" is about stored evidence that earned it.                      *)
Sound(d) == d.verdict = "accepted" => \E p \in evidence : p.id = d.id /\ Good(p)

OneRow == \A p, q \in evidence : (p.photo = q.photo \/ p.id = q.id) => p = q

(* What a call relies on in its later steps.                                *)
CallInv ==
  \A c \in Calls :
    /\ pc[c] \in {"assess", "appendDecision", "saveVerification"} => PayloadOf(c) \in evidence
    /\ pc[c] = "appendDecision" => verdict[c] \in Verdicts /\ Sound(Decision(IdOf(c), verdict[c]))
    /\ pc[c] = "saveVerification" => Decision(IdOf(c), verdict[c]) \in Range(ledger)

(* What is stored, or may still be, was decided; what was decided is sound. *)
LedgerInv ==
  /\ lateVerdicts \subseteq Range(ledger)
  /\ \A i \in Ids : verifications[i] # "none" => Decision(i, verifications[i]) \in Range(ledger)
  /\ \A d \in Range(ledger) : Sound(d) /\ \E p \in evidence : p.id = d.id

(* While nothing fails, an id is decided once: a call on its way to decide  *)
(* finds no decision, and a decision without a verdict has its call at work.*)
OnceInv ==
  faults = 0 =>
    /\ \A k, l \in DOMAIN ledger : ledger[k].id = ledger[l].id => k = l
    /\ \A c \in Calls : pc[c] \in Holding \ {"saveVerification"} =>
         \A d \in Range(ledger) : d.id # IdOf(c)
    /\ \A d \in Range(ledger) : verifications[d.id] = "none" =>
         \E c \in Calls : pc[c] = "saveVerification" /\ IdOf(c) = d.id

IInv == TypeOK /\ LineInv /\ InputInv /\ OneRow /\ CallInv /\ LedgerInv /\ OnceInv

-----------------------------------------------------------------------------
(* The mutex.                                                               *)

(* Whoever has the turn is the first in line.                               *)
LEMMA TurnIsFirst ==
  ASSUME TypeOK, LineInv, NEW c \in Calls, HasTurn(c), NEW s, Line(IdOf(c), s)
  PROVE  Len(s) # 0 /\ s[1] = c
<1>1. pc[c] \in Live
  BY DEF HasTurn, Live
<1>2. PICK k \in 1..Len(s) : s[k] = c
  BY <1>1 DEF Line
<1>3. s \in Seq(Calls) /\ Len(s) \in Nat
  BY DEF Line
<1>4. ASSUME k # 1 PROVE FALSE
  <2>1. k \in 2..Len(s) /\ k - 1 \in 1..Len(s)
    BY <1>3, <1>4
  <2>2. ahead[c] = s[k - 1] /\ pc[c] = "waiting" /\ s[k - 1] \in Calls
    BY <1>2, <1>3, <2>1 DEF Line
  <2>3. pc[s[k - 1]] \in Live
    BY <2>1, <2>2 DEF Line
  <2>4. s[k - 1] \notin released /\ s[k - 1] # NoCall
    BY <2>2, <2>3, NoCallAssumption DEF LineInv, Live, Holding, Ends
  <2> QED BY <2>2, <2>4 DEF HasTurn, MyTurn, Holding
<1> QED BY <1>2, <1>3, <1>4

(* Two calls with the turn are about different ids.                         *)
LEMMA OneTurn ==
  ASSUME TypeOK, LineInv, InputInv, NEW b \in Calls, NEW c \in Calls,
         HasTurn(b), HasTurn(c), IdOf(b) = IdOf(c)
  PROVE  b = c
<1>1. IdOf(c) \in Ids
  <2>1. pc[c] # "new"
    BY DEF HasTurn, Holding
  <2> QED BY <2>1, PayloadsAssumption DEF InputInv, IdOf, PayloadType
<1>2. PICK s \in Seq(Calls) : Line(IdOf(c), s)
  BY <1>1 DEF LineInv
<1>3. s[1] = c
  BY <1>2, TurnIsFirst
<1>4. s[1] = b
  BY <1>2, TurnIsFirst
<1> QED BY <1>3, <1>4

(* A step of a call that has the turn and keeps it.                         *)
LEMMA ContinueKeepsLine ==
  ASSUME TypeOK, LineInv, NEW c \in Calls, HasTurn(c), NEW step \in Holding,
         Continue(c, step), input' = input
  PROVE  LineInv'
<1>1. pc' = [pc EXCEPT ![c] = step] /\ UNCHANGED <<tails, ahead, released>>
  BY DEF Continue, Goto, mutex
<1>2. pc'[c] = step /\ \A b \in Calls \ {c} : pc'[b] = pc[b]
  BY <1>1 DEF TypeOK
<1>3. \A b \in Calls : IdOf(b)' = IdOf(b)
  BY DEF IdOf, PayloadOf
<1>4. pc[c] \in Live /\ pc'[c] \in Live
  BY <1>2 DEF HasTurn, Live
<1>5. \A b \in released' : pc'[b] \in Ends
  BY <1>1, <1>2, <1>4 DEF LineInv, TypeOK, Live, Holding, Ends
<1>6. ASSUME NEW i \in Ids PROVE \E s \in Seq(Calls) : Line(i, s)'
  <2>1. PICK s \in Seq(Calls) : Line(i, s)
    BY DEF LineInv
  <2>2. \A k \in 2..Len(s) : s[k] # c
    <3> SUFFICES ASSUME NEW k \in 2..Len(s), s[k] = c PROVE FALSE
      OBVIOUS
    <3>1. k \in 1..Len(s) /\ 1 \in 1..Len(s) /\ k # 1
      OBVIOUS
    <3>2. IdOf(c) = i
      BY <2>1, <3>1 DEF Line
    <3>3. s[1] = c
      BY <2>1, <3>2, TurnIsFirst
    <3> QED BY <2>1, <3>1, <3>3 DEF Line
  <2>3. \A b \in Calls : (pc[b] \in Live)' <=> pc[b] \in Live
    BY <1>2, <1>4 DEF Live, Holding
  <2>4. \A k \in 2..Len(s) : (ahead[s[k]] = s[k - 1] /\ pc[s[k]] = "waiting")'
    BY <1>1, <1>2, <2>1, <2>2 DEF Line
  <2>5. (Len(s) # 0 => MyTurn(s[1]))'
    BY <1>1, <2>1 DEF Line, MyTurn
  <2> QED BY <1>1, <1>3, <2>1, <2>3, <2>4, <2>5 DEF Line
<1> QED BY <1>5, <1>6 DEF LineInv

(* The end of a call that has the turn: the next one gets it.               *)
LEMMA EndKeepsLine ==
  ASSUME TypeOK, LineInv, NEW c \in Calls, HasTurn(c), NEW how \in Ends,
         End(c, how), input' = input
  PROVE  LineInv'
<1>1. /\ pc' = [pc EXCEPT ![c] = how] /\ released' = released \cup {c} /\ ahead' = ahead
      /\ tails' = IF tails[IdOf(c)] = c THEN [tails EXCEPT ![IdOf(c)] = NoCall] ELSE tails
  BY DEF End, Goto
<1>2. pc'[c] = how /\ \A b \in Calls \ {c} : pc'[b] = pc[b]
  BY <1>1 DEF TypeOK
<1>3. \A b \in Calls : IdOf(b)' = IdOf(b)
  BY DEF IdOf, PayloadOf
<1>4. pc[c] \in Live /\ pc'[c] \notin Live
  BY <1>2 DEF HasTurn, Live, Holding, Ends
<1>5. \A b \in released' : pc'[b] \in Ends
  BY <1>1, <1>2 DEF LineInv, TypeOK
<1>6. ASSUME NEW i \in Ids PROVE \E s \in Seq(Calls) : Line(i, s)'
  <2>1. PICK s \in Seq(Calls) : Line(i, s)
    BY DEF LineInv
  <2>2. CASE i # IdOf(c)
    <3>1. \A k \in 1..Len(s) : s[k] # c
      BY <2>1, <2>2 DEF Line
    <3>2. tails'[i] = tails[i]
      BY <1>1, <2>2 DEF TypeOK
    <3>3. \A b \in Calls : (pc[b] \in Live /\ IdOf(b) = i)' <=> (pc[b] \in Live /\ IdOf(b) = i)
      BY <1>2, <1>3, <2>2 DEF Live, Holding
    <3>4. \A k \in 2..Len(s) : (ahead[s[k]] = s[k - 1] /\ pc[s[k]] = "waiting")'
      BY <1>1, <1>2, <2>1, <3>1 DEF Line
    <3>5. (Len(s) # 0 => MyTurn(s[1]))'
      BY <1>1, <2>1 DEF Line, MyTurn
    <3> QED BY <2>1, <3>2, <3>3, <3>4, <3>5 DEF Line
  <2>3. CASE i = IdOf(c)
    <3> DEFINE t == Tail(s)
    <3>1. Len(s) # 0 /\ s[1] = c
      BY <2>1, <2>3, TurnIsFirst
    <3>2. /\ t \in Seq(Calls) /\ Len(s) \in Nat \ {0} /\ Len(t) = Len(s) - 1
          /\ \A k \in 1..Len(t) : t[k] = s[k + 1] /\ k + 1 \in 2..Len(s)
      BY <3>1
    <3>3. \A k \in 2..Len(s) : s[k] # c /\ k - 1 \in 1..Len(t) /\ t[k - 1] = s[k]
      BY <2>1, <3>1, <3>2 DEF Line
    <3> HIDE DEF t
    <3>4. \A b \in Calls : (pc[b] \in Live /\ IdOf(b) = i)' <=> \E k \in 1..Len(t) : t[k] = b
      <4> SUFFICES ASSUME NEW b \in Calls
                   PROVE  (pc[b] \in Live /\ IdOf(b) = i)' <=> \E k \in 1..Len(t) : t[k] = b
        OBVIOUS
      <4>1. (pc[b] \in Live /\ IdOf(b) = i)' <=> (b # c /\ pc[b] \in Live /\ IdOf(b) = i)
        BY <1>2, <1>3, <1>4 DEF Live, Holding
      <4>2. (pc[b] \in Live /\ IdOf(b) = i) <=> \E k \in 1..Len(s) : s[k] = b
        BY <2>1 DEF Line
      <4>3. (b # c /\ \E k \in 1..Len(s) : s[k] = b) <=> \E k \in 1..Len(t) : t[k] = b
        <5>1. ASSUME NEW k \in 1..Len(s), s[k] = b, b # c PROVE \E l \in 1..Len(t) : t[l] = b
          <6>1. k \in 2..Len(s)
            BY <3>1, <3>2, <5>1
          <6> QED BY <3>3, <5>1, <6>1
        <5>2. ASSUME NEW l \in 1..Len(t), t[l] = b PROVE b # c /\ \E k \in 1..Len(s) : s[k] = b
          <6>1. l + 1 \in 2..Len(s) /\ l + 1 \in 1..Len(s) /\ s[l + 1] = b
            BY <3>2, <5>2
          <6> QED BY <3>3, <6>1
        <5> QED BY <5>1, <5>2
      <4> QED BY <4>1, <4>2, <4>3
    <3>5. \A k, l \in 1..Len(t) : t[k] = t[l] => k = l
      BY <2>1, <3>2 DEF Line
    <3>6. tails'[i] = IF Len(t) = 0 THEN NoCall ELSE t[Len(t)]
      <4>1. tails[i] = s[Len(s)]
        BY <2>1, <3>1 DEF Line
      <4>2. CASE Len(t) = 0
        <5>1. Len(s) = 1
          BY <3>2, <4>2
        <5>2. tails[IdOf(c)] = c
          BY <2>3, <3>1, <4>1, <5>1
        <5> QED BY <1>1, <2>3, <4>2, <5>2 DEF TypeOK
      <4>3. CASE Len(t) # 0
        <5>1. Len(t) \in 1..Len(t) /\ Len(s) \in 2..Len(s) /\ t[Len(t)] = s[Len(s)]
          BY <3>2, <4>3
        <5>2. tails[i] # c
          BY <3>3, <4>1, <5>1
        <5> QED BY <1>1, <2>3, <4>1, <4>3, <5>1, <5>2
      <4> QED BY <4>2, <4>3
    <3>7. (Len(t) # 0 => MyTurn(t[1]))'
      <4>1. CASE Len(t) # 0
        <5>1. 2 \in 2..Len(s) /\ t[1] = s[2]
          BY <3>2, <4>1
        <5>2. ahead[s[2]] = s[2 - 1]
          BY <2>1, <5>1 DEF Line
        <5> QED BY <1>1, <3>1, <5>1, <5>2 DEF MyTurn
      <4> QED BY <4>1
    <3>8. \A k \in 2..Len(t) : (ahead[t[k]] = t[k - 1] /\ pc[t[k]] = "waiting")'
      <4> SUFFICES ASSUME NEW k \in 2..Len(t)
                   PROVE  (ahead[t[k]] = t[k - 1] /\ pc[t[k]] = "waiting")'
        OBVIOUS
      <4>1. k \in 1..Len(t) /\ k - 1 \in 1..Len(t) /\ k + 1 \in 2..Len(s) /\ (k - 1) + 1 = k /\ (k + 1) - 1 = k
        BY <3>2
      <4>2. t[k] = s[k + 1] /\ t[k - 1] = s[k] /\ t[k] # c
        BY <3>2, <3>3, <4>1
      <4>3. ahead[s[k + 1]] = s[k] /\ pc[s[k + 1]] = "waiting" /\ s[k + 1] \in Calls
        BY <2>1, <4>1 DEF Line
      <4> QED BY <1>1, <1>2, <4>2, <4>3
    <3> QED BY <3>2, <3>4, <3>5, <3>6, <3>7, <3>8 DEF Line
  <2> QED BY <2>2, <2>3
<1> QED BY <1>5, <1>6 DEF LineInv

(* A call that comes in goes to the back.                                   *)
LEMMA EnterKeepsLine ==
  ASSUME TypeOK, LineInv, InputInv, NEW c \in Calls, NEW p \in Payloads, Enter(c, p)
  PROVE  LineInv'
<1>1. /\ pc[c] = "new" /\ pc' = [pc EXCEPT ![c] = "waiting"] /\ released' = released
      /\ input' = [input EXCEPT ![c] = {p}]
      /\ ahead' = [ahead EXCEPT ![c] = tails[p.id]] /\ tails' = [tails EXCEPT ![p.id] = c]
  BY DEF Enter, Goto
<1>2. /\ pc'[c] = "waiting" /\ ahead'[c] = tails[p.id]
      /\ \A b \in Calls \ {c} : pc'[b] = pc[b] /\ ahead'[b] = ahead[b]
  BY <1>1 DEF TypeOK
<1>3. IdOf(c)' = p.id /\ \A b \in Calls \ {c} : IdOf(b)' = IdOf(b)
  BY <1>1 DEF IdOf, PayloadOf, TypeOK
<1>4. pc[c] \notin Live /\ pc[c] \notin Ends /\ pc'[c] \in Live
  BY <1>1, <1>2 DEF Live, Holding, Ends
<1>5. \A b \in released' : pc'[b] \in Ends
  BY <1>1, <1>2, <1>4 DEF LineInv, TypeOK
<1>6. ASSUME NEW i \in Ids PROVE \E s \in Seq(Calls) : Line(i, s)'
  <2>1. PICK s \in Seq(Calls) : Line(i, s)
    BY DEF LineInv
  <2>2. Len(s) \in Nat /\ \A k \in 1..Len(s) : s[k] \in Calls /\ s[k] # c
    BY <1>4, <2>1 DEF Line
  <2>3. \A k \in 2..Len(s) : (ahead[s[k]] = s[k - 1] /\ pc[s[k]] = "waiting")'
    BY <1>2, <2>1, <2>2 DEF Line
  <2>4. (Len(s) # 0 => MyTurn(s[1]))'
    BY <1>1, <1>2, <2>1, <2>2 DEF Line, MyTurn
  <2>5. CASE i # p.id
    <3>1. tails'[i] = tails[i]
      BY <1>1, <2>5 DEF TypeOK
    <3>2. \A b \in Calls : (pc[b] \in Live /\ IdOf(b) = i)' <=> \E k \in 1..Len(s) : s[k] = b
      <4> TAKE b \in Calls
      <4>1. CASE b = c
        BY <1>3, <2>2, <2>5, <4>1
      <4>2. CASE b # c
        BY <1>2, <1>3, <2>1, <4>2 DEF Line, Live, Holding
      <4> QED BY <4>1, <4>2
    <3> QED BY <2>1, <2>3, <2>4, <3>1, <3>2 DEF Line
  <2>6. CASE i = p.id
    <3> DEFINE t == Append(s, c)
    <3>1. /\ t \in Seq(Calls) /\ Len(t) = Len(s) + 1 /\ t[Len(s) + 1] = c
          /\ \A k \in 1..Len(s) : t[k] = s[k]
      BY <2>2
    <3> HIDE DEF t
    <3>2. \A b \in Calls : (pc[b] \in Live /\ IdOf(b) = i)' <=> \E k \in 1..Len(t) : t[k] = b
      <4> TAKE b \in Calls
      <4>1. CASE b = c
        BY <1>2, <1>3, <1>4, <2>2, <2>6, <3>1, <4>1
      <4>2. CASE b # c
        <5>1. (pc[b] \in Live /\ IdOf(b) = i)' <=> \E k \in 1..Len(s) : s[k] = b
          BY <1>2, <1>3, <2>1, <4>2 DEF Line, Live, Holding
        <5>2. (\E k \in 1..Len(s) : s[k] = b) <=> \E k \in 1..Len(t) : t[k] = b
          BY <2>2, <3>1, <4>2
        <5> QED BY <5>1, <5>2
      <4> QED BY <4>1, <4>2
    <3>3. \A k, l \in 1..Len(t) : t[k] = t[l] => k = l
      BY <2>1, <2>2, <3>1 DEF Line
    <3>4. tails'[i] = t[Len(t)] /\ Len(t) # 0
      BY <1>1, <2>2, <2>6, <3>1 DEF TypeOK
    <3>5. MyTurn(t[1])'
      <4>1. CASE Len(s) = 0
        BY <1>2, <2>1, <2>6, <3>1, <4>1 DEF Line, MyTurn
      <4>2. CASE Len(s) # 0
        <5>1. t[1] = s[1]
          BY <2>2, <3>1, <4>2
        <5> QED BY <2>4, <4>2, <5>1 DEF MyTurn
      <4> QED BY <4>1, <4>2
    <3>6. \A k \in 2..Len(t) : (ahead[t[k]] = t[k - 1] /\ pc[t[k]] = "waiting")'
      <4> TAKE k \in 2..Len(t)
      <4>1. CASE k = Len(t)
        <5>1. k - 1 = Len(s) /\ Len(s) \in 1..Len(s) /\ t[k] = c /\ t[k - 1] = s[Len(s)]
          BY <2>2, <3>1, <4>1
        <5>2. tails[i] = s[Len(s)]
          BY <2>1, <5>1 DEF Line
        <5> QED BY <1>2, <2>6, <5>1, <5>2
      <4>2. CASE k # Len(t)
        <5>1. k \in 2..Len(s) /\ t[k] = s[k] /\ t[k - 1] = s[k - 1]
          BY <2>2, <3>1, <4>2
        <5> QED BY <2>3, <5>1
      <4> QED BY <4>1, <4>2
    <3> QED BY <3>1, <3>2, <3>3, <3>4, <3>5, <3>6 DEF Line
  <2> QED BY <2>5, <2>6
<1> QED BY <1>5, <1>6 DEF LineInv

(* A restart empties every line; and most steps leave the mutex alone.      *)
LEMMA CrashKeepsLine ==
  ASSUME TypeOK, LineInv, Crash
  PROVE  LineInv'
<1>1. /\ pc' = [c \in Calls |-> IF pc[c] \in Live THEN "dead" ELSE pc[c]]
      /\ tails' = [i \in Ids |-> NoCall] /\ released' = released
  BY DEF Crash
<1>2. \A c \in Calls : pc'[c] \notin Live /\ (pc[c] \in Ends => pc'[c] \in Ends)
  BY <1>1 DEF TypeOK, Live, Holding, Ends
<1>3. \A i \in Ids : Line(i, <<>>)'
  BY <1>1, <1>2 DEF Line
<1>4. <<>> \in Seq(Calls)
  OBVIOUS
<1> QED BY <1>1, <1>2, <1>3, <1>4 DEF LineInv, TypeOK

LEMMA SameLine ==
  ASSUME LineInv, UNCHANGED <<pc, input, mutex>>
  PROVE  LineInv'
<1>1. UNCHANGED <<pc, input, tails, ahead, released>>
  BY DEF mutex
<1>2. ASSUME NEW i, NEW s, Line(i, s) PROVE Line(i, s)'
  <2>1. \A c \in Calls : IdOf(c)' = IdOf(c)
    BY <1>1 DEF IdOf, PayloadOf
  <2>2. MyTurn(s[1])' <=> MyTurn(s[1])
    BY <1>1 DEF MyTurn
  <2> QED BY <1>1, <1>2, <2>1, <2>2 DEF Line
<1> QED BY <1>1, <1>2 DEF LineInv

(* A refused call never was in line.                                        *)
LEMMA MalformedKeepsLine ==
  ASSUME TypeOK, LineInv, NEW c \in Calls, NEW p \in Payloads, Malformed(c, p)
  PROVE  LineInv'
<1>1. /\ pc[c] = "new" /\ pc' = [pc EXCEPT ![c] = "refused"]
      /\ input' = [input EXCEPT ![c] = {p}] /\ UNCHANGED <<tails, ahead, released>>
  BY DEF Malformed, Goto, mutex
<1>2. pc'[c] = "refused" /\ \A b \in Calls \ {c} : pc'[b] = pc[b] /\ IdOf(b)' = IdOf(b)
  BY <1>1 DEF TypeOK, IdOf, PayloadOf
<1>3. pc[c] \notin Live /\ pc[c] \notin Ends /\ pc'[c] \notin Live
  BY <1>1, <1>2 DEF Live, Holding, Ends
<1>4. ASSUME NEW i \in Ids, NEW s \in Seq(Calls), Line(i, s) PROVE Line(i, s)'
  <2>1. \A b \in Calls : (pc[b] \in Live /\ IdOf(b) = i)' <=> (pc[b] \in Live /\ IdOf(b) = i)
    BY <1>2, <1>3 DEF Live, Holding
  <2>2. \A k \in 1..Len(s) : s[k] # c
    BY <1>3, <1>4 DEF Line
  <2>3. \A k \in 2..Len(s) : (ahead[s[k]] = s[k - 1] /\ pc[s[k]] = "waiting")'
    BY <1>1, <1>2, <1>4, <2>2 DEF Line
  <2>4. (Len(s) # 0 => MyTurn(s[1]))'
    BY <1>1, <1>4 DEF Line, MyTurn
  <2> QED BY <1>1, <1>4, <2>1, <2>3, <2>4 DEF Line
<1> QED BY <1>1, <1>2, <1>3, <1>4 DEF LineInv, TypeOK, Ends

-----------------------------------------------------------------------------
(* The rows and the decisions.                                              *)

LEMMA SoundStays ==
  ASSUME evidence \subseteq evidence', matches \subseteq matches', NEW d, Sound(d)
  PROVE  Sound(d)'
BY DEF Sound, Good

LEMMA DecisionsHaveType ==
  ASSUME TypeOK
  PROVE  \A d \in Range(ledger) : d \in [id : Ids, verdict : Verdicts] /\ d.id \in Ids
<1> DEFINE Decisions == [id : Ids, verdict : Verdicts]
<1>1. ledger \in Seq(Decisions)
  BY DEF TypeOK
<1>2. \A d \in Decisions : d.id \in Ids
  OBVIOUS
<1> HIDE DEF Decisions
<1>3. \A k \in DOMAIN ledger : ledger[k] \in Decisions
  BY <1>1
<1>4. \A d \in Range(ledger) : d \in Decisions
  BY <1>3 DEF Range
<1> QED BY <1>2, <1>4 DEF Decisions

(* What has to be shown of a step that appends no decision: of the calls C  *)
(* that move, what each relies on next; of the rows, that they stay.        *)
LEMMA StepKeeps ==
  ASSUME IInv, NEW C, C \subseteq Calls,
         ledger' = ledger, evidence \subseteq evidence', OneRow', matches \subseteq matches',
         lateVerdicts' \subseteq Range(ledger),
         faults' = faults \/ faults' # 0,
         \A i \in Ids : \/ verifications'[i] = verifications[i]
                        \/ /\ verifications[i] = "none" /\ verifications'[i] # "none"
                           /\ Decision(i, verifications'[i]) \in Range(ledger),
         \A b \in Calls \ C : /\ pc'[b] = pc[b] /\ PayloadOf(b)' = PayloadOf(b)
                              /\ verdict'[b] = verdict[b],
         \A c \in C : CallInv!(c)',
         \A c \in C : faults' = 0 =>
           /\ pc'[c] \in Holding \ {"saveVerification"} => \A d \in Range(ledger) : d.id # IdOf(c)'
           /\ pc[c] = "saveVerification" => verifications'[IdOf(c)] # "none"
  PROVE  OneRow' /\ CallInv' /\ LedgerInv' /\ OnceInv'
<1>1. /\ CallInv /\ LedgerInv /\ OnceInv
      /\ \A d \in Range(ledger) : d.id \in Ids
  BY DecisionsHaveType DEF IInv
<1>2. \A b \in Calls \ C : IdOf(b)' = IdOf(b)
  BY DEF IdOf
<1>3. \A d : Sound(d) => Sound(d)'
  BY SoundStays
<1>4. CallInv'
  <2> SUFFICES ASSUME NEW b \in Calls \ C PROVE CallInv!(b)'
    BY DEF CallInv
  <2>1. CallInv!(b)
    BY <1>1 DEF CallInv
  <2>2. Decision(IdOf(b), verdict[b])' = Decision(IdOf(b), verdict[b])
    BY <1>2 DEF Decision
  <2> QED BY <1>3, <2>1, <2>2
<1>5. LedgerInv'
  <2>1. \A i \in Ids : verifications'[i] # "none" => Decision(i, verifications'[i]) \in Range(ledger)
    BY <1>1 DEF LedgerInv
  <2>2. \A d \in Range(ledger) : Sound(d)' /\ \E p \in evidence' : p.id = d.id
    BY <1>1, <1>3 DEF LedgerInv
  <2> QED BY <2>1, <2>2 DEF LedgerInv, Decision
<1>6. OnceInv'
  <2> SUFFICES ASSUME faults' = 0 PROVE OnceInv!2'
    BY DEF OnceInv
  <2>1. OnceInv!2
    BY <1>1 DEF OnceInv
  <2>2. ASSUME NEW b \in Calls, pc'[b] \in Holding \ {"saveVerification"}, NEW d \in Range(ledger)
        PROVE  d.id # IdOf(b)'
    BY <1>2, <2>1, <2>2
  <2>3. ASSUME NEW d \in Range(ledger), verifications'[d.id] = "none"
        PROVE  \E b \in Calls : pc'[b] = "saveVerification" /\ IdOf(b)' = d.id
    <3>1. d.id \in Ids /\ verifications[d.id] = "none"
      BY <1>1, <2>3
    <3>2. PICK b \in Calls : pc[b] = "saveVerification" /\ IdOf(b) = d.id
      BY <2>1, <3>1
    <3> QED BY <1>2, <2>3, <3>2
  <2> QED BY <2>1, <2>2, <2>3
<1> QED BY <1>4, <1>5, <1>6

(* The same of a step of one call.                                          *)
LEMMA CallKeeps ==
  ASSUME IInv, NEW c \in Calls,
         ledger' = ledger, evidence \subseteq evidence', OneRow', matches' = matches,
         lateVerdicts' \subseteq Range(ledger),
         faults' = faults \/ faults' # 0,
         \A i \in Ids : \/ verifications'[i] = verifications[i]
                        \/ /\ verifications[i] = "none" /\ verifications'[i] # "none"
                           /\ Decision(i, verifications'[i]) \in Range(ledger),
         \A b \in Calls \ {c} : /\ pc'[b] = pc[b] /\ PayloadOf(b)' = PayloadOf(b)
                                /\ verdict'[b] = verdict[b],
         CallInv!(c)',
         faults' = 0 =>
           /\ pc'[c] \in Holding \ {"saveVerification"} => \A d \in Range(ledger) : d.id # IdOf(c)'
           /\ pc[c] = "saveVerification" => verifications'[IdOf(c)] # "none"
  PROVE  OneRow' /\ CallInv' /\ LedgerInv' /\ OnceInv'
<1> DEFINE C == {c}
<1>1. \A b \in C : b = c
  OBVIOUS
<1>2. C \subseteq Calls /\ \A b \in Calls \ C : b \in Calls \ {c}
  OBVIOUS
<1> HIDE DEF C
<1>3. \A b \in C : CallInv!(b)'
  BY <1>1
<1>4. \A b \in C : faults' = 0 =>
        /\ pc'[b] \in Holding \ {"saveVerification"} => \A d \in Range(ledger) : d.id # IdOf(b)'
        /\ pc[b] = "saveVerification" => verifications'[IdOf(b)] # "none"
  BY <1>1
<1> QED BY <1>2, <1>3, <1>4, StepKeeps

(* Inserting evidence keeps one row for an id and for a photo.              *)
LEMMA AfterInsertKeepsOneRow ==
  ASSUME OneRow, NEW p, evidence' \in {evidence, AfterInsert(p)}
  PROVE  OneRow' /\ evidence \subseteq evidence'
BY DEF OneRow, AfterInsert, RowsOf, PhotoUsed

LEMMA InitIInv == Init => IInv
<1> SUFFICES ASSUME Init PROVE IInv
  OBVIOUS
<1> USE DEF Init
<1>1. TypeOK
  BY MaxFaultsAssumption DEF TypeOK
<1>2. LineInv
  <2>1. \A i \in Ids : Line(i, <<>>)
    BY DEF Line, Live, Holding
  <2>2. <<>> \in Seq(Calls)
    OBVIOUS
  <2> QED BY <2>1, <2>2 DEF LineInv
<1>3. Range(ledger) = {}
  BY DEF Range
<1>4. InputInv /\ OneRow /\ CallInv
  BY DEF InputInv, OneRow, CallInv
<1>5. LedgerInv /\ OnceInv
  BY <1>3 DEF LedgerInv, OnceInv, Holding
<1> QED BY <1>1, <1>2, <1>4, <1>5 DEF IInv

(* A call comes in: refused at once, or put in line.                        *)
LEMMA ArrivalKeeps ==
  ASSUME IInv, NEW c \in Calls, NEW p \in Payloads, Malformed(c, p) \/ Enter(c, p)
  PROVE  IInv'
<1> USE DEF IInv
<1>1. /\ pc[c] = "new" /\ input' = [input EXCEPT ![c] = {p}]
      /\ \/ pc' = [pc EXCEPT ![c] = "refused"]
         \/ pc' = [pc EXCEPT ![c] = "waiting"]
      /\ UNCHANGED <<evidence, verifications, matches, ledger, lateClaims, lateVerdicts,
                     model, verdict, released, faults>>
  BY DEF Malformed, Enter, Goto, db, late, mutex
<1>2. /\ pc'[c] \in {"refused", "waiting"} /\ PayloadOf(c)' = p
      /\ \A b \in Calls \ {c} : pc'[b] = pc[b] /\ PayloadOf(b)' = PayloadOf(b) /\ input'[b] = input[b]
  BY <1>1 DEF TypeOK, PayloadOf
<1>3. TypeOK'
  <2>1. pc' \in [Calls -> Live \cup Ends \cup {"new"}] /\ input' \in [Calls -> SUBSET Payloads]
    BY <1>1 DEF TypeOK, Live, Ends
  <2>2. p.id \in Ids
    BY PayloadsAssumption DEF PayloadType
  <2>3. tails' \in [Ids -> Calls \cup {NoCall}] /\ ahead' \in [Calls -> Calls \cup {NoCall}]
    BY <2>2 DEF Malformed, Enter, mutex, TypeOK
  <2> QED BY <1>1, <2>1, <2>3 DEF TypeOK
<1>4. LineInv'
  BY MalformedKeepsLine, EnterKeepsLine
<1>5. InputInv'
  BY <1>1, <1>2 DEF InputInv, TypeOK
<1>6. OneRow' /\ lateVerdicts' \subseteq Range(ledger)
  BY <1>1 DEF OneRow, LedgerInv
<1>7. CallInv!(c)'
  BY <1>2
<1> QED BY <1>1, <1>2, <1>3, <1>4, <1>5, <1>6, <1>7, CallKeeps DEF Holding

(* What a call that has the turn may rely on.                               *)
LEMMA TurnFacts ==
  ASSUME IInv, NEW c \in Calls, HasTurn(c)
  PROVE  /\ pc[c] \in Live /\ pc[c] # "new" /\ pc[c] \notin Ends
         /\ PayloadOf(c) \in Payloads /\ input[c] = {PayloadOf(c)}
         /\ IdOf(c) \in Ids /\ IdOf(c) = PayloadOf(c).id
         /\ \A b \in Calls : HasTurn(b) /\ IdOf(b) = IdOf(c) => b = c
<1>1. pc[c] \in Live /\ pc[c] # "new" /\ pc[c] \notin Ends
  BY DEF HasTurn, Live, Holding, Ends
<1>2. PayloadOf(c) \in Payloads /\ input[c] = {PayloadOf(c)}
  BY <1>1 DEF IInv, InputInv
<1>3. IdOf(c) \in Ids /\ IdOf(c) = PayloadOf(c).id
  BY <1>2, PayloadsAssumption DEF IdOf, PayloadType
<1>4. \A b \in Calls : HasTurn(b) /\ IdOf(b) = IdOf(c) => b = c
  BY OneTurn DEF IInv
<1> QED BY <1>1, <1>2, <1>3, <1>4

(* What is of a type, and stays as it was, when a call ends or goes on.     *)
LEMMA MoveTypes ==
  ASSUME IInv, NEW c \in Calls, HasTurn(c), input' = input,
         NEW step \in Holding \cup Ends,
         \/ step \in Ends /\ End(c, step)
         \/ step \in Holding /\ Continue(c, step)
  PROVE  /\ pc' \in [Calls -> Live \cup Ends \cup {"new"}]
         /\ tails' \in [Ids -> Calls \cup {NoCall}]
         /\ ahead' \in [Calls -> Calls \cup {NoCall}]
         /\ released' \subseteq Calls
         /\ pc'[c] = step
         /\ \A b \in Calls \ {c} : pc'[b] = pc[b]
         /\ \A b \in Calls : PayloadOf(b)' = PayloadOf(b) /\ IdOf(b)' = IdOf(b)
         /\ LineInv' /\ InputInv'
<1> USE DEF IInv
<1>1. pc' = [pc EXCEPT ![c] = step]
  BY DEF End, Continue, Goto
<1>2. pc' \in [Calls -> Live \cup Ends \cup {"new"}]
  BY <1>1 DEF TypeOK, Live
<1>3. /\ tails' \in [Ids -> Calls \cup {NoCall}] /\ ahead' \in [Calls -> Calls \cup {NoCall}]
      /\ released' \subseteq Calls
  BY TurnFacts DEF End, Continue, mutex, TypeOK
<1>4. pc'[c] = step /\ \A b \in Calls \ {c} : pc'[b] = pc[b]
  BY <1>1 DEF TypeOK
<1>5. \A b \in Calls : PayloadOf(b)' = PayloadOf(b) /\ IdOf(b)' = IdOf(b)
  BY DEF PayloadOf, IdOf
<1>6. LineInv'
  BY EndKeepsLine, ContinueKeepsLine
<1>7. InputInv'
  <2>1. pc[c] # "new" /\ step # "new"
    BY TurnFacts DEF Holding, Ends
  <2> QED BY <1>4, <1>5, <2>1 DEF InputInv
<1> QED BY <1>2, <1>3, <1>4, <1>5, <1>6, <1>7

(* What has to be shown of a step of a call that has the turn, unless it    *)
(* appends a decision.                                                      *)
LEMMA TurnStepKeeps ==
  ASSUME IInv, NEW c \in Calls, HasTurn(c), input' = input,
         NEW step \in Holding \cup Ends,
         \/ step \in Ends /\ End(c, step)
         \/ step \in Holding /\ Continue(c, step),
         ledger' = ledger, matches' = matches, model' = model,
         evidence \subseteq evidence', evidence' \subseteq Payloads, OneRow',
         lateClaims' \subseteq Payloads, lateVerdicts' \subseteq Range(ledger),
         verifications' \in [Ids -> Verdicts \cup {"none"}],
         verdict' \in [Calls -> Verdicts \cup {"none"}],
         \A b \in Calls \ {c} : verdict'[b] = verdict[b],
         faults' \in 0..MaxFaults, faults' = faults \/ faults' # 0,
         \A i \in Ids : \/ verifications'[i] = verifications[i]
                        \/ /\ verifications[i] = "none" /\ verifications'[i] # "none"
                           /\ Decision(i, verifications'[i]) \in Range(ledger),
         step \in {"assess", "appendDecision", "saveVerification"} => PayloadOf(c) \in evidence',
         step = "appendDecision" =>
           verdict'[c] \in Verdicts /\ Sound(Decision(IdOf(c), verdict[c]))',
         step = "saveVerification" => Decision(IdOf(c), verdict[c])' \in Range(ledger),
         faults' = 0 =>
           /\ step \in Holding \ {"saveVerification"} => \A d \in Range(ledger) : d.id # IdOf(c)
           /\ pc[c] = "saveVerification" => verifications'[IdOf(c)] # "none"
  PROVE  IInv'
<1>1. /\ pc' \in [Calls -> Live \cup Ends \cup {"new"}]
      /\ tails' \in [Ids -> Calls \cup {NoCall}]
      /\ ahead' \in [Calls -> Calls \cup {NoCall}]
      /\ released' \subseteq Calls
      /\ pc'[c] = step
      /\ \A b \in Calls \ {c} : pc'[b] = pc[b]
      /\ \A b \in Calls : PayloadOf(b)' = PayloadOf(b) /\ IdOf(b)' = IdOf(b)
      /\ LineInv' /\ InputInv'
  BY MoveTypes
<1>2. TypeOK'
  BY <1>1, DecisionsHaveType DEF IInv, TypeOK
<1>3. CallInv!(c)'
  BY <1>1
<1>4. OneRow' /\ CallInv' /\ LedgerInv' /\ OnceInv'
  BY <1>1, <1>3, CallKeeps
<1> QED BY <1>1, <1>2, <1>4 DEF IInv

LEMMA FindPriorKeeps ==
  ASSUME IInv, NEW c \in Calls, FindPrior(c)
  PROVE  IInv'
<1> USE DEF IInv
<1>1. /\ pc[c] = "waiting" /\ HasTurn(c)
      /\ UNCHANGED <<evidence, verifications, matches, ledger, lateClaims, lateVerdicts,
                     model, input, faults>>
  BY DEF FindPrior, HasTurn, db, late
<1>2. PICK step \in Holding \cup Ends :
        /\ \/ step \in Ends /\ End(c, step)
           \/ step \in Holding /\ Continue(c, step)
        /\ step \in Holding => step \in {"findByImageHash", "assess"}
        /\ step = "findByImageHash" => RowsOf(IdOf(c)) = {}
        /\ step = "assess" => SameEvidence(c) /\ verifications[IdOf(c)] = "none"
        /\ verdict' \in {verdict, [verdict EXCEPT ![c] = verifications[IdOf(c)]]}
  BY DEF FindPrior, Ends, Holding
<1>3. /\ PayloadOf(c) \in Payloads /\ input[c] = {PayloadOf(c)} /\ IdOf(c) \in Ids
      /\ \A b \in Calls : HasTurn(b) /\ IdOf(b) = IdOf(c) => b = c
  BY <1>1, TurnFacts
<1>4. /\ verdict' \in [Calls -> Verdicts \cup {"none"}]
      /\ \A b \in Calls \ {c} : verdict'[b] = verdict[b]
  BY <1>2, <1>3 DEF TypeOK
<1>5. step = "assess" => PayloadOf(c) \in evidence'
  BY <1>1, <1>2, <1>3 DEF SameEvidence, RowsOf
<1>6. ASSUME faults' = 0, NEW d \in Range(ledger), d.id = IdOf(c),
             step \in {"findByImageHash", "assess"}
      PROVE  FALSE
  <2>1. CASE step = "findByImageHash"
    BY <1>2, <1>6, <2>1 DEF LedgerInv, RowsOf
  <2>2. CASE step = "assess"
    <3>1. PICK b \in Calls : pc[b] = "saveVerification" /\ IdOf(b) = IdOf(c)
      BY <1>1, <1>2, <1>6, <2>2 DEF OnceInv
    <3>2. HasTurn(b)
      BY <3>1 DEF HasTurn, Holding
    <3> QED BY <1>1, <1>3, <3>1, <3>2
  <2> QED BY <1>6, <2>1, <2>2
<1>7. /\ evidence' \subseteq Payloads /\ lateClaims' \subseteq Payloads /\ OneRow'
      /\ lateVerdicts' \subseteq Range(ledger) /\ faults' \in 0..MaxFaults
      /\ verifications' \in [Ids -> Verdicts \cup {"none"}]
  BY <1>1 DEF TypeOK, OneRow, LedgerInv
<1>8. step \in Holding => step # "appendDecision" /\ step # "saveVerification"
  BY <1>2
<1>9. step # "appendDecision" /\ step # "saveVerification"
  BY <1>8 DEF Ends, Holding
<1> QED BY <1>1, <1>2, <1>4, <1>5, <1>6, <1>7, <1>9, TurnStepKeeps

LEMMA FindByImageHashKeeps ==
  ASSUME IInv, NEW c \in Calls, FindByImageHash(c)
  PROVE  IInv'
<1> USE DEF IInv
<1>1. /\ pc[c] = "findByImageHash" /\ HasTurn(c)
      /\ UNCHANGED <<evidence, verifications, matches, ledger, lateClaims, lateVerdicts,
                     model, input, verdict, faults>>
  BY DEF FindByImageHash, HasTurn, Holding, db, late
<1>2. PICK step \in {"refused", "claimEvidence"} :
        /\ step = "refused" => End(c, step)
        /\ step = "claimEvidence" => Continue(c, step)
  BY DEF FindByImageHash
<1>3. /\ step \in Holding \cup Ends
      /\ \/ step \in Ends /\ End(c, step)
         \/ step \in Holding /\ Continue(c, step)
  BY <1>2 DEF Holding, Ends
<1>4. /\ evidence' \subseteq Payloads /\ lateClaims' \subseteq Payloads /\ OneRow'
      /\ lateVerdicts' \subseteq Range(ledger) /\ faults' \in 0..MaxFaults
      /\ verifications' \in [Ids -> Verdicts \cup {"none"}]
      /\ verdict' \in [Calls -> Verdicts \cup {"none"}]
  BY <1>1 DEF TypeOK, OneRow, LedgerInv
<1>5. faults' = 0 => \A d \in Range(ledger) : d.id # IdOf(c)
  BY <1>1 DEF OnceInv, Holding
<1> QED BY <1>1, <1>2, <1>3, <1>4, <1>5, TurnStepKeeps

LEMMA ClaimEvidenceKeeps ==
  ASSUME IInv, NEW c \in Calls, ClaimEvidence(c)
  PROVE  IInv'
<1> USE DEF IInv
<1>1. /\ pc[c] = "claimEvidence" /\ HasTurn(c)
      /\ evidence' = AfterInsert(PayloadOf(c))
      /\ UNCHANGED <<verifications, matches, ledger, lateClaims, lateVerdicts,
                     model, input, verdict, faults>>
  BY DEF ClaimEvidence, HasTurn, Holding, late
<1>2. PICK step \in {"refused", "assess"} :
        /\ step = "refused" => End(c, step)
        /\ step = "assess" => Continue(c, step) /\ evidence' # evidence
  BY DEF ClaimEvidence
<1>3. /\ step \in Holding \cup Ends
      /\ \/ step \in Ends /\ End(c, step)
         \/ step \in Holding /\ Continue(c, step)
  BY <1>2 DEF Holding, Ends
<1>4. PayloadOf(c) \in Payloads
  BY <1>1, TurnFacts
<1>5. evidence \subseteq evidence' /\ OneRow'
  BY <1>1, AfterInsertKeepsOneRow
<1>6. evidence' \subseteq Payloads /\ (step = "assess" => PayloadOf(c) \in evidence')
  BY <1>1, <1>2, <1>4 DEF AfterInsert, TypeOK
<1>7. /\ lateClaims' \subseteq Payloads
      /\ lateVerdicts' \subseteq Range(ledger) /\ faults' \in 0..MaxFaults
      /\ verifications' \in [Ids -> Verdicts \cup {"none"}]
      /\ verdict' \in [Calls -> Verdicts \cup {"none"}]
  BY <1>1 DEF TypeOK, LedgerInv
<1>8. faults' = 0 => \A d \in Range(ledger) : d.id # IdOf(c)
  BY <1>1 DEF OnceInv, Holding
<1> QED BY <1>1, <1>2, <1>3, <1>5, <1>6, <1>7, <1>8, TurnStepKeeps

LEMMA AssessKeeps ==
  ASSUME IInv, NEW c \in Calls, Assess(c)
  PROVE  IInv'
<1> USE DEF IInv
<1> DEFINE v == VerdictOn(PayloadOf(c))
<1>1. /\ pc[c] = "assess" /\ HasTurn(c) /\ Continue(c, "appendDecision")
      /\ verdict' = [verdict EXCEPT ![c] = v]
      /\ UNCHANGED <<evidence, verifications, matches, ledger, lateClaims, lateVerdicts,
                     model, input, faults>>
  BY DEF Assess, HasTurn, Holding, db, late
<1>2. PayloadOf(c) \in evidence
  BY <1>1 DEF CallInv
<1>3. v \in Verdicts /\ Sound(Decision(IdOf(c), v))
  <2>1. v \in Verdicts
    BY DEF VerdictOn, Verdicts
  <2>2. v = "accepted" => Good(PayloadOf(c))
    <3>1. PayloadOf(c) \in PayloadType
      BY <1>1, TurnFacts, PayloadsAssumption
    <3>2. PayloadOf(c).look \in {"good_char", "poor_char", "not_char"}
      BY <3>1 DEF PayloadType
    <3> QED BY <3>2 DEF VerdictOn, Good
  <2> HIDE DEF v
  <2> QED BY <1>2, <2>1, <2>2 DEF Sound, Decision, IdOf
<1> HIDE DEF v
<1>4. /\ evidence' \subseteq Payloads /\ lateClaims' \subseteq Payloads /\ OneRow'
      /\ lateVerdicts' \subseteq Range(ledger) /\ faults' \in 0..MaxFaults
      /\ verifications' \in [Ids -> Verdicts \cup {"none"}]
  BY <1>1 DEF TypeOK, OneRow, LedgerInv
<1>5. /\ verdict' \in [Calls -> Verdicts \cup {"none"}] /\ verdict'[c] = v
      /\ \A b \in Calls \ {c} : verdict'[b] = verdict[b]
  BY <1>1, <1>3 DEF TypeOK
<1>6. faults' = 0 => \A d \in Range(ledger) : d.id # IdOf(c)
  BY <1>1 DEF OnceInv, Holding
<1>7. "appendDecision" \in Holding
  BY DEF Holding
<1>8. Sound(Decision(IdOf(c), verdict[c]))'
  <2>1. IdOf(c)' = IdOf(c)
    BY <1>1 DEF IdOf, PayloadOf
  <2> QED BY <1>1, <1>3, <1>5, <2>1 DEF Sound, Good, Decision
<1> QED BY <1>1, <1>2, <1>3, <1>4, <1>5, <1>6, <1>7, <1>8, TurnStepKeeps

LEMMA SaveVerificationKeeps ==
  ASSUME IInv, NEW c \in Calls, SaveVerification(c)
  PROVE  IInv'
<1> USE DEF IInv
<1> DEFINE d == Decision(IdOf(c), verdict[c])
<1>1. /\ pc[c] = "saveVerification" /\ HasTurn(c) /\ End(c, "done")
      /\ verifications' = AfterSave(d)
      /\ UNCHANGED <<evidence, matches, ledger, lateClaims, lateVerdicts,
                     model, input, verdict, faults>>
  BY DEF SaveVerification, HasTurn, Holding, late
<1>2. d \in Range(ledger) /\ d.id = IdOf(c) /\ d.verdict = verdict[c]
  BY <1>1 DEF CallInv, Decision
<1>3. d \in [id : Ids, verdict : Verdicts] /\ d.id \in Ids /\ d.verdict \in Verdicts
  BY <1>2, DecisionsHaveType
<1>4. d.verdict # "none" /\ Decision(d.id, d.verdict) = d
  BY <1>3 DEF Verdicts, Decision
<1> HIDE DEF d
<1>5. /\ verifications' \in [Ids -> Verdicts \cup {"none"}]
      /\ verifications'[d.id] # "none"
      /\ \A i \in Ids : \/ verifications'[i] = verifications[i]
                       \/ /\ verifications[i] = "none" /\ verifications'[i] # "none"
                          /\ Decision(i, verifications'[i]) \in Range(ledger)
  BY <1>1, <1>2, <1>3, <1>4 DEF AfterSave, TypeOK
<1>6. /\ evidence' \subseteq Payloads /\ lateClaims' \subseteq Payloads /\ OneRow'
      /\ lateVerdicts' \subseteq Range(ledger) /\ faults' \in 0..MaxFaults
      /\ verdict' \in [Calls -> Verdicts \cup {"none"}]
  BY <1>1 DEF TypeOK, OneRow, LedgerInv
<1>7. "done" \in Ends /\ "done" \notin Holding
  BY DEF Ends, Holding
<1> QED BY <1>1, <1>2, <1>5, <1>6, <1>7, TurnStepKeeps

LEMMA FailKeeps ==
  ASSUME IInv, NEW c \in Calls, Fail(c)
  PROVE  IInv'
<1> USE DEF IInv
<1>1. /\ HasTurn(c) /\ End(c, "failed") /\ GiveUp({c})
      /\ UNCHANGED <<evidence, verifications, matches, ledger, model, input, verdict>>
  BY DEF Fail
<1>2. /\ lateClaims' \subseteq Payloads /\ lateVerdicts' \subseteq Range(ledger)
      /\ faults' \in 0..MaxFaults /\ faults' # 0
  <2>1. faults \in Nat /\ faults < MaxFaults /\ faults' = faults + 1 /\ MaxFaults \in Nat
    BY <1>1, MaxFaultsAssumption DEF GiveUp, TypeOK
  <2>2. input[c] \subseteq Payloads /\ lateClaims' \subseteq lateClaims \cup input[c]
    BY <1>1 DEF GiveUp, TypeOK
  <2>3. lateVerdicts' \subseteq Range(ledger)
    BY <1>1 DEF GiveUp, CallInv, LedgerInv
  <2> QED BY <2>1, <2>2, <2>3 DEF TypeOK
<1>3. /\ evidence' \subseteq Payloads /\ OneRow'
      /\ verifications' \in [Ids -> Verdicts \cup {"none"}]
      /\ verdict' \in [Calls -> Verdicts \cup {"none"}]
  BY <1>1 DEF TypeOK, OneRow
<1>4. "failed" \in Ends /\ "failed" \notin Holding
  BY DEF Ends, Holding
<1>5. "failed" \notin {"assess", "appendDecision", "saveVerification"}
  OBVIOUS
<1> QED BY <1>1, <1>2, <1>3, <1>4, <1>5, TurnStepKeeps

(* The decision is recorded, once while nothing fails.                      *)
LEMMA AppendDecisionKeeps ==
  ASSUME IInv, NEW c \in Calls, AppendDecision(c)
  PROVE  IInv'
<1> USE DEF IInv
<1> DEFINE d == Decision(IdOf(c), verdict[c])
<1>1. /\ pc[c] = "appendDecision" /\ HasTurn(c) /\ Continue(c, "saveVerification")
      /\ ledger' = Append(ledger, d)
      /\ UNCHANGED <<evidence, verifications, matches, lateClaims, lateVerdicts,
                     model, input, verdict, faults>>
  BY DEF AppendDecision, HasTurn, Holding, late
<1>2. /\ PayloadOf(c) \in evidence /\ PayloadOf(c).id = IdOf(c) /\ IdOf(c) \in Ids
      /\ verdict[c] \in Verdicts /\ Sound(d)
      /\ \A b \in Calls : HasTurn(b) /\ IdOf(b) = IdOf(c) => b = c
  BY <1>1, TurnFacts DEF CallInv
<1>3. /\ pc' \in [Calls -> Live \cup Ends \cup {"new"}]
      /\ tails' \in [Ids -> Calls \cup {NoCall}]
      /\ ahead' \in [Calls -> Calls \cup {NoCall}]
      /\ released' \subseteq Calls
      /\ pc'[c] = "saveVerification"
      /\ \A b \in Calls \ {c} : pc'[b] = pc[b]
      /\ \A b \in Calls : PayloadOf(b)' = PayloadOf(b) /\ IdOf(b)' = IdOf(b)
      /\ LineInv' /\ InputInv'
  <2>1. "saveVerification" \in Holding
    BY DEF Holding
  <2> QED BY <1>1, <2>1, MoveTypes
<1>4. d \in [id : Ids, verdict : Verdicts] /\ d.id = IdOf(c)
  BY <1>2 DEF Decision
<1>5. /\ ledger' \in Seq([id : Ids, verdict : Verdicts])
      /\ Range(ledger') = Range(ledger) \cup {d}
      /\ DOMAIN ledger = 1..Len(ledger) /\ DOMAIN ledger' = 1..(Len(ledger) + 1)
      /\ Len(ledger) \in Nat
      /\ ledger'[Len(ledger) + 1] = d
      /\ \A k \in 1..Len(ledger) : ledger'[k] = ledger[k] /\ ledger[k] \in Range(ledger)
  <2> DEFINE Decisions == [id : Ids, verdict : Verdicts]
  <2>1. ledger \in Seq(Decisions) /\ d \in Decisions
    BY <1>4 DEF TypeOK
  <2> HIDE DEF d, Decisions
  <2>2. /\ ledger' \in Seq(Decisions) /\ Len(ledger) \in Nat
        /\ DOMAIN ledger = 1..Len(ledger) /\ DOMAIN ledger' = 1..(Len(ledger) + 1)
        /\ ledger'[Len(ledger) + 1] = d
        /\ \A k \in 1..Len(ledger) : ledger'[k] = ledger[k]
    BY <1>1, <2>1
  <2>3. Range(ledger') = Range(ledger) \cup {d}
    <3>1. ASSUME NEW x \in Range(ledger') PROVE x \in Range(ledger) \cup {d}
      <4>1. PICK k \in 1..(Len(ledger) + 1) : x = ledger'[k]
        BY <2>2 DEF Range
      <4>2. k = Len(ledger) + 1 \/ k \in 1..Len(ledger)
        BY <2>2
      <4> QED BY <2>2, <4>1, <4>2 DEF Range
    <3>2. ASSUME NEW x \in Range(ledger) PROVE x \in Range(ledger')
      <4>1. PICK k \in 1..Len(ledger) : x = ledger[k]
        BY <2>2 DEF Range
      <4>2. k \in DOMAIN ledger' /\ ledger'[k] = x
        BY <2>2, <4>1
      <4> QED BY <4>2 DEF Range
    <3>3. d \in Range(ledger')
      <4>1. Len(ledger) + 1 \in DOMAIN ledger'
        BY <2>2
      <4> QED BY <2>2, <4>1 DEF Range
    <3> QED BY <3>1, <3>2, <3>3
  <2> QED BY <2>2, <2>3 DEF Decisions, Range
<1> HIDE DEF d
<1>6. TypeOK'
  BY <1>1, <1>3, <1>5 DEF TypeOK
<1>7. \A e : Sound(e)' <=> Sound(e)
  BY <1>1 DEF Sound, Good
<1>8. CallInv'
  <2> SUFFICES ASSUME NEW b \in Calls PROVE CallInv!(b)'
    BY DEF CallInv
  <2>1. CallInv!(b)
    BY DEF CallInv
  <2>2. Decision(IdOf(b), verdict[b])' = Decision(IdOf(b), verdict[b])
    BY <1>1, <1>3 DEF Decision
  <2>3. CASE b = c
    BY <1>1, <1>2, <1>3, <1>5, <2>2, <2>3 DEF d
  <2>4. CASE b # c
    BY <1>1, <1>3, <1>5, <1>7, <2>1, <2>2, <2>4
  <2> QED BY <2>3, <2>4
<1>9. LedgerInv'
  BY <1>1, <1>2, <1>4, <1>5, <1>7 DEF LedgerInv, Decision
<1>10. OnceInv'
  <2> SUFFICES ASSUME faults' = 0 PROVE OnceInv!2'
    BY DEF OnceInv
  <2>1. OnceInv!2
    BY <1>1 DEF OnceInv
  <2>2. \A e \in Range(ledger) : e.id # IdOf(c)
    BY <1>1, <2>1 DEF Holding
  <2>3. \A k, l \in DOMAIN ledger' : ledger'[k].id = ledger'[l].id => k = l
    <3> TAKE k, l \in DOMAIN ledger'
    <3>1. \A m \in 1..Len(ledger) : ledger'[m].id # IdOf(c)
      BY <1>5, <2>2
    <3>2. (k = Len(ledger) + 1 \/ k \in 1..Len(ledger)) /\ (l = Len(ledger) + 1 \/ l \in 1..Len(ledger))
      BY <1>5
    <3> QED BY <1>4, <1>5, <2>1, <3>1, <3>2
  <2>4. ASSUME NEW b \in Calls, pc'[b] \in Holding \ {"saveVerification"}, NEW e \in Range(ledger')
        PROVE  e.id # IdOf(b)'
    <3>1. b # c /\ pc[b] \in Holding \ {"saveVerification"} /\ IdOf(b)' = IdOf(b)
      BY <1>3, <2>4
    <3>2. IdOf(b) # IdOf(c)
      BY <1>2, <3>1 DEF HasTurn
    <3> QED BY <1>4, <1>5, <2>1, <3>1, <3>2
  <2>5. ASSUME NEW e \in Range(ledger'), verifications'[e.id] = "none"
        PROVE  \E b \in Calls : pc'[b] = "saveVerification" /\ IdOf(b)' = e.id
    <3>1. CASE e = d
      BY <1>3, <1>4, <3>1
    <3>2. CASE e # d
      <4>1. PICK b \in Calls : pc[b] = "saveVerification" /\ IdOf(b) = e.id
        BY <1>1, <1>5, <2>1, <2>5, <3>2
      <4> QED BY <1>1, <1>3, <4>1
    <3> QED BY <3>1, <3>2
  <2> QED BY <2>3, <2>4, <2>5
<1>11. OneRow'
  BY <1>1 DEF OneRow
<1> QED BY <1>3, <1>6, <1>8, <1>9, <1>10, <1>11

-----------------------------------------------------------------------------
(* A restart, whatever lands late, the matchmaker.                          *)

LEMMA CrashKeeps ==
  ASSUME IInv, Crash
  PROVE  IInv'
<1> USE DEF IInv
<1>1. /\ GiveUp({c \in Calls : pc[c] \in Live})
      /\ pc' = [c \in Calls |-> IF pc[c] \in Live THEN "dead" ELSE pc[c]]
      /\ tails' = [i \in Ids |-> NoCall] /\ model' \in ModelStates
      /\ UNCHANGED <<evidence, verifications, matches, ledger, input, verdict, ahead, released>>
  BY DEF Crash
<1>2. /\ \A c \in Calls : PayloadOf(c)' = PayloadOf(c) /\ IdOf(c)' = IdOf(c)
      /\ \A c \in Calls : pc'[c] \notin Live /\ (pc'[c] = "new" <=> pc[c] = "new")
  BY <1>1 DEF PayloadOf, IdOf, TypeOK, Live, Holding
<1>3. /\ lateClaims' \subseteq Payloads /\ lateVerdicts' \subseteq Range(ledger)
      /\ faults' \in 0..MaxFaults /\ faults' # 0
  <2>1. faults \in Nat /\ faults < MaxFaults /\ faults' = faults + 1 /\ MaxFaults \in Nat
    BY <1>1, MaxFaultsAssumption DEF GiveUp, TypeOK
  <2>2. \A c \in Calls : input[c] \subseteq Payloads
    BY DEF TypeOK
  <2>3. lateVerdicts' \subseteq Range(ledger)
    BY <1>1 DEF GiveUp, CallInv, LedgerInv
  <2> QED BY <1>1, <2>1, <2>2, <2>3 DEF GiveUp, TypeOK
<1>4. TypeOK'
  <2>1. pc' \in [Calls -> Live \cup Ends \cup {"new"}]
    BY <1>1 DEF TypeOK, Ends
  <2>2. lateVerdicts' \subseteq [id : Ids, verdict : Verdicts]
    BY <1>3, DecisionsHaveType
  <2> QED BY <1>1, <1>3, <2>1, <2>2 DEF TypeOK
<1>5. LineInv'
  BY CrashKeepsLine
<1>6. InputInv'
  BY <1>1, <1>2 DEF InputInv
<1>7. \A c \in Calls : CallInv!(c)'
  BY <1>2 DEF Live, Holding
<1>8. OneRow' /\ CallInv' /\ LedgerInv' /\ OnceInv'
  <2>1. OneRow'
    BY <1>1 DEF OneRow
  <2> QED BY <1>1, <1>3, <1>7, <2>1, StepKeeps
<1> QED BY <1>4, <1>5, <1>6, <1>8

(* No call moves.                                                           *)
LEMMA RowsKeep ==
  ASSUME IInv,
         \/ \E p \in Payloads : LandClaim(p)
         \/ \E d \in lateVerdicts : LandVerdict(d)
         \/ \E m \in Matches : MatchAppears(m)
         \/ UNCHANGED vars
  PROVE  IInv'
<1> USE DEF IInv
<1>1. UNCHANGED <<ledger, model, pc, input, verdict, tails, ahead, released, faults>>
  BY DEF LandClaim, LandVerdict, MatchAppears, mutex, vars, db
<1>2. \A c \in Calls : PayloadOf(c)' = PayloadOf(c) /\ IdOf(c)' = IdOf(c)
  BY <1>1 DEF PayloadOf, IdOf
<1>3. /\ evidence' \subseteq Payloads /\ evidence \subseteq evidence' /\ OneRow'
      /\ lateClaims' \subseteq Payloads
  <2>1. CASE \E p \in Payloads : LandClaim(p)
    <3>1. PICK p \in Payloads : lateClaims' = lateClaims \ {p} /\ evidence' \in {evidence, AfterInsert(p)}
      BY <2>1 DEF LandClaim
    <3>2. OneRow' /\ evidence \subseteq evidence'
      BY <3>1, AfterInsertKeepsOneRow
    <3> QED BY <3>1, <3>2 DEF AfterInsert, TypeOK
  <2>2. CASE UNCHANGED <<evidence, lateClaims>>
    BY <2>2 DEF OneRow, TypeOK
  <2> QED BY <2>1, <2>2 DEF LandVerdict, MatchAppears, late, vars, db
<1>4. matches \subseteq matches' /\ matches' \subseteq Matches
  BY DEF LandClaim, LandVerdict, MatchAppears, vars, db, TypeOK
<1>5. /\ lateVerdicts' \subseteq Range(ledger)
      /\ verifications' \in [Ids -> Verdicts \cup {"none"}]
      /\ \A i \in Ids : \/ verifications'[i] = verifications[i]
                       \/ /\ verifications[i] = "none" /\ verifications'[i] # "none"
                          /\ Decision(i, verifications'[i]) \in Range(ledger)
  <2>1. CASE \E d \in lateVerdicts : LandVerdict(d)
    <3>1. PICK d \in lateVerdicts :
            lateVerdicts' = lateVerdicts \ {d} /\ verifications' \in {verifications, AfterSave(d)}
      BY <2>1 DEF LandVerdict
    <3>2. d \in Range(ledger) /\ d \in [id : Ids, verdict : Verdicts]
      BY DEF LedgerInv, TypeOK
    <3>3. d.id \in Ids /\ d.verdict \in Verdicts /\ d.verdict # "none" /\ Decision(d.id, d.verdict) = d
      BY <3>2 DEF Verdicts, Decision
    <3> QED BY <3>1, <3>2, <3>3 DEF AfterSave, TypeOK, LedgerInv
  <2>2. CASE UNCHANGED <<verifications, lateVerdicts>>
    BY <2>2 DEF TypeOK, LedgerInv
  <2> QED BY <2>1, <2>2 DEF LandClaim, MatchAppears, late, vars, db
<1>6. TypeOK'
  BY <1>1, <1>3, <1>4, <1>5, DecisionsHaveType DEF TypeOK
<1>7. LineInv' /\ InputInv'
  BY <1>1, <1>2, SameLine DEF mutex, InputInv
<1>8. OneRow' /\ CallInv' /\ LedgerInv' /\ OnceInv'
  <2> DEFINE C == {}
  <2>1. C \subseteq Calls /\ \A c \in C : FALSE
    OBVIOUS
  <2> HIDE DEF C
  <2> QED BY <1>1, <1>2, <1>3, <1>4, <1>5, <2>1, StepKeeps
<1> QED BY <1>6, <1>7, <1>8

LEMMA NextIInv == IInv /\ [Next]_vars => IInv'
<1> SUFFICES ASSUME IInv, [Next]_vars PROVE IInv'
  OBVIOUS
<1>1. ASSUME NEW c \in Calls, NEW p \in Payloads, Malformed(c, p) \/ Enter(c, p) PROVE IInv'
  BY <1>1, ArrivalKeeps
<1>2. ASSUME NEW c \in Calls, Step(c) PROVE IInv'
  BY <1>2, FindPriorKeeps, FindByImageHashKeeps, ClaimEvidenceKeeps, AssessKeeps,
     AppendDecisionKeeps, SaveVerificationKeeps DEF Step
<1>3. ASSUME NEW c \in Calls, Fail(c) PROVE IInv'
  BY <1>3, FailKeeps
<1>4. CASE Crash
  BY <1>4, CrashKeeps
<1>5. CASE \/ \E p \in Payloads : LandClaim(p)
           \/ \E d \in lateVerdicts : LandVerdict(d)
           \/ \E m \in Matches : MatchAppears(m)
           \/ UNCHANGED vars
  BY <1>5, RowsKeep
<1> QED BY <1>1, <1>2, <1>3, <1>4, <1>5 DEF Next

LEMMA Always == Spec => []IInv
BY InitIInv, NextIInv, PTL DEF Spec

-----------------------------------------------------------------------------
(* Nothing outside its values, ever.                                        *)
THEOREM TypeCorrect == Spec => []TypeOK
<1>1. IInv => TypeOK
  BY DEF IInv
<1> QED BY <1>1, Always, PTL

(* keyedMutex works, however many calls for however many ids: no two verify *)
(* the same evidence at once, and its map has no entry of a call that ended *)
(* (keyedMutex and its use in verifyEvidence.ts).                           *)
THEOREM MutexWorks == Spec => []MutexKeepsTurns
<1>1. IInv => MutexKeepsTurns
  <2> SUFFICES ASSUME IInv PROVE MutexKeepsTurns
    OBVIOUS
  <2>1. \A b, c \in Calls : (b # c /\ HasTurn(b) /\ HasTurn(c)) => IdOf(b) # IdOf(c)
    BY OneTurn DEF IInv
  <2>2. ASSUME NEW i \in Ids, tails[i] # NoCall PROVE pc[tails[i]] \in Live /\ IdOf(tails[i]) = i
    <3>1. PICK s \in Seq(Calls) : Line(i, s)
      BY DEF IInv, LineInv
    <3>2. Len(s) \in 1..Len(s) /\ tails[i] = s[Len(s)] /\ s[Len(s)] \in Calls
      BY <2>2, <3>1 DEF Line
    <3> QED BY <3>1, <3>2 DEF Line
  <2> QED BY <2>1, <2>2 DEF MutexKeepsTurns, IInv
<1> QED BY <1>1, Always, PTL

(* One row for a photo and for an id, whatever lands late; one decision for *)
(* an id while nothing fails, whoever submits it how often (store.ts,       *)
(* verifyEvidence.ts).                                                      *)
THEOREM NothingTwice == Spec => []AgainAddsNothing
<1>1. IInv => AgainAddsNothing
  <2> SUFFICES ASSUME IInv PROVE AgainAddsNothing
    OBVIOUS
  <2>1. ASSUME faults = 0, NEW i \in Ids PROVE Times(i) <= 1
    <3> DEFINE at == {k \in DOMAIN ledger : ledger[k].id = i}
    <3>1. \A k, l \in at : k = l
      BY <2>1 DEF IInv, OnceInv
    <3>2. CASE at = {}
      BY <3>2, FS_EmptySet DEF Times
    <3>3. CASE at # {}
      <4>1. PICK k \in at : TRUE
        BY <3>3
      <4>2. at = {k}
        BY <3>1
      <4> QED BY <4>2, FS_Singleton DEF Times
    <3> QED BY <3>2, <3>3
  <2> QED BY <2>1 DEF IInv, OneRow, AgainAddsNothing
<1> QED BY <1>1, Always, PTL

(* A stored verdict was decided, and an accepted one earned, also when it   *)
(* was stored by an INSERT that its call had given up on (verifyEvidence.ts).*)
THEOREM VerdictsEarned == Spec => []VerdictsAreSound
<1>1. IInv => VerdictsAreSound
  <2> SUFFICES ASSUME IInv PROVE VerdictsAreSound
    OBVIOUS
  <2>1. ASSUME NEW i \in Ids, verifications[i] # "none"
        PROVE  \E k \in DOMAIN ledger : ledger[k] = Decision(i, verifications[i])
    BY <2>1 DEF IInv, LedgerInv, Range
  <2>2. ASSUME NEW p \in evidence, verifications[p.id] = "accepted"
        PROVE  p.look = "good_char" /\ p.sure /\ p.batchOK /\ p.match \in matches
    <3>1. p.id \in Ids
      BY PayloadsAssumption DEF IInv, TypeOK, PayloadType
    <3>2. Sound(Decision(p.id, "accepted"))
      BY <2>2, <3>1 DEF IInv, LedgerInv
    <3>3. PICK q \in evidence : q.id = p.id /\ Good(q)
      BY <3>2 DEF Sound, Decision
    <3>4. q = p
      BY <3>3 DEF IInv, OneRow
    <3> QED BY <3>3, <3>4 DEF Good
  <2> QED BY <2>1, <2>2 DEF VerdictsAreSound
<1> QED BY <1>1, Always, PTL
=============================================================================
