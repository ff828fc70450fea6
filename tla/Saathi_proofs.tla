--------------------------- MODULE Saathi_proofs ---------------------------
(* Saathi's invariants for any sentences, people, districts and credits,    *)
(* and for conversations of any length.                                     *)
EXTENDS Saathi, Rules, SequenceTheorems, WellFoundedInduction, TLAPS

(* What the model's records range over.                                     *)
Meanings == {Gated(ResolveSentence(s), who) : s \in Sentences, who \in Identities}
Callable == {PlanFor(g).call : g \in Meanings} \cup {NoCall}
States   == {"sent", "calling", "answered"}
Untouched == {"need", "proposal", "mismatch", "expired", "refused"}
Saying   == Untouched \cup {"none", "done", "unavailable"}
AskRow   == [sentence : Sentences, confirm : Nat, gated : Meanings, state : States,
             call : Callable, expires : Nat, answer : Saying]
Proposed == {"proposal", "expired"}

Typed ==
  /\ identity \in Identities /\ now \in Nat
  /\ asks \in Seq(AskRow) /\ made \in Seq(Nat) /\ agreed \in Seq(Callable)
  /\ Len(made) = Len(asks) /\ Len(agreed) = Len(asks)
  /\ turn \in 0..Len(asks) /\ asking \in 0..Len(asks)
  /\ running \subseteq Ids /\ declined \subseteq Ids
  /\ shown \in Callable

(* The call of an ask is the one its meaning plans; one that writes was     *)
(* confirmed by a token for the same meaning; and it is made once.          *)
CallInv ==
  \A n \in Ids :
    /\ asks[n].confirm \in 0..n - 1
    /\ asks[n].state # "answered" <=> asks[n].answer = "none"
    /\ asks[n].state # "answered" => made[n] = 0
    /\ asks[n].state = "sent" => n \notin running
    /\ n \in running => made[n] = 0 /\ asks[n].answer \in {"none", "unavailable"}
    /\ made[n] \in {0, 1}
    /\ made[n] = 1 => Writes(asks[n].call)
    /\ n \in running \/ made[n] = 1 \/ asks[n].answer \in Proposed =>
         asks[n].call = PlanFor(asks[n].gated).call
    /\ asks[n].answer = "expired" \/ ((n \in running \/ made[n] = 1) /\ Writes(asks[n].call)) =>
         asks[n].confirm # 0 /\ asks[asks[n].confirm].gated = asks[n].gated

(* A token is the newest turn's, so it is spent once; what was on the       *)
(* screen then is the call it was minted for.                               *)
TokenInv ==
  \A n \in Ids : asks[n].confirm # 0 =>
    /\ asks[asks[n].confirm].answer \in Proposed
    /\ agreed[n] = asks[asks[n].confirm].call
    /\ asks[n].confirm \notin declined
    /\ \A m \in Ids : asks[m].confirm = asks[n].confirm => m = n

(* The newest turn is the last thing heard, and unanswered while nothing is *)
(* being asked.                                                             *)
ViewInv ==
  /\ asking # 0 => asking = Len(asks) /\ (asks[asking].confirm # 0 => agreed[asking] = shown)
  /\ asking # 0 => \A d \in declined : d < asking
  /\ turn # 0 => /\ asks[turn].state = "answered" /\ turn \notin declined
                 /\ asks[turn].answer \in Proposed => shown = asks[turn].call
                 /\ asking = 0 => \A n \in Ids : asks[n].confirm # turn

IInv == Typed /\ CallInv /\ TokenInv /\ ViewInv /\ AnswersAreTrue

(* What the gateway has begun to read is the answer to the ask the view     *)
(* waits for.                                                               *)
PostInv ==
  /\ post \in {"idle", "fetch", "body", "answer", "error"}
  /\ post \in {"body", "answer"} => asking # 0 /\ asks[asking].state = "answered"

-----------------------------------------------------------------------------
(* A plan is a call or says what it lacks, and only one to be confirmed     *)
(* writes.                                                                  *)
LEMMA Plans ==
  ASSUME NEW g
  PROVE  /\ PlanFor(g).status \in {"need", "read", "write"}
         /\ PlanFor(g).status = "read" => ~ Writes(PlanFor(g).call)
<1> USE DEF Need, ReadPlan, WritePlan, Writes
<1>1. \A slots : /\ PlanLotStatus(slots).status \in {"need", "read"}
                 /\ PlanLotStatus(slots).status = "read" => ~ Writes(PlanLotStatus(slots).call)
  BY DEF PlanLotStatus
<1>2. \A slots : /\ PlanImpactSummary(slots).status \in {"need", "read"}
                 /\ PlanImpactSummary(slots).status = "read" => ~ Writes(PlanImpactSummary(slots).call)
  BY DEF PlanImpactSummary
<1>3. \A slots : /\ PlanCreditStatus(slots).status \in {"need", "read"}
                 /\ PlanCreditStatus(slots).status = "read" => ~ Writes(PlanCreditStatus(slots).call)
  BY DEF PlanCreditStatus
<1>4. \A slots : /\ PlanRunMatching(slots).status = "write"
                 /\ PlanRetire(slots).status \in {"need", "write"}
                 /\ PlanDeclare(slots).status \in {"need", "write"}
  BY DEF PlanRunMatching, PlanRetire, PlanDeclare
<1> HIDE DEF Need, ReadPlan, WritePlan, Writes
<1>5. Need("understanding").status = "need"
  BY DEF Need
<1> QED BY <1>1, <1>2, <1>3, <1>4, <1>5 DEF PlanFor

(* What settling one ask changes, and that it changes nothing else.         *)
LEMMA Setting ==
  ASSUME Typed, NEW n \in Ids, NEW st \in States, NEW c \in Callable, NEW an \in Saying,
         SetAsk(n, st, c, an)
  PROVE  /\ asks' \in Seq(AskRow) /\ Len(asks') = Len(asks) /\ Ids' = Ids
         /\ \A m \in Ids : asks'[m].confirm = asks[m].confirm /\ asks'[m].gated = asks[m].gated
         /\ \A m \in Ids \ {n} : asks'[m] = asks[m]
         /\ asks'[n].state = st /\ asks'[n].call = c /\ asks'[n].answer = an
<1>1. asks[n] \in AskRow /\ n \in 1..Len(asks) /\ DOMAIN asks = 1..Len(asks)
  BY DEF Typed, Ids
<1>2. PICK e \in Nat :
        asks' = [asks EXCEPT ![n] = [asks[n] EXCEPT !.state = st, !.call = c, !.answer = an, !.expires = e]]
  <2> DEFINE e == IF an \in {"proposal", "expired"} THEN now + CONFIRM_TTL ELSE 0
  <2>1. e \in Nat
    BY DEF Typed, CONFIRM_TTL
  <2>2. asks' = [asks EXCEPT ![n] = [asks[n] EXCEPT !.state = st, !.call = c, !.answer = an, !.expires = e]]
    BY Zenon DEF SetAsk
  <2> QED BY <2>1, <2>2
<1> DEFINE row == [asks[n] EXCEPT !.state = st, !.call = c, !.answer = an, !.expires = e]
<1>3. /\ row \in AskRow /\ row.state = st /\ row.call = c /\ row.answer = an
      /\ row.confirm = asks[n].confirm /\ row.gated = asks[n].gated
  BY <1>1 DEF AskRow
<1>4. asks' = [asks EXCEPT ![n] = row]
  BY <1>2
<1> HIDE DEF row
<1>5. \A m \in Ids : asks'[m] = IF m = n THEN row ELSE asks[m]
  BY <1>1, <1>4 DEF Typed, Ids
<1>6. asks' \in Seq(AskRow) /\ Len(asks') = Len(asks) /\ Ids' = Ids
  BY <1>1, <1>3, <1>4 DEF Typed, Ids
<1> QED BY <1>3, <1>5, <1>6

(* What a new ask adds to the three sequences.                              *)
LEMMA Asking ==
  ASSUME Typed, NEW s \in Sentences, NEW k \in 0..Len(asks), Ask(s, k)
  PROVE  /\ asks' \in Seq(AskRow) /\ made' \in Seq(Nat) /\ agreed' \in Seq(Callable)
         /\ Len(asks') = Len(asks) + 1 /\ Len(made') = Len(asks) + 1 /\ Len(agreed') = Len(asks) + 1
         /\ Ids = 1..Len(asks) /\ Ids' = 1..Len(asks) + 1
         /\ \A m \in Ids : asks'[m] = asks[m] /\ made'[m] = made[m] /\ agreed'[m] = agreed[m]
         /\ asks'[Len(asks) + 1].confirm = k /\ asks'[Len(asks) + 1].state = "sent"
         /\ asks'[Len(asks) + 1].answer = "none" /\ made'[Len(asks) + 1] = 0
         /\ k # 0 => agreed'[Len(asks) + 1] = shown
<1> DEFINE row == [sentence |-> s, confirm |-> k, gated |-> Gated(ResolveSentence(s), identity),
                   state |-> "sent", call |-> NoCall, expires |-> 0, answer |-> "none"]
<1>1. row \in AskRow
  BY DEF AskRow, Typed, Meanings, Callable, States, Saying
<1>2. (IF k = 0 THEN NoCall ELSE shown) \in Callable
  BY DEF Typed, Callable
<1>3. asks' = Append(asks, row)
  BY DEF Ask
<1>4. row.confirm = k /\ row.state = "sent" /\ row.answer = "none"
  OBVIOUS
<1> HIDE DEF row
<1> QED BY <1>1, <1>2, <1>3, <1>4 DEF Ask, Typed, Ids

(* The last status of a task: it completed, or failed as its end says, or   *)
(* failed before it began.                                                  *)
LEMMA LastOfAppended ==
  ASSUME NEW S, NEW s \in Seq(S), NEW x \in S
  PROVE  Last(s \o <<x>>) = x
BY DEF Last

LEMMA Execution ==
  ASSUME NEW skill, NEW end
  PROVE  LET task == Last(Execute(<<skill>>, {skill}, TRUE, end))
         IN \/ task = [state |-> "FAILED", output |-> FALSE, refusal |-> FALSE]
            \/ ~end.returned /\ task = [state |-> "FAILED", output |-> FALSE, refusal |-> end.refusal]
            \/ end.returned /\ task = [state |-> "COMPLETED", output |-> TRUE, refusal |-> FALSE]
<1> DEFINE failed(refusal) == [state |-> "FAILED", output |-> FALSE, refusal |-> refusal]
           submitted == [state |-> "SUBMITTED", output |-> FALSE, refusal |-> FALSE]
           working   == [state |-> "WORKING", output |-> FALSE, refusal |-> FALSE]
           completed == [state |-> "COMPLETED", output |-> TRUE, refusal |-> FALSE]
           S == {submitted, working, completed, failed(FALSE), failed(end.refusal)}
           result == Execute(<<skill>>, {skill}, TRUE, end)
<1>1. \/ result = <<submitted>> \o <<failed(FALSE)>>
      \/ ~end.returned /\ result = <<submitted>> \o (<<working>> \o <<failed(end.refusal)>>)
      \/ end.returned /\ result = <<submitted>> \o (<<working>> \o <<completed>>)
  BY DEF Execute
<1>2. \A x \in S :
        /\ Last(<<submitted>> \o <<x>>) = x
        /\ Last(<<submitted>> \o (<<working>> \o <<x>>)) = x
  <2> TAKE x \in S
  <2> HIDE DEF submitted, working, completed, failed
  <2>1. <<submitted>> \in Seq(S) /\ <<working>> \in Seq(S) /\ <<x>> \in Seq(S)
    <3>1. submitted \in S /\ working \in S
      OBVIOUS
    <3> HIDE DEF S
    <3> QED BY <3>1
  <2> HIDE DEF S
  <2>2. <<submitted>> \o (<<working>> \o <<x>>) = (<<submitted>> \o <<working>>) \o <<x>>
    BY <2>1, ConcatAssociative
  <2>3. <<submitted>> \o <<working>> \in Seq(S)
    BY <2>1, ConcatProperties
  <2>4. Last(<<submitted>> \o <<x>>) = x
    BY <2>1, LastOfAppended
  <2>5. Last((<<submitted>> \o <<working>>) \o <<x>>) = x
    BY <2>3, LastOfAppended
  <2> QED BY <2>2, <2>4, <2>5
<1> HIDE DEF submitted, working, completed, failed, result
<1>3. failed(FALSE) \in S /\ failed(end.refusal) \in S /\ completed \in S
  OBVIOUS
<1>4. \/ Last(result) = failed(FALSE)
      \/ ~end.returned /\ Last(result) = failed(end.refusal)
      \/ end.returned /\ Last(result) = completed
  BY <1>1, <1>2, <1>3
<1> QED BY <1>4 DEF completed, failed, result

-----------------------------------------------------------------------------
(* Nothing was asked yet.                                                   *)
LEMMA InitIInv == Init => IInv
BY DEF Init, IInv, Typed, CallInv, TokenInv, ViewInv, AnswersAreTrue, Callable, Ids

(* A new ask has done nothing, and spends the newest turn's token or none.  *)
LEMMA AskKeeps ==
  ASSUME IInv, NEW s \in Sentences, NEW k \in 0..Len(asks), Ask(s, k),
         k = 0 => turn' = 0,
         k # 0 => k = turn /\ asks[k].answer \in Proposed /\ turn' = turn
  PROVE  IInv'
<1> DEFINE new == Len(asks) + 1
<1>1. /\ asks' \in Seq(AskRow) /\ made' \in Seq(Nat) /\ agreed' \in Seq(Callable)
      /\ Len(asks') = new /\ Len(made') = new /\ Len(agreed') = new
      /\ Ids = 1..Len(asks) /\ Ids' = 1..new
      /\ \A m \in Ids : asks'[m] = asks[m] /\ made'[m] = made[m] /\ agreed'[m] = agreed[m]
      /\ asks'[new].confirm = k /\ asks'[new].state = "sent"
      /\ asks'[new].answer = "none" /\ made'[new] = 0
      /\ k # 0 => agreed'[new] = shown
  BY Asking DEF IInv
<1>2. /\ asking = 0 /\ asking' = new
      /\ UNCHANGED <<identity, running, now, shown, declined>>
  BY DEF Ask
<1>3. Len(asks) \in Nat /\ new \notin running /\ new \notin declined /\ new \notin Ids
  BY <1>1 DEF IInv, Typed
<1>4. Typed'
  BY <1>1, <1>2, <1>3 DEF IInv, Typed
<1>5. \A n \in Ids : asks[n].confirm \in 0..n - 1
  BY DEF IInv, CallInv
<1>6. \A n \in Ids : asks[n].confirm # 0 => asks[n].confirm \in Ids
  BY <1>1, <1>3, <1>5
<1> HIDE DEF new
<1>7. CallInv'
  <2> SUFFICES ASSUME NEW n \in Ids' PROVE CallInv!(n)'
    BY DEF CallInv
  <2>1. CASE n = new
    BY <2>1, <1>1, <1>2, <1>3 DEF new, Proposed
  <2>2. CASE n # new
    <3>1. n \in Ids
      BY <2>2, <1>1, <1>3 DEF new
    <3>2. CallInv!(n)
      BY <3>1 DEF IInv, CallInv
    <3>3. asks'[n] = asks[n] /\ made'[n] = made[n]
      BY <3>1, <1>1
    <3>4. asks[n].confirm # 0 => asks'[asks[n].confirm] = asks[asks[n].confirm]
      BY <3>1, <1>1, <1>6
    <3> QED BY <3>2, <3>3, <3>4, <1>2 DEF Writes
  <2> QED BY <2>1, <2>2
<1>8. k # 0 => /\ turn = k /\ k \in Ids /\ asks[k].answer \in Proposed /\ shown = asks[k].call
               /\ k \notin declined /\ \A n \in Ids : asks[n].confirm # k
  BY <1>1, <1>2 DEF IInv, ViewInv
<1>9. TokenInv'
  <2> SUFFICES ASSUME NEW n \in Ids', asks'[n].confirm # 0 PROVE TokenInv!(n)!2'
    BY DEF TokenInv
  <2>1. CASE n = new
    <3>1. k # 0
      BY <2>1, <1>1
    <3>2. asks'[k] = asks[k] /\ agreed'[new] = shown /\ k \notin declined'
      BY <3>1, <1>1, <1>2, <1>8
    <3>3. ASSUME NEW m \in Ids', asks'[m].confirm = k PROVE m = new
      <4>1. m \in Ids => asks'[m].confirm # k
        BY <3>1, <1>1, <1>8
      <4> QED BY <3>3, <4>1, <1>1, <1>3 DEF new
    <3> QED BY <2>1, <3>1, <3>2, <3>3, <1>1, <1>8
  <2>2. CASE n # new
    <3>1. n \in Ids /\ asks'[n] = asks[n] /\ agreed'[n] = agreed[n]
      BY <2>2, <1>1, <1>3 DEF new
    <3>2. TokenInv!(n)!2
      BY <3>1 DEF IInv, TokenInv
    <3>3. asks'[asks[n].confirm] = asks[asks[n].confirm]
      BY <3>1, <1>1, <1>6
    <3>4. ASSUME NEW m \in Ids', asks'[m].confirm = asks[n].confirm PROVE m = n
      <4>1. m \in Ids => m = n
        <5>1. m \in Ids => asks'[m] = asks[m]
          BY <1>1
        <5> QED BY <3>1, <3>2, <3>4, <5>1
      <4>2. asks[n].confirm # k
        BY <3>1, <1>8
      <4>3. m \in Ids \/ m = new
        BY <1>1, <1>3 DEF new
      <4> QED BY <3>4, <4>1, <4>2, <4>3, <1>1
    <3> QED BY <3>1, <3>2, <3>3, <3>4, <1>2
  <2> QED BY <2>1, <2>2
<1>10. ViewInv'
  <2>1. asking' = Len(asks') /\ (asks'[new].confirm # 0 => agreed'[new] = shown')
    BY <1>1, <1>2
  <2>2. \A d \in declined' : d < asking'
    BY <1>1, <1>2, <1>3 DEF IInv, Typed, new
  <2>4. asking' # 0
    BY <1>2, <1>3 DEF new
  <2>3. ASSUME turn' # 0 PROVE ViewInv!3!2'
    <3>1. k # 0 /\ turn' = k
      BY <2>3
    <3>2. asks'[k] = asks[k] /\ asks[k].state = "answered"
      BY <3>1, <1>1, <1>8 DEF IInv, ViewInv
    <3> QED BY <3>1, <3>2, <2>4, <1>2, <1>8
  <2> QED BY <2>1, <2>2, <2>3, <2>4, <1>2 DEF ViewInv
<1>11. AnswersAreTrue'
  <2> SUFFICES ASSUME NEW n \in Ids' PROVE AnswersAreTrue!(n)'
    BY DEF AnswersAreTrue
  <2>1. CASE n = new
    BY <2>1, <1>1, <1>2, <1>3
  <2>2. CASE n # new
    <3>1. n \in Ids /\ asks'[n] = asks[n] /\ made'[n] = made[n]
      BY <2>2, <1>1, <1>3 DEF new
    <3>2. AnswersAreTrue!(n)
      BY <3>1 DEF IInv, AnswersAreTrue
    <3>3. NothingLeft(asks[n].call) => NothingLeft(asks[n].call)'
      <4>1. \A m \in Ids : m \in Ids'
        BY <1>1, <1>3 DEF new
      <4> QED BY <3>1, <4>1, <1>1 DEF NothingLeft, Retired
    <3> QED BY <3>1, <3>2, <3>3, <1>2 DEF Writes
  <2> QED BY <2>1, <2>2
<1> QED BY <1>4, <1>7, <1>9, <1>10, <1>11 DEF IInv

(* The assistant or an agent takes one ask a step further.                  *)
LEMMA StepKeeps ==
  ASSUME IInv, NEW n \in Ids,
         UNCHANGED <<identity, turn, asking, now, shown, agreed, declined>>,
         asks' \in Seq(AskRow), Ids' = Ids, Len(asks') = Len(asks),
         \A m \in Ids : asks'[m].confirm = asks[m].confirm /\ asks'[m].gated = asks[m].gated,
         \A m \in Ids \ {n} : asks'[m] = asks[m] /\ made'[m] = made[m] /\ (m \in running' <=> m \in running),
         asks'[n] = asks[n] \/ asks[n].state # "answered",
         made' \in Seq(Nat), Len(made') = Len(made), made[n] = 1 => made'[n] = 1,
         running' \subseteq Ids,
         CallInv!(n)', AnswersAreTrue!(n)'
  PROVE  IInv'
<1>1. Typed'
  BY DEF IInv, Typed
<1>0. Ids = 1..Len(asks) /\ Len(asks) \in Nat /\ turn \in 0..Len(asks) /\ asking \in 0..Len(asks)
  BY DEF IInv, Typed, Ids
<1>2. ASSUME NEW m \in Ids, asks[m].confirm # 0 PROVE asks[m].confirm \in Ids
  <2>1. asks[m].confirm \in 0..m - 1
    BY DEF IInv, CallInv
  <2> QED BY <2>1, <1>0, <1>2
<1>3. \A m \in Ids : asks[m].state = "answered" => asks'[m] = asks[m]
  OBVIOUS
<1>4. CallInv'
  <2> SUFFICES ASSUME NEW m \in Ids' PROVE CallInv!(m)'
    BY DEF CallInv
  <2>1. CASE m = n
    BY <2>1
  <2>2. CASE m # n
    <3>1. CallInv!(m)
      BY DEF IInv, CallInv
    <3>2. asks'[m] = asks[m] /\ made'[m] = made[m] /\ (m \in running' <=> m \in running)
      BY <2>2
    <3>3. asks[m].confirm # 0 => asks'[asks[m].confirm].gated = asks[asks[m].confirm].gated
      BY <1>2
    <3> QED BY <3>1, <3>2, <3>3 DEF Writes
  <2> QED BY <2>1, <2>2
<1>5. TokenInv'
  <2> SUFFICES ASSUME NEW m \in Ids', asks'[m].confirm # 0 PROVE TokenInv!(m)!2'
    BY DEF TokenInv
  <2>1. TokenInv!(m)!2 /\ asks[m].confirm # 0 /\ asks[m].confirm \in Ids
    BY <1>2 DEF IInv, TokenInv
  <2>2. asks[asks[m].confirm].state = "answered"
    BY <2>1 DEF IInv, CallInv, Proposed
  <2>3. asks'[asks[m].confirm] = asks[asks[m].confirm]
    BY <2>1, <2>2, <1>3
  <2> QED BY <2>1, <2>3
<1>6. ViewInv'
  <2>0. asking # 0 => asking \in Ids
    BY <1>0
  <2>1. asking # 0 => asks'[asking].confirm = asks[asking].confirm
    BY <2>0
  <2>2. turn # 0 => turn \in Ids /\ asks[turn].state = "answered"
    BY <1>0 DEF IInv, ViewInv
  <2>3. turn # 0 => asks'[turn] = asks[turn]
    BY <2>2, <1>3
  <2>4. asking = 0 => \A m \in Ids : asks'[m].confirm = asks[m].confirm
    OBVIOUS
  <2>5. ViewInv /\ asking' = asking /\ turn' = turn /\ shown' = shown /\ agreed' = agreed
        /\ declined' = declined /\ Len(asks') = Len(asks) /\ Ids' = Ids
    BY DEF IInv
  <2>6. (asking # 0 => asking = Len(asks) /\ (asks[asking].confirm # 0 => agreed[asking] = shown))'
    BY <2>1, <2>5 DEF ViewInv
  <2>7. (asking # 0 => \A d \in declined : d < asking)'
    BY <2>5 DEF ViewInv
  <2>8. ASSUME turn' # 0 PROVE ViewInv!3!2'
    BY <2>3, <2>4, <2>5, <2>8 DEF ViewInv
  <2> QED BY <2>6, <2>7, <2>8 DEF ViewInv
<1>7. AnswersAreTrue'
  <2> SUFFICES ASSUME NEW m \in Ids' PROVE AnswersAreTrue!(m)'
    BY DEF AnswersAreTrue
  <2>1. CASE m = n
    BY <2>1
  <2>2. CASE m # n
    <3>1. AnswersAreTrue!(m)
      BY DEF IInv, AnswersAreTrue
    <3>2. asks'[m] = asks[m] /\ made'[m] = made[m] /\ (m \in running' <=> m \in running)
      BY <2>2
    <3>3. NothingLeft(asks[m].call) => NothingLeft(asks[m].call)'
      <4>1. ASSUME NEW w \in Ids, made[w] > 0 PROVE made'[w] > 0 /\ asks'[w] = asks[w]
        <5>1. made[w] = 1 /\ asks[w].state = "answered"
          BY <4>1 DEF IInv, CallInv
        <5>2. made'[w] = 1
          BY <5>1
        <5> QED BY <5>1, <5>2, <1>3
      <4>2. asks'[m].call = asks[m].call
        BY <3>2
      <4> SUFFICES ASSUME NothingLeft(asks[m].call) PROVE NothingLeft(asks[m].call)'
        BY <4>2 DEF NothingLeft, Retired
      <4>3. asks[m].call.skill = "retireCredit"
        BY DEF NothingLeft
      <4>4. PICK w \in Ids : made[w] > 0 /\ asks[w].call.skill = "retireCredit" /\ asks[w].call.of = asks[m].call.of
        BY DEF NothingLeft, Retired
      <4>5. made'[w] > 0 /\ asks'[w] = asks[w] /\ w \in Ids'
        BY <4>1, <4>4
      <4> QED BY <4>2, <4>3, <4>4, <4>5 DEF NothingLeft, Retired
    <3>5. Writes(asks[m].call)' = Writes(asks[m].call)
      BY <3>2 DEF Writes
    <3> HIDE DEF NothingLeft, Writes
    <3> QED BY <3>1, <3>2, <3>3, <3>5
  <2> QED BY <2>1, <2>2
<1> QED BY <1>1, <1>4, <1>5, <1>6, <1>7 DEF IInv
(* What the assistant says of a call whose skill ended so.                  *)
LEMMA Replies ==
  ASSUME NEW skill, NEW returned \in BOOLEAN, NEW refusal \in BOOLEAN, NEW n, NEW said,
         said = Reply(n, CallAgent(TRUE, Last(Execute(<<skill>>, {skill}, TRUE,
                         [returned |-> returned, refusal |-> refusal]))))
  PROVE  /\ said \in {"done", "refused", "unavailable"}
         /\ said = "done" => returned
         /\ said = "refused" => refusal
<1> DEFINE end  == [returned |-> returned, refusal |-> refusal]
           task == Last(Execute(<<skill>>, {skill}, TRUE, end))
<1>1. \/ task = [state |-> "FAILED", output |-> FALSE, refusal |-> FALSE]
      \/ ~end.returned /\ task = [state |-> "FAILED", output |-> FALSE, refusal |-> end.refusal]
      \/ end.returned /\ task = [state |-> "COMPLETED", output |-> TRUE, refusal |-> FALSE]
  BY Execution
<1>e. (end.returned <=> returned) /\ (end.refusal <=> refusal)
  OBVIOUS
<1> HIDE DEF task, end
<1>2. \/ CallAgent(TRUE, task) = "failed"
      \/ ~end.returned /\ end.refusal /\ CallAgent(TRUE, task) = "refused"
      \/ end.returned /\ CallAgent(TRUE, task) = "ok"
  BY <1>1 DEF CallAgent, Extract
<1>3. /\ Reply(n, "failed") = "unavailable"
      /\ Reply(n, "refused") = "refused"
      /\ Reply(n, "ok") = "done"
  BY DEF Reply
<1>4. said = Reply(n, CallAgent(TRUE, task))
  BY DEF task, end
<1> QED BY <1>2, <1>3, <1>4, <1>e

(* A credit that was retired stays so, whatever ask n does next.            *)
LEMMA LeftKeeps ==
  ASSUME NEW c, NothingLeft(c),
         \A w \in Ids : made[w] > 0 => /\ w \in Ids' /\ made'[w] > 0
                                       /\ asks'[w].call = asks[w].call
  PROVE  NothingLeft(c)'
BY DEF NothingLeft, Retired

(* A skill ends, and writes only what was left to write.                    *)
LEMMA EndedKeeps ==
  ASSUME IInv, NEW n \in running, NEW returned \in BOOLEAN, NEW refusal \in BOOLEAN,
         NEW wrote \in BOOLEAN, Ended(n, [returned |-> returned, refusal |-> refusal], wrote),
         wrote => Writes(asks[n].call),
         returned => wrote \/ ~Writes(asks[n].call) \/ NothingLeft(asks[n].call),
         refusal => ~wrote
  PROVE  IInv'
<1> DEFINE said == Reply(n, CallAgent(TRUE, Last(Execute(<<asks[n].call.skill>>,
                        {asks[n].call.skill}, TRUE,
                        [returned |-> returned, refusal |-> refusal]))))
           value == IF wrote THEN 1 ELSE 0
<1>1. n \in Ids /\ asks[n] \in AskRow /\ Ids = 1..Len(asks) /\ DOMAIN made = Ids
  BY DEF IInv, Typed, Ids
<1>2. CallInv!(n) /\ AnswersAreTrue!(n) /\ made[n] = 0 /\ asks[n].state \in {"calling", "answered"}
  BY <1>1 DEF IInv, CallInv, AnswersAreTrue, AskRow, States
<1>3. /\ running' = running \ {n}
      /\ UNCHANGED <<identity, turn, asking, now, shown, agreed, declined>>
      /\ made' = [made EXCEPT ![n] = IF wrote THEN @ + 1 ELSE @]
      /\ IF asks[n].state = "calling" THEN SetAsk(n, "answered", asks[n].call, said)
         ELSE UNCHANGED asks
  BY DEF Ended
<1>4. said \in {"done", "refused", "unavailable"} /\ (said = "done" => returned)
      /\ (said = "refused" => refusal)
  <2>1. PICK skill : skill = asks[n].call.skill
    OBVIOUS
  <2>2. said = Reply(n, CallAgent(TRUE, Last(Execute(<<skill>>, {skill}, TRUE,
                        [returned |-> returned, refusal |-> refusal]))))
    BY <2>1
  <2> HIDE DEF said
  <2> QED BY <2>2, Replies
<1> HIDE DEF said
<1>5. made' = [made EXCEPT ![n] = value]
  <2>1. made[n] + 1 = 1
    BY <1>2
  <2>2. value = IF wrote THEN made[n] + 1 ELSE made[n]
    BY <1>2, <2>1
  <2> HIDE DEF value
  <2> QED BY <1>3, <2>2, Zenon
<1>6. value \in {0, 1} /\ (wrote <=> value = 1)
  OBVIOUS
<1> HIDE DEF value
<1>7. /\ made' \in Seq(Nat) /\ Len(made') = Len(made) /\ made'[n] = value
      /\ \A m \in Ids \ {n} : made'[m] = made[m]
  BY <1>1, <1>5, <1>6 DEF IInv, Typed
<1>8. /\ asks' \in Seq(AskRow) /\ Ids' = Ids /\ Len(asks') = Len(asks)
      /\ \A m \in Ids : asks'[m].confirm = asks[m].confirm /\ asks'[m].gated = asks[m].gated
      /\ \A m \in Ids \ {n} : asks'[m] = asks[m]
      /\ asks'[n].state = "answered" /\ asks'[n].call = asks[n].call
      /\ asks[n].state = "calling" => asks'[n].answer = said
      /\ asks[n].state = "answered" => asks'[n] = asks[n]
  <2>1. CASE asks[n].state = "calling"
    <3>1. said \in Saying /\ "answered" \in States /\ asks[n].call \in Callable
      BY <1>1, <1>4 DEF Saying, Untouched, States, AskRow
    <3> QED BY <1>1, <1>3, <2>1, <3>1, Setting DEF IInv
  <2>2. CASE asks[n].state = "answered"
    BY <1>1, <1>3, <2>2 DEF IInv, Typed, Ids
  <2> QED BY <1>2, <2>1, <2>2
<1>9. asks'[n].answer \in {"done", "refused", "unavailable"}
  BY <1>2, <1>4, <1>8
<1>10. asks[n].confirm # 0 => asks'[asks[n].confirm].gated = asks[asks[n].confirm].gated
  <2>1. asks[n].confirm # 0 => asks[n].confirm \in Ids
    BY <1>1, <1>2
  <2> QED BY <1>8, <2>1
<1>11. CallInv!(n)'
  <2>1. n \notin running' /\ made'[n] = value /\ asks'[n].answer \notin Proposed
        /\ asks'[n].answer # "expired"
    BY <1>3, <1>7, <1>9 DEF Proposed
  <2>2. Writes(asks[n].call)' <=> Writes(asks[n].call)
    BY <1>8 DEF Writes
  <2>3. asks[n].call = PlanFor(asks[n].gated).call
    BY <1>2
  <2>4. Writes(asks[n].call) => asks[n].confirm # 0 /\ asks[asks[n].confirm].gated = asks[n].gated
    BY <1>2
  <2>5. asks'[n].confirm = asks[n].confirm /\ asks'[n].gated = asks[n].gated
    BY <1>1, <1>8
  <2>6. value = 1 => Writes(asks[n].call)
    BY <1>6
  <2> QED BY <1>2, <1>6, <1>8, <1>9, <1>10, <2>1, <2>2, <2>3, <2>4, <2>5, <2>6
<1>12. AnswersAreTrue!(n)'
  <2>1. \A w \in Ids : made[w] > 0 => /\ w \in Ids' /\ made'[w] > 0
                                      /\ asks'[w].call = asks[w].call
    BY <1>2, <1>7, <1>8
  <2>2. PICK c : c = asks[n].call
    OBVIOUS
  <2>3. NothingLeft(c) => NothingLeft(c)'
    BY <2>1, LeftKeeps
  <2>4. asks'[n].call = c
    BY <1>8, <2>2
  <2>5. NothingLeft(c)' => NothingLeft(asks[n].call)'
    BY <2>4 DEF NothingLeft, Retired
  <2>6. asks'[n].answer = "done" => made'[n] = 1 \/ ~Writes(c) \/ NothingLeft(c)
    BY <1>2, <1>4, <1>6, <1>7, <1>8, <2>2
  <2>7. asks'[n].answer = "refused" => made'[n] = 0
    BY <1>2, <1>4, <1>6, <1>7, <1>8
  <2>8. Writes(asks[n].call)' => Writes(c)
    BY <2>4 DEF Writes
  <2> QED BY <1>3, <1>9, <2>3, <2>5, <2>6, <2>7, <2>8
<1> QED
  <2>1. \A m \in Ids \ {n} : m \in running' <=> m \in running
    BY <1>3
  <2>2. running' \subseteq Ids
    BY <1>3 DEF IInv, Typed
  <2>3. asks'[n] = asks[n] \/ asks[n].state # "answered"
    BY <1>8
  <2>4. made[n] = 1 => made'[n] = 1
    BY <1>2
  <2>5. UNCHANGED <<identity, turn, asking, now, shown, agreed, declined>>
    BY <1>3
  <2>6. n \in Ids
    BY <1>1
  <2>7. asks' \in Seq(AskRow) /\ Ids' = Ids /\ Len(asks') = Len(asks)
    BY <1>8
  <2>8. \A m \in Ids : asks'[m].confirm = asks[m].confirm /\ asks'[m].gated = asks[m].gated
    BY <1>8
  <2>9. \A m \in Ids \ {n} : asks'[m] = asks[m] /\ made'[m] = made[m] /\ (m \in running' <=> m \in running)
    BY <1>7, <1>8, <2>1
  <2>10. made' \in Seq(Nat) /\ Len(made') = Len(made)
    BY <1>7
  <2> QED BY <1>11, <1>12, <2>2, <2>3, <2>4, <2>5, <2>6, <2>7, <2>8, <2>9, <2>10, StepKeeps
(* The assistant settles an ask, or calls for it; nothing is written yet.   *)
LEMMA SetKeeps ==
  ASSUME IInv, NEW n \in Ids, asks[n].state # "answered",
         NEW st \in {"calling", "answered"}, NEW c \in Callable,
         NEW an \in {"none", "need", "proposal", "mismatch", "expired", "unavailable"},
         SetAsk(n, st, c, an),
         running' \in {running, running \cup {n}},
         UNCHANGED <<identity, turn, asking, made, now, shown, agreed, declined>>,
         st = "calling" <=> an = "none",
         n \in running' => an \in {"none", "unavailable"},
         n \in running' \/ an \in Proposed => c = PlanFor(asks[n].gated).call,
         an = "expired" \/ (n \in running' /\ Writes(c)) =>
           asks[n].confirm # 0 /\ asks[asks[n].confirm].gated = asks[n].gated
  PROVE  IInv'
<1>1. CallInv!(n) /\ Ids = 1..Len(asks)
  BY DEF IInv, CallInv, Typed, Ids
<1>2. /\ asks' \in Seq(AskRow) /\ Len(asks') = Len(asks) /\ Ids' = Ids
      /\ \A m \in Ids : asks'[m].confirm = asks[m].confirm /\ asks'[m].gated = asks[m].gated
      /\ \A m \in Ids \ {n} : asks'[m] = asks[m]
      /\ asks'[n].state = st /\ asks'[n].call = c /\ asks'[n].answer = an
  <2>1. st \in States /\ an \in Saying /\ Typed
    BY DEF States, Saying, Untouched, IInv
  <2> QED BY <2>1, Setting
<1>3. asks[n].confirm # 0 => asks'[asks[n].confirm].gated = asks[asks[n].confirm].gated
  <2>1. asks[n].confirm # 0 => asks[n].confirm \in Ids
    BY <1>1
  <2> QED BY <1>2, <2>1
<1>4. CallInv!(n)'
  <2>1. Writes(asks[n].call)' <=> Writes(c)
    BY <1>2 DEF Writes
  <2>2. made'[n] = 0
    BY <1>1
  <2> QED BY <1>1, <1>2, <1>3, <2>1, <2>2
<1>5. AnswersAreTrue!(n)'
  BY <1>1, <1>2
<1>6. \A m \in Ids \ {n} : asks'[m] = asks[m] /\ made'[m] = made[m] /\ (m \in running' <=> m \in running)
  BY <1>2
<1>7. running' \subseteq Ids /\ made' \in Seq(Nat) /\ Len(made') = Len(made)
  BY DEF IInv, Typed
<1>8. made[n] = 1 => made'[n] = 1
  OBVIOUS
<1>9. \A m \in Ids : asks'[m].confirm = asks[m].confirm /\ asks'[m].gated = asks[m].gated
  BY <1>2
<1>10. asks' \in Seq(AskRow) /\ Ids' = Ids /\ Len(asks') = Len(asks)
  BY <1>2
<1>11. UNCHANGED <<identity, turn, asking, now, shown, agreed, declined>>
  OBVIOUS
<1> QED BY <1>4, <1>5, <1>6, <1>7, <1>8, <1>9, <1>10, <1>11, StepKeeps

(* What the invariant says of one ask.                                      *)
LEMMA Rows ==
  ASSUME IInv, NEW n \in Ids
  PROVE  /\ asks[n] \in AskRow /\ CallInv!(n) /\ Ids = 1..Len(asks) /\ Len(asks) \in Nat
         /\ asks[n].gated \in Meanings /\ asks[n].call \in Callable
<1>1. asks[n] \in AskRow /\ Ids = 1..Len(asks) /\ Len(asks) \in Nat
  BY DEF IInv, Typed, Ids
<1>2. CallInv!(n)
  BY DEF IInv, CallInv
<1> QED BY <1>1, <1>2 DEF AskRow

(* The assistant answers at once, or calls for a read or for a write that   *)
(* was confirmed by a token of the same meaning.                            *)
LEMMA AnswerKeeps ==
  ASSUME IInv, NEW n, Answer(n)
  PROVE  IInv'
<1> DEFINE plan    == PlanFor(asks[n].gated)
           checked == IF plan.status # "write" THEN "ok"
                      ELSE IF asks[n].confirm = 0 THEN "proposal"
                      ELSE CheckConfirmation(asks[n].confirm, asks[n].gated)
<1>1. n \in Ids /\ asks[n].state = "sent" /\ n \notin running /\ asks[n].gated \in Meanings
  <2>1. n \in Ids /\ asks[n].state = "sent"
    BY DEF Answer, Asked
  <2> QED BY <2>1, Rows
<1>2. NoCall \in Callable /\ plan.call \in Callable
  BY <1>1 DEF Callable
<1>3. plan.status \in {"need", "read", "write"} /\ (plan.status = "read" => ~Writes(plan.call))
  BY Plans
<1>4. /\ UNCHANGED <<identity, turn, asking, made, now, shown, agreed, declined>>
      /\ IF plan.status = "need"
         THEN SetAsk(n, "answered", NoCall, "need") /\ UNCHANGED running
         ELSE IF checked # "ok"
         THEN SetAsk(n, "answered", plan.call, checked) /\ UNCHANGED running
         ELSE SetAsk(n, "calling", plan.call, "none") /\ running' = running \cup {n}
  BY DEF Answer
<1>5. /\ checked \in {"ok", "proposal", "mismatch", "expired"}
      /\ checked = "expired" \/ (checked = "ok" /\ plan.status = "write") =>
           asks[n].confirm # 0 /\ asks[asks[n].confirm].gated = asks[n].gated
  BY DEF CheckConfirmation
<1> HIDE DEF plan, checked
<1>6. CASE plan.status = "need"
  <2>1. SetAsk(n, "answered", NoCall, "need") /\ running' \in {running, running \cup {n}} /\ n \notin running'
    BY <1>1, <1>4, <1>6
  <2>2. "need" \notin Proposed
    BY DEF Proposed
  <2> QED BY <1>1, <1>2, <1>4, <2>1, <2>2, SetKeeps
<1>7. CASE plan.status # "need" /\ checked # "ok"
  <2>1. SetAsk(n, "answered", plan.call, checked) /\ running' \in {running, running \cup {n}} /\ n \notin running'
    BY <1>1, <1>4, <1>7
  <2>2. checked \in {"proposal", "mismatch", "expired"}
    BY <1>5, <1>7
  <2>3. plan.call = PlanFor(asks[n].gated).call
    BY DEF plan
  <2> QED BY <1>1, <1>2, <1>4, <1>5, <2>1, <2>2, <2>3, SetKeeps
<1>8. CASE plan.status # "need" /\ checked = "ok"
  <2>1. SetAsk(n, "calling", plan.call, "none") /\ running' \in {running, running \cup {n}}
    BY <1>4, <1>8
  <2>2. Writes(plan.call) => plan.status = "write"
    BY <1>3, <1>8
  <2>3. plan.call = PlanFor(asks[n].gated).call
    BY DEF plan
  <2> QED BY <1>1, <1>2, <1>4, <1>5, <1>8, <2>1, <2>2, <2>3, SetKeeps
<1> QED BY <1>6, <1>7, <1>8

(* A call that ended without its task is told as unavailable.               *)
LEMMA CallFailsKeeps ==
  ASSUME IInv, NEW n, CallFails(n)
  PROVE  IInv'
<1>1. n \in Ids /\ asks[n].state = "calling" /\ asks[n].call \in Callable /\ CallInv!(n)
  <2>1. n \in Ids /\ asks[n].state = "calling"
    BY DEF CallFails
  <2> QED BY <2>1, Rows
<1>2. Reply(n, CallAgent(FALSE, NoSkill)) = "unavailable"
  BY DEF Reply, CallAgent
<1>3. /\ SetAsk(n, "answered", asks[n].call, "unavailable")
      /\ UNCHANGED <<identity, turn, asking, running, made, now, shown, agreed, declined>>
  BY <1>2 DEF CallFails
<1>4. "unavailable" \notin Proposed
  BY DEF Proposed
<1>5. running' \in {running, running \cup {n}}
  BY <1>3
<1> QED BY <1>1, <1>3, <1>4, <1>5, SetKeeps

(* What an agent's skill may do: its work, a refusal, or an exception.      *)
LEMMA SkillKeeps ==
  ASSUME IInv, NEW n,
         Performs(n) \/ Refuses(n) \/ Throws(n, TRUE) \/ Throws(n, FALSE)
  PROVE  IInv'
<1> DEFINE call == asks[n].call
           works == Writes(call) /\ ~NothingLeft(call)
<1>1. CASE Performs(n)
  <2>1. n \in running /\ Ended(n, [returned |-> TRUE, refusal |-> FALSE], works)
    BY <1>1 DEF Performs
  <2>2. works \in BOOLEAN /\ (works => Writes(call)) /\ (works \/ ~Writes(call) \/ NothingLeft(call))
    OBVIOUS
  <2> HIDE DEF works
  <2> QED BY <2>1, <2>2, EndedKeeps
<1>2. CASE Refuses(n)
  <2>1. n \in running /\ Ended(n, [returned |-> FALSE, refusal |-> TRUE], FALSE)
    BY <1>2 DEF Refuses
  <2> QED BY <2>1, EndedKeeps
<1>3. CASE Throws(n, TRUE)
  <2>1. n \in running /\ Writes(call) /\ Ended(n, [returned |-> FALSE, refusal |-> FALSE], TRUE)
    BY <1>3 DEF Throws
  <2> QED BY <2>1, EndedKeeps
<1>4. CASE Throws(n, FALSE)
  <2>1. n \in running /\ Ended(n, [returned |-> FALSE, refusal |-> FALSE], FALSE)
    BY <1>4 DEF Throws
  <2> QED BY <2>1, EndedKeeps
<1> QED BY <1>1, <1>2, <1>3, <1>4
-----------------------------------------------------------------------------
(* The view's own steps leave the calls alone.                              *)
LEMMA ViewKeeps ==
  ASSUME IInv, UNCHANGED <<asks, running, made, agreed>>, Typed', TokenInv', ViewInv'
  PROVE  IInv'
<1>1. CallInv'
  BY DEF IInv, CallInv, Ids, Writes
<1>2. AnswersAreTrue'
  BY DEF IInv, AnswersAreTrue, Ids, NothingLeft, Retired, Writes
<1> QED BY <1>1, <1>2 DEF IInv

(* The button of the newest turn is that of a proposal, whose sentence was  *)
(* typed.                                                                   *)
LEMMA Turns ==
  ASSUME IInv, NEW k \in Actionable
  PROVE  /\ k = turn /\ k # 0 /\ k \in Ids /\ k \in 0..Len(asks)
         /\ asks[k].answer \in Proposed /\ asks[k].sentence \in Sentences
<1>1. k = turn /\ k # 0 /\ asks[k].answer \in Proposed
  BY DEF Actionable, Proposed
<1>2. k \in 1..Len(asks) /\ k \in Ids /\ k \in 0..Len(asks)
  BY <1>1 DEF IInv, Typed, Ids
<1>3. asks[k] \in AskRow
  BY <1>2, Rows
<1> QED BY <1>1, <1>2, <1>3 DEF AskRow

(* A sentence, or a Yes to the newest turn.                                 *)
LEMMA SpeakKeeps ==
  ASSUME IInv, (\E s \in Sentences : Say(s)) \/ Yes
  PROVE  IInv'
<1>1. ASSUME NEW s \in Sentences, Say(s) PROVE IInv'
  <2>1. 0 \in 0..Len(asks)
    BY DEF IInv, Typed
  <2> QED BY <1>1, <2>1, AskKeeps DEF Say
<1>2. ASSUME Yes PROVE IInv'
  <2>1. PICK k \in Actionable : Ask(asks[k].sentence, k) /\ UNCHANGED turn
    BY <1>2 DEF Yes
  <2>2. PICK s \in Sentences : s = asks[k].sentence
    BY Turns
  <2>3. Ask(s, k)
    BY <2>1, <2>2
  <2>4. k = turn /\ k # 0 /\ k \in 0..Len(asks) /\ asks[k].answer \in Proposed
    BY Turns
  <2> QED BY <2>1, <2>3, <2>4, AskKeeps
<1> QED BY <1>1, <1>2

(* A declined proposal had not been confirmed.                              *)
LEMMA NoKeeps ==
  ASSUME IInv, No
  PROVE  IInv'
<1>1. PICK k \in Actionable : declined' = declined \cup {k}
  BY DEF No
<1>2. /\ asking = 0 /\ turn' = 0
      /\ UNCHANGED <<identity, asking, asks, running, made, now, shown, agreed>>
  BY DEF No
<1>3. k \in Ids /\ k # 0 /\ \A n \in Ids : asks[n].confirm # k
  BY <1>2, Turns DEF IInv, ViewInv
<1>4. Typed'
  BY <1>1, <1>2, <1>3 DEF IInv, Typed, Ids
<1>5. TokenInv'
  BY <1>1, <1>2, <1>3 DEF IInv, TokenInv, Ids
<1>6. ViewInv'
  BY <1>2 DEF ViewInv
<1> QED BY <1>2, <1>4, <1>5, <1>6, ViewKeeps

(* What the assistant repeats of an expired proposal is what it proposed.   *)
LEMMA ReceiveKeeps ==
  ASSUME IInv, PostInv, Receive
  PROVE  IInv'
<1>1. /\ asking # 0 /\ asks[asking].state = "answered" /\ turn' = asking /\ asking' = 0
      /\ shown' = IF asks[asking].answer = "proposal" THEN asks[asking].call ELSE shown
      /\ UNCHANGED <<identity, asks, running, made, now, agreed, declined>>
  BY DEF Receive, PostInv
<1>2. asking \in Ids /\ asking = Len(asks) /\ Ids = 1..Len(asks) /\ Len(asks) \in Nat
  BY <1>1 DEF IInv, ViewInv, Typed, Ids
<1>3. CallInv!(asking) /\ asks[asking].call \in Callable
  BY <1>2, Rows
<1>4. shown' \in Callable
  BY <1>1, <1>3 DEF IInv, Typed
<1>5. Typed'
  BY <1>1, <1>2, <1>4 DEF IInv, Typed, Ids
<1>6. TokenInv'
  BY <1>1 DEF IInv, TokenInv, Ids
<1>7. asks[asking].answer \in Proposed => shown' = asks[asking].call
  <2>1. ASSUME asks[asking].answer = "expired" PROVE shown = asks[asking].call
    <3> DEFINE k == asks[asking].confirm
    <3>1. k # 0 /\ k \in Ids /\ asks[k].gated = asks[asking].gated
      BY <2>1, <1>2, <1>3
    <3>2. asks[k].answer \in Proposed /\ agreed[asking] = asks[k].call
      BY <3>1, <1>2 DEF IInv, TokenInv
    <3>3. agreed[asking] = shown
      BY <3>1, <1>1 DEF IInv, ViewInv
    <3>4. CallInv!(k)
      BY <3>1, Rows
    <3>5. asks[k].call = PlanFor(asks[asking].gated).call
      BY <3>1, <3>2, <3>4
    <3>6. asks[asking].call = PlanFor(asks[asking].gated).call
      BY <2>1, <1>3 DEF Proposed
    <3> QED BY <3>2, <3>3, <3>5, <3>6
  <2> QED BY <2>1, <1>1 DEF Proposed
<1>8. asking \notin declined
  <2>1. \A d \in declined : d < asking
    BY <1>1 DEF IInv, ViewInv
  <2> QED BY <1>2, <2>1
<1>9. ASSUME NEW n \in Ids PROVE asks[n].confirm # asking
  <2>1. asks[n].confirm \in 0..n - 1
    BY Rows
  <2> QED BY <2>1, <1>2
<1>10. ViewInv'
  BY <1>1, <1>7, <1>8, <1>9 DEF ViewInv, Ids
<1> QED BY <1>1, <1>5, <1>6, <1>10, ViewKeeps

(* An error turn, an edited identity, the clock, a step of the gateway, and *)
(* a stutter.                                                               *)
LEMMA OthersKeep ==
  ASSUME IInv,
         \/ ReceiveError \/ NetworkFails \/ (\E who \in Identities : SetIdentity(who))
         \/ Gateway \/ Tick \/ UNCHANGED vars
  PROVE  IInv'
<1>1. /\ identity' \in Identities /\ now' \in Nat
      /\ UNCHANGED <<asks, running, made, shown, agreed, declined>>
      /\ turn' \in {0, turn} /\ asking' \in {0, asking} /\ (asking' = asking \/ turn' = 0)
  BY DEF ReceiveError, NetworkFails, ErrorTurn, SetIdentity, Tick, Gateway, HeadersArrive,
         BodyArrives, CallThrows, TimerFires, Post, vars, IInv, Typed
<1>2. Typed'
  BY <1>1 DEF IInv, Typed, Ids
<1>3. TokenInv'
  BY <1>1 DEF IInv, TokenInv, Ids
<1>4. ViewInv'
  BY <1>1 DEF IInv, ViewInv, Ids
<1> QED BY <1>1, <1>2, <1>3, <1>4, ViewKeeps

(* Every step keeps the invariant.                                          *)
LEMMA NextIInv ==
  ASSUME IInv, PostInv, [Next]_vars
  PROVE  IInv'
<1>1. ASSUME NEW n, Answer(n) PROVE IInv'
  BY <1>1, AnswerKeeps
<1>2. ASSUME NEW n, CallFails(n) PROVE IInv'
  BY <1>2, CallFailsKeeps
<1>3. ASSUME NEW n, Performs(n) \/ Refuses(n) \/ Throws(n, TRUE) \/ Throws(n, FALSE) PROVE IInv'
  BY <1>3, SkillKeeps
<1>4. CASE (\E s \in Sentences : Say(s)) \/ Yes
  BY <1>4, SpeakKeeps
<1>5. CASE No
  BY <1>5, NoKeeps
<1>6. CASE Receive
  BY <1>6, ReceiveKeeps
<1>7. CASE \/ ReceiveError \/ NetworkFails \/ (\E who \in Identities : SetIdentity(who))
           \/ Gateway \/ Tick \/ UNCHANGED vars
  BY <1>7, OthersKeep
<1> QED BY <1>1, <1>2, <1>3, <1>4, <1>5, <1>6, <1>7, Zenon DEF Next

(* An ask that has been answered is not answered again.                     *)
LEMMA AnsweredStays ==
  ASSUME IInv, NEW n, asking \in Ids, asks[asking].state = "answered",
         Answer(n) \/ CallFails(n) \/ Performs(n) \/ Refuses(n) \/ Throws(n, TRUE) \/ Throws(n, FALSE)
  PROVE  asks'[asking].state = "answered"
<1> USE DEF Ids
<1>1. ASSUME NEW st, NEW c, NEW an, asks[n].state # "answered", SetAsk(n, st, c, an)
      PROVE  asks'[asking].state = "answered"
  BY <1>1 DEF SetAsk
<1>2. CASE Answer(n)
  BY <1>1, <1>2 DEF Answer, Asked
<1>3. CASE CallFails(n)
  BY <1>1, <1>3 DEF CallFails
<1>4. ASSUME NEW end, NEW wrote, Ended(n, end, wrote) PROVE asks'[asking].state = "answered"
  BY <1>1, <1>4 DEF Ended
<1>5. CASE Performs(n) \/ Refuses(n) \/ Throws(n, TRUE) \/ Throws(n, FALSE)
  BY <1>4, <1>5 DEF Performs, Refuses, Throws
<1> QED BY <1>2, <1>3, <1>5

LEMMA NextPostInv ==
  ASSUME IInv, PostInv, [Next]_vars
  PROVE  PostInv'
<1>0. asking # 0 => asking \in Ids
  BY DEF IInv, Typed, Ids
<1>1. CASE Gateway
  BY <1>1 DEF Gateway, HeadersArrive, BodyArrives, CallThrows, TimerFires, Post, Armed, PostInv
<1>2. CASE Receive \/ ReceiveError \/ NetworkFails
  BY <1>2 DEF Receive, ReceiveError, NetworkFails, ErrorTurn, PostInv
<1>3. CASE (\E s \in Sentences : Say(s)) \/ Yes
  BY <1>3 DEF Say, Yes, Ask, PostInv
<1>4. CASE No \/ (\E who \in Identities : SetIdentity(who)) \/ Tick \/ UNCHANGED vars
  BY <1>4 DEF No, SetIdentity, Tick, vars, PostInv
<1>5. ASSUME NEW n,
             Answer(n) \/ CallFails(n) \/ Performs(n) \/ Refuses(n) \/ Throws(n, TRUE) \/ Throws(n, FALSE)
      PROVE  PostInv'
  <2>1. UNCHANGED <<asking, post>>
    BY <1>5 DEF Answer, CallFails, Performs, Refuses, Throws, Ended
  <2>2. asking # 0 /\ asks[asking].state = "answered" => asks'[asking].state = "answered"
    BY <1>0, <1>5, AnsweredStays
  <2> QED BY <2>1, <2>2 DEF PostInv
<1> QED BY <1>1, <1>2, <1>3, <1>4, <1>5, Zenon DEF Next

-----------------------------------------------------------------------------
(* A write was made once, through a token, and is the call agreed to.       *)
LEMMA Spent ==
  ASSUME IInv, NEW n \in Ids, made[n] > 0
  PROVE  /\ made[n] = 1 /\ asks[n].confirm # 0 /\ asks[n].confirm \in Ids
         /\ asks[n].call = agreed[n]
<1> DEFINE k == asks[n].confirm
<1>1. CallInv!(n) /\ Ids = 1..Len(asks) /\ Len(asks) \in Nat
  BY Rows
<1>2. /\ made[n] = 1 /\ k # 0 /\ asks[k].gated = asks[n].gated
      /\ asks[n].call = PlanFor(asks[n].gated).call
  BY <1>1
<1>3. k \in Ids
  BY <1>1, <1>2
<1>4. asks[k].answer \in Proposed /\ agreed[n] = asks[k].call
  BY <1>2 DEF IInv, TokenInv
<1>5. asks[k].call = PlanFor(asks[k].gated).call
  <2>1. CallInv!(k)
    BY <1>3, Rows
  <2> QED BY <1>4, <2>1
<1> QED BY <1>2, <1>3, <1>4, <1>5

(* The invariant implies each of the properties.                            *)
LEMMA TypeHolds == ASSUME IInv, PostInv PROVE TypeOK
<1>1. DOMAIN asks = 1..Len(asks) /\ DOMAIN made = 1..Len(asks) /\ DOMAIN agreed = 1..Len(asks)
  BY DEF IInv, Typed
<1>2. \A n \in Ids : asks[n].state \in {"sent", "calling", "answered"}
  BY Rows DEF AskRow, States
<1> QED BY <1>1, <1>2 DEF IInv, PostInv, Typed, TypeOK, Ids

LEMMA Agrees == ASSUME IInv, PostInv PROVE OnlyWhatWasAgreed
BY TypeHolds, Spent DEF OnlyWhatWasAgreed

LEMMA SpendsOnce == ASSUME IInv PROVE EachProposalOnce
<1> SUFFICES ASSUME NEW n \in Ids, made[n] > 0
             PROVE  /\ asks[n].confirm \notin declined
                    /\ \A m \in Ids \ {n} : asks[m].confirm # asks[n].confirm \/ made[m] = 0
  BY DEF EachProposalOnce
<1>1. asks[n].confirm # 0
  BY Spent
<1>2. TokenInv!(n)!2
  BY <1>1 DEF IInv, TokenInv
<1> QED BY <1>2

(* The invariant holds of every conversation: sentences, users, credits and *)
(* districts, the number of asks and the clock are arbitrary.               *)
LEMMA Always == Spec => [](IInv /\ PostInv)
<1>1. Init => PostInv
  BY DEF Init, PostInv
<1> QED BY InitIInv, NextIInv, NextPostInv, <1>1, PTL DEF Spec

(* The view waits for an ask that was sent, and every ask is in one of its  *)
(* three states (SaathiView.tsx 82-108).                                    *)
THEOREM Types == Spec => []TypeOK
BY Always, TypeHolds, PTL

(* Whatever an agent writes for a user is what the summary on the screen    *)
(* said when the user pressed "Yes, do it", also when the identity was      *)
(* edited or the token ran out in between (SaathiView.tsx 82-108,           *)
(* confirm.ts 62-84, planner.ts 142-186).                                   *)
THEOREM OnlyAgreed == Spec => []OnlyWhatWasAgreed
BY Always, Agrees, PTL

(* No proposal is acted on twice, or after No, although a token may be      *)
(* spent again: the view shows one button, of its newest turn               *)
(* (SaathiView.tsx 106-109).                                                *)
THEOREM ProposalsSpentOnce == Spec => []EachProposalOnce
BY Always, SpendsOnce, PTL

(* The assistant says "done" only of what was written, and what it says was *)
(* not done is not done later: no call of it runs on (planner.ts 169-186,   *)
(* client.ts 79-144).                                                       *)
THEOREM AnswersTrue == Spec => []AnswersAreTrue
<1>1. IInv => AnswersAreTrue
  BY DEF IInv
<1> QED BY <1>1, Always, PTL

-----------------------------------------------------------------------------
(* Sentences.  The word lists find finitely many forms, each of some length. *)
FormsOf(s) == s.crops \cup s.places

IsSentence(s) == \E n \in Nat : \A f \in FormsOf(s) : f.length \in 0..n

(* The readings of a sentence: those of the embedding are any.              *)
SaysSo(s, intent) ==
  intent = "retire_credit" => "retire" \in s.marks \/ intent \in DOMAIN s.nearest

Readings(s) ==
  [intent : {i \in Intents \cup DOMAIN s.nearest : SaysSo(s, i)},
   score : 0..100 \cup {s.nearest[i] : i \in DOMAIN s.nearest}]

(* Every set of naturals has a least element.                               *)
LEMMA LeastNat ==
  ASSUME NEW S, S \subseteq Nat, S # {}
  PROVE  \E x \in S : \A y \in S : x <= y
<1>1. PICK x \in S : \A y \in S : ~ (<<y, x>> \in OpToRel(<, Nat))
  BY NatLessThanWellFounded, WFMin
<1>2. \A y \in S : ~ (y < x)
  BY <1>1 DEF OpToRel
<1> QED BY <1>2

(* The longest form a sentence contains is the one that is read.            *)
LEMMA LongestForm ==
  ASSUME NEW forms, NEW n \in Nat, \A f \in forms : f.length \in 0..n, forms # {}
  PROVE  \E f \in forms : /\ ReadLongest(forms) = f.is
                          /\ \A g \in forms : g.length <= f.length
<1>1. \E f \in forms : \A g \in forms : f.length >= g.length
  <2> DEFINE D == {n - f.length : f \in forms}
  <2>1. D \in SUBSET Nat /\ D # {}
    OBVIOUS
  <2>2. PICK x \in D : \A y \in D : x <= y
    BY <2>1, LeastNat
  <2>3. PICK f \in forms : x = n - f.length
    BY <2>2
  <2>4. ASSUME NEW g \in forms PROVE f.length >= g.length
    <3>1. f.length \in Int /\ g.length \in Int /\ n - f.length <= n - g.length
      BY <2>2, <2>3
    <3> QED BY <3>1
  <2> QED BY <2>4
<1>2. PICK f \in forms : f = CHOOSE h \in forms : \A g \in forms : h.length >= g.length
  BY <1>1
<1>3. \A g \in forms : f.length >= g.length
  BY <1>1, <1>2
<1>4. \A g \in forms : f.length \in Int /\ g.length \in Int
  OBVIOUS
<1> QED BY <1>2, <1>3, <1>4 DEF ReadLongest

LEMMA OneReading ==
  ASSUME NEW s, NEW intent \in Intents, NEW score \in 0..100, SaysSo(s, intent)
  PROVE  <<[intent |-> intent, score |-> score]>> \in Seq(Readings(s))
<1>1. [intent |-> intent, score |-> score] \in Readings(s)
  BY DEF Readings
<1> QED BY <1>1

LEMMA CandidatesAreReadings ==
  ASSUME NEW s, NEW slots
  PROVE  Candidates(s, slots) \in Seq(Readings(s))
<1> DEFINE has(mark)  == mark \in s.marks
           aboutLots  == has("lotStatus") \/ (slots.lotId # None /\ has("status"))
           declares   == has("declareVerb") \/ has("declareHint")
           namesWaste == slots.tonnes # None /\ slots.feedstock # None
           Single(i, n) == <<[intent |-> i, score |-> n]>>
<1>0. <<>> \in Seq(Readings(s))
  OBVIOUS
<1>1. \A i \in Intents : \A n \in 0..100 : SaysSo(s, i) => Single(i, n) \in Seq(Readings(s))
  BY OneReading
<1> HIDE DEF Single
<1>2. /\ {"how_it_works", "run_matching", "impact_summary", "credit_status", "lot_status",
          "declare_waste", "retire_credit"} \subseteq Intents
      /\ {60, 70, 85, 90, 95} \subseteq 0..100
  BY DEF Intents
<1>3. \A i \in Intents : \A n \in 0..100 :
        i # "retire_credit" \/ "retire" \in s.marks => Single(i, n) \in Seq(Readings(s))
  BY <1>1 DEF SaysSo
<1>4. /\ Candidate(has("howItWorks"), "how_it_works", 90) \in Seq(Readings(s))
      /\ Candidate(has("matching"), "run_matching", 85) \in Seq(Readings(s))
      /\ Candidate(has("impact"), "impact_summary", 85) \in Seq(Readings(s))
      /\ Candidate(has("retire"), "retire_credit", 90) \in Seq(Readings(s))
      /\ Candidate(slots.creditId # None /\ (has("status") \/ has("asks")), "credit_status", 85)
           \in Seq(Readings(s))
      /\ Candidate(aboutLots, "lot_status", 85) \in Seq(Readings(s))
      /\ Candidate(~aboutLots /\ has("ours"), "lot_status", 70) \in Seq(Readings(s))
      /\ Candidate(namesWaste, "declare_waste", IF declares THEN 95 ELSE 90) \in Seq(Readings(s))
      /\ Candidate(~namesWaste /\ declares, "declare_waste", 60) \in Seq(Readings(s))
  <2> HIDE DEF aboutLots, declares, namesWaste
  <2> USE DEF Candidate
  <2>2. \A n \in {60, 70, 85, 90, 95} :
          /\ Single("how_it_works", n) \in Seq(Readings(s))
          /\ Single("run_matching", n) \in Seq(Readings(s))
          /\ Single("impact_summary", n) \in Seq(Readings(s))
          /\ Single("credit_status", n) \in Seq(Readings(s))
          /\ Single("lot_status", n) \in Seq(Readings(s))
          /\ Single("declare_waste", n) \in Seq(Readings(s))
          /\ "retire" \in s.marks => Single("retire_credit", n) \in Seq(Readings(s))
    BY <1>2, <1>3
  <2> QED BY <1>0, <2>2 DEF Single
<1>5. \A p, q \in Seq(Readings(s)) : p \o q \in Seq(Readings(s))
  OBVIOUS
<1> QED BY <1>4, <1>5 DEF Candidates

LEMMA EmbeddedIsReading ==
  ASSUME NEW s
  PROVE  EmbedCandidates(s) \in Seq(Readings(s))
<1> DEFINE near   == s.nearest
           Top(i) == \A j \in DOMAIN near \ {i} : near[i] - near[j] >= EMBED_MARGIN
           best   == {i \in DOMAIN near : i # "unknown" /\ near[i] >= EMBED_FLOOR /\ Top(i)}
           one    == CHOOSE i \in best : TRUE
<1>1. EmbedCandidates(s) = IF best = {} \/ ~s.isLanguage THEN <<>>
                           ELSE <<[intent |-> one, score |-> near[one]]>>
  BY DEF EmbedCandidates
<1>2. best # {} => one \in DOMAIN near
  OBVIOUS
<1>3. best # {} => [intent |-> one, score |-> near[one]] \in Readings(s)
  <2> HIDE DEF best, one
  <2> QED BY <1>2 DEF Readings, SaysSo
<1> HIDE DEF best, one, near
<1> QED BY <1>1, <1>3

(* What pick returns is no reading, or one of the owner's that names its    *)
(* object.                                                                  *)
LEMMA PickedIsReading ==
  ASSUME NEW R, NEW all \in Seq(R), NEW slots, NEW owner, NEW picked, picked = Pick(all, slots, owner)
  PROVE  /\ picked.slots = slots
         /\ \/ picked.intent = "unknown"
            \/ \E c \in R : /\ picked.intent = c.intent
                            /\ owner \in {None, c.intent}
                            /\ NamesItsObject(c.intent, slots)
<1> DEFINE eligible == {i \in DOMAIN all : owner \in {None, all[i].intent}
                                             /\ NamesItsObject(all[i].intent, slots)}
           best     == {i \in eligible : \A j \in eligible :
                          all[i].score > all[j].score
                            \/ (all[i].score = all[j].score /\ i <= j)}
           c        == all[CHOOSE i \in best : TRUE]
<1>1. picked = IF best = {} THEN [intent |-> "unknown", slots |-> slots, confidence |-> 0]
               ELSE [intent |-> c.intent, slots |-> slots, confidence |-> c.score]
  BY DEF Pick
<1>2. best # {} => \E i \in eligible : c = all[i]
  OBVIOUS
<1>3. \A i \in eligible : /\ all[i] \in R
                          /\ owner \in {None, all[i].intent}
                          /\ NamesItsObject(all[i].intent, slots)
  OBVIOUS
<1> HIDE DEF best, eligible, c
<1> QED BY <1>1, <1>2, <1>3

(* Every sentence, whatever it says: a write is proposed only to one that   *)
(* asks for it and names all it acts on (resolve.ts, answer.ts, plan).      *)
LEMMA WritesOfAnySentence ==
  ASSUME NEW s, IsSentence(s), NEW asker
  PROVE  WriteIsAsked(s, asker)
<1> DEFINE slots == Read(s)
           owner == SentenceOwner(s)
           all   == Candidates(s, slots) \o EmbedCandidates(s)
           read  == ResolveSentence(s)
           gated == Gated(read, asker)
           plan  == PlanFor(gated)
<1>1. all \in Seq(Readings(s))
  BY CandidatesAreReadings, EmbeddedIsReading
<1>2. read = Pick(all, slots, owner)
  BY DEF ResolveSentence
<1>3. slots = [creditId |-> s.creditId, lotId |-> s.lotId, tonnes |-> ReadTonnes(s.quantities),
               feedstock |-> ReadLongest(s.crops), district |-> ReadLongest(s.places),
               holder |-> None, declaredBy |-> None]
  BY DEF Read
<1> HIDE DEF all, slots, owner, read
<1>4. /\ read.slots = slots
      /\ \/ read.intent = "unknown"
         \/ \E c \in Readings(s) : /\ read.intent = c.intent
                                   /\ owner \in {None, c.intent}
                                   /\ NamesItsObject(c.intent, slots)
  BY <1>1, <1>2, PickedIsReading
<1>5. \/ gated.intent = "unknown"
      \/ /\ gated.intent = read.intent
         /\ SaysSo(s, read.intent)
         /\ owner \in {None, read.intent}
         /\ NamesItsObject(read.intent, slots)
  BY <1>4 DEF Gated, Readings
<1>6. gated.slots = [creditId |-> s.creditId, lotId |-> s.lotId, tonnes |-> ReadTonnes(s.quantities),
                     feedstock |-> ReadLongest(s.crops), district |-> ReadLongest(s.places),
                     holder |-> asker, declaredBy |-> asker]
  <2>1. gated.slots = [slots EXCEPT !.holder     = IF slots.holder = None THEN asker ELSE slots.holder,
                                    !.declaredBy = IF slots.declaredBy = None THEN asker ELSE slots.declaredBy]
    BY <1>4 DEF Gated
  <2>2. slots.holder = None /\ slots.declaredBy = None
    BY <1>3
  <2>3. gated.slots = [slots EXCEPT !.holder = asker, !.declaredBy = asker]
    BY <2>1, <2>2
  <2> HIDE DEF gated
  <2> QED BY <1>3, <2>3
<1> HIDE DEF gated
<1>7. /\ "howItWorks" \in s.marks => gated.intent \in {"how_it_works", "unknown"}
      /\ AttemptedWrite(s) # None /\ "howItWorks" \notin s.marks =>
           gated.intent \in {AttemptedWrite(s), "unknown"}
      /\ "retire" \in s.marks => gated.intent \in {"how_it_works", "retire_credit", "unknown"}
  BY <1>5, NoneAssumption DEF owner, SentenceOwner, AttemptedWrite, Intents
<1>8. plan.status = "write" =>
        /\ gated.intent \in {"run_matching", "retire_credit", "declare_waste"}
        /\ gated.intent = "run_matching" => plan = PlanRunMatching(gated.slots)
        /\ gated.intent = "retire_credit" => plan = PlanRetire(gated.slots)
        /\ gated.intent = "declare_waste" => plan = PlanDeclare(gated.slots)
  BY DEF PlanFor, PlanLotStatus, PlanImpactSummary, PlanCreditStatus, Need, ReadPlan
<1> HIDE DEF plan
<1>9. ASSUME plan.status = "write"
      PROVE  /\ "howItWorks" \notin s.marks
             /\ plan.call.skill = "retireCredit" =>
                  s.creditId \in CreditIds
                    /\ ("retire" \in s.marks \/ "retire_credit" \in DOMAIN s.nearest)
             /\ plan.call.skill = "declareWaste" =>
                  /\ s.quantities # <<>> /\ Plausible(Head(s.quantities)) # None
                  /\ \E crop \in s.crops :
                       /\ plan.call.of[1] = crop.is
                       /\ \A other \in s.crops : other.length <= crop.length
                  /\ plan.call.of[3] \in Known \cap {place.is : place \in s.places}
                  /\ "retire" \notin s.marks
             /\ plan.call.skill # "runMatching" => plan.call.by = asker
  <2>1. "howItWorks" \notin s.marks
    BY <1>7, <1>8, <1>9
  <2>2. CASE gated.intent = "run_matching"
    <3>1. plan.call.skill = "runMatching"
      BY <1>8, <1>9, <2>2 DEF PlanRunMatching, WritePlan
    <3> QED BY <2>1, <3>1
  <2>3. CASE gated.intent = "retire_credit"
    <3>1. /\ plan.call.skill = "retireCredit" /\ plan.call.by = asker
          /\ s.creditId \in CreditIds
      BY <1>6, <1>8, <1>9, <2>3 DEF PlanRetire, WritePlan, Need
    <3>2. "retire" \in s.marks \/ "retire_credit" \in DOMAIN s.nearest
      BY <1>5, <2>3 DEF SaysSo
    <3> QED BY <2>1, <3>1, <3>2
  <2>4. CASE gated.intent = "declare_waste"
    <3> DEFINE crop   == ReadLongest(s.crops)
               place  == ReadLongest(s.places)
               tonnes == ReadTonnes(s.quantities)
    <3>1. /\ plan = WritePlan("declareWaste", <<crop, tonnes, place>>, asker)
          /\ crop # None /\ tonnes # None /\ place # None /\ place \in Known
      <4>1. plan = PlanDeclare(gated.slots)
        BY <1>8, <1>9, <2>4
      <4>2. /\ gated.slots.feedstock = crop /\ gated.slots.tonnes = tonnes
            /\ gated.slots.district = place /\ gated.slots.declaredBy = asker
        BY <1>6
      <4> HIDE DEF crop, place, tonnes
      <4> QED BY <1>9, <4>1, <4>2 DEF PlanDeclare, Need
    <3>2. /\ plan.call.skill = "declareWaste" /\ plan.call.by = asker
          /\ plan.call.of[1] = crop /\ plan.call.of[3] = place
      <4> HIDE DEF crop, place, tonnes
      <4> QED BY <3>1 DEF WritePlan
    <3>3. s.quantities # <<>> /\ Plausible(Head(s.quantities)) # None
      BY <3>1 DEF ReadTonnes
    <3>4. s.crops # {} /\ s.places # {}
      BY <3>1 DEF ReadLongest
    <3>5. PICK n \in Nat : \A f \in FormsOf(s) : f.length \in 0..n
      BY DEF IsSentence
    <3>6. \E f \in s.crops : crop = f.is /\ \A g \in s.crops : g.length <= f.length
      BY <3>4, <3>5, LongestForm DEF FormsOf
    <3>7. \E f \in s.places : place = f.is
      BY <3>4, <3>5, LongestForm DEF FormsOf
    <3>8. "retire" \notin s.marks
      BY <1>7, <2>4
    <3> HIDE DEF crop, place, tonnes
    <3> QED BY <2>1, <3>1, <3>2, <3>3, <3>6, <3>7, <3>8
  <2> QED BY <1>8, <1>9, <2>2, <2>3, <2>4
<1> QED BY <1>7, <1>9 DEF WriteIsAsked, gated, plan, read

(* So WritesAreAsked holds of every sentence, whoever says it (the resolver *)
(* and the planner of the assistant).                                       *)
THEOREM WritesAlwaysAsked == (case.of = "sentence" => IsSentence(case.sentence)) => WritesAreAsked
BY WritesOfAnySentence DEF WritesAreAsked
=============================================================================
