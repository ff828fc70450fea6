------------------------------- MODULE Saathi -------------------------------
(***************************************************************************)
(* Saathi: the chat view (apps/web/src/views/SaathiView.tsx), the          *)
(* assistant agent behind it (agents/assistant/src/planner.ts, answer.ts   *)
(* and the confirmation token of confirm.ts), and of the agents it calls   *)
(* what Producer and Registry show: a declaration always makes a lot, and  *)
(* a credit is retired once, by its holder.                                *)
(*                                                                         *)
(* An ask is one POST /api/saathi; the gateway and the assistant each give *)
(* up on their own, and what runs behind them runs on.  A token is the ask *)
(* that minted it: its signature commits to the intent and the slots of    *)
(* that ask, so nothing is stored for it and a restart of the assistant    *)
(* loses none.                                                             *)
(***************************************************************************)
EXTENDS Resolve, A2A, SequencesExt, FiniteSets

CONSTANTS
  Sentences,   \* what may be typed
  Identities,  \* who the user may be
  Holder,      \* who holds the credits
  MaxAsks,     \* bound on the asks
  MaxTicks     \* bound on the clock, in spans of CONFIRM_TTL_MS

ASSUME BoundsAssumption == MaxAsks \in Nat /\ MaxTicks \in Nat

VARIABLES
  (* The view *)
  identity,   \* who the user says to be
  turn,       \* the newest turn, when it is an answer: its ask; otherwise 0
  asking,     \* the ask the view waits for, or 0: busy
  (* The gateway *)
  post,       \* its callAgent for that ask: "fetch", then "body", then how it ended
  (* The assistant and the agents *)
  asks,       \* every ask, in the order they were sent
  running,    \* asks whose skill runs at an agent
  made,       \* made[n]: writes that ask n has made
  now,
  (* For the properties *)
  shown,      \* the summary last shown
  agreed,     \* agreed[n]: the summary shown when ask n was confirmed
  declined    \* proposals answered with No

vars == <<identity, turn, asking, post, asks, running, made, now, shown, agreed, declined>>

CONFIRM_TTL == 1
Ids         == DOMAIN asks
NoCall      == [skill |-> NoSkill, of |-> None, by |-> None]

Init ==
  /\ identity \in Identities
  /\ turn = 0 /\ asking = 0 /\ post = "idle" /\ asks = <<>>
  /\ running = {} /\ made = <<>> /\ now = 0
  /\ shown = NoCall /\ agreed = <<>> /\ declined = {}

-----------------------------------------------------------------------------
(* The view.                                                                *)

(* send: ask() takes the identity of this moment, and a token if any.       *)
Ask(sentence, confirm) ==
  /\ asking = 0 /\ Len(asks) < MaxAsks
  /\ asks' = Append(asks, [sentence |-> sentence, confirm |-> confirm,
               gated |-> Gated(ResolveSentence(sentence), identity),
               state |-> "sent", call |-> NoCall, expires |-> 0, answer |-> "none"])
  /\ asking' = Len(asks) + 1 /\ post' = "fetch"
  /\ made' = Append(made, 0)
  /\ agreed' = Append(agreed, IF confirm = 0 THEN NoCall ELSE shown)
  /\ UNCHANGED <<identity, running, now, shown, declined>>

Say(sentence) == turn' = 0 /\ Ask(sentence, 0)

(* A mistake: every proposal of the transcript keeps its button.            *)
ActionableForEver == {n \in Ids : asks[n].answer \in {"proposal", "expired"} /\ asking = 0}

(* Only the newest turn has one.                                            *)
Actionable ==
  IF turn # 0 /\ asks[turn].answer \in {"proposal", "expired"} THEN {turn} ELSE {}

Yes == \E n \in Actionable : Ask(asks[n].sentence, n) /\ UNCHANGED turn

No ==
  /\ asking = 0
  /\ \E n \in Actionable : declined' = declined \cup {n}
  /\ turn' = 0
  /\ UNCHANGED <<identity, asking, post, asks, running, made, now, shown, agreed>>

SetIdentity(who) ==
  /\ identity' = who
  /\ UNCHANGED <<turn, asking, post, asks, running, made, now, shown, agreed, declined>>

(* A turn of Saathi.  A proposal's reply is its summary; the reply of an    *)
(* expired one does not repeat it.                                          *)
Receive ==
  /\ post = "answer"
  /\ turn' = asking /\ asking' = 0 /\ post' = "idle"
  /\ shown' = IF asks[asking].answer = "proposal" THEN asks[asking].call ELSE shown
  /\ UNCHANGED <<identity, asks, running, made, now, agreed, declined>>

(* send catches: the transcript gets an error, and busy is cleared.         *)
ErrorTurn ==
  /\ turn' = 0 /\ asking' = 0 /\ post' = "idle"
  /\ UNCHANGED <<identity, asks, running, made, now, shown, agreed, declined>>

ReceiveError == post = "error" /\ ErrorTurn

(* The browser loses the gateway.  It has no timer of its own.              *)
NetworkFails == asking # 0 /\ ErrorTurn

-----------------------------------------------------------------------------
(* The gateway: callAgent of the assistant, under its 30 s timer.           *)

Post(from, to) ==
  /\ post \in from /\ post' = to
  /\ UNCHANGED <<identity, turn, asking, asks, running, made, now, shown, agreed, declined>>

(* The assistant answers when its task has ended: first the status line...  *)
HeadersArrive ==
  /\ asking # 0 /\ asks[asking].state = "answered"
  /\ Post({"fetch"}, "body")

(* ... and then the body, which may as well never be complete.              *)
BodyArrives == Post({"body"}, "answer")

(* No connection, a 429, a restart of the assistant, a JSON-RPC error.      *)
CallThrows == Post({"fetch", "body"}, "error")

(* A mistake: the timer is cleared when fetch returns.                      *)
ArmedForFetch == {"fetch"}

(* The timer is cleared once the body is read.                              *)
Armed == {"fetch", "body"}

TimerFires == Post(Armed, "error")

Gateway == HeadersArrive \/ BodyArrives \/ CallThrows \/ TimerFires

-----------------------------------------------------------------------------
(* The assistant.                                                           *)

SetAsk(n, state, call, answer) ==
  asks' = [asks EXCEPT ![n] = [@ EXCEPT !.state = state, !.call = call, !.answer = answer,
             !.expires = IF answer \in {"proposal", "expired"} THEN now + CONFIRM_TTL ELSE 0]]

(* A mistake: the clock is asked before the signature.                      *)
CheckClockFirst(token, gated) ==
  IF now > asks[token].expires THEN "expired"
  ELSE IF asks[token].gated # gated THEN "mismatch" ELSE "ok"

(* checkConfirmation; the view sends no malformed token.                    *)
CheckConfirmation(token, gated) ==
  IF asks[token].gated # gated THEN "mismatch"
  ELSE IF now > asks[token].expires THEN "expired" ELSE "ok"

Asked(n) == n \in Ids /\ asks[n].state = "sent"

(* makePlanner, up to its first call.                                       *)
Answer(n) ==
  /\ Asked(n)
  /\ LET ask     == asks[n]
         plan    == PlanFor(ask.gated)
         checked == IF plan.status # "write" THEN "ok"
                    ELSE IF ask.confirm = 0 THEN "proposal"
                    ELSE CheckConfirmation(ask.confirm, ask.gated)
     IN  IF plan.status = "need"
         THEN SetAsk(n, "answered", NoCall, "need") /\ UNCHANGED running
         ELSE IF checked # "ok"
         THEN SetAsk(n, "answered", plan.call, checked) /\ UNCHANGED running
         ELSE SetAsk(n, "calling", plan.call, "none") /\ running' = running \cup {n}
  /\ UNCHANGED <<identity, turn, asking, post, made, now, shown, agreed, declined>>

(* What the assistant says once callAgent is back (refusal, or plan.done).  *)
Reply(n, result) ==
  CASE result = "ok"      -> "done"
    [] result = "refused" -> "refused"
    [] result = "failed"  -> "unavailable"

(* callAgent ended without the agent's task: no connection, or the          *)
(* assistant's own timer.                                                   *)
CallFails(n) ==
  /\ n \in Ids /\ asks[n].state = "calling"
  /\ SetAsk(n, "answered", asks[n].call, Reply(n, CallAgent(FALSE, NoSkill)))
  /\ UNCHANGED <<identity, turn, asking, post, running, made, now, shown, agreed, declined>>

-----------------------------------------------------------------------------
(* The agents: how the skill of ask n may end, and whether it has changed   *)
(* anything by then.                                                        *)

Retired(credit) ==
  \E n \in Ids : made[n] > 0 /\ asks[n].call.skill = "retireCredit" /\ asks[n].call.of = credit

Writes(call) == call.skill \in {"retireCredit", "declareWaste", "runMatching"}

(* retireCredit: only the holder retires, and again changes nothing.        *)
Refused(call) == call.skill = "retireCredit" /\ call.by # Holder
NothingLeft(call) == call.skill = "retireCredit" /\ Retired(call.of)

Ended(n, end, wrote) ==
  LET task == Last(Execute(<<asks[n].call.skill>>, {asks[n].call.skill}, TRUE, end))
  IN  /\ running' = running \ {n}
      /\ made' = [made EXCEPT ![n] = IF wrote THEN @ + 1 ELSE @]
      /\ IF asks[n].state = "calling"
         THEN SetAsk(n, "answered", asks[n].call, Reply(n, CallAgent(TRUE, task)))
         ELSE UNCHANGED asks
      /\ UNCHANGED <<identity, turn, asking, post, now, shown, agreed, declined>>

(* The skill does its work.                                                 *)
Performs(n) ==
  /\ n \in running /\ ~Refused(asks[n].call)
  /\ Ended(n, [returned |-> TRUE, refusal |-> FALSE],
           Writes(asks[n].call) /\ ~NothingLeft(asks[n].call))

Refuses(n) ==
  /\ n \in running /\ Refused(asks[n].call)
  /\ Ended(n, [returned |-> FALSE, refusal |-> TRUE], FALSE)

(* It throws, before its write or after it: the append of the decision     *)
(* comes last.                                                              *)
Throws(n, wrote) ==
  /\ n \in running
  /\ wrote => Writes(asks[n].call) /\ ~Refused(asks[n].call) /\ ~NothingLeft(asks[n].call)
  /\ Ended(n, [returned |-> FALSE, refusal |-> FALSE], wrote)

Tick ==
  /\ now < MaxTicks /\ now' = now + 1
  /\ UNCHANGED <<identity, turn, asking, post, asks, running, made, shown, agreed, declined>>

Next ==
  \/ \E s \in Sentences : Say(s)
  \/ Yes
  \/ No
  \/ \E who \in Identities : SetIdentity(who)
  \/ Receive
  \/ ReceiveError
  \/ NetworkFails
  \/ Gateway
  \/ \E n \in 1..MaxAsks :
       \/ Answer(n)
       \/ CallFails(n)
       \/ Performs(n)
       \/ Refuses(n)
       \/ Throws(n, TRUE)
       \/ Throws(n, FALSE)
  \/ Tick

(* A timer that is armed fires, unless it is cleared first, and what the    *)
(* gateway answers arrives.  That the assistant, an agent or the network    *)
(* ever does anything is not assumed.                                       *)
Fairness == WF_vars(TimerFires) /\ WF_vars(Receive \/ ReceiveError)

Spec == Init /\ [][Next]_vars /\ Fairness

-----------------------------------------------------------------------------
TypeOK ==
  /\ identity \in Identities
  /\ turn \in 0..Len(asks) /\ asking \in 0..Len(asks)
  /\ post \in {"idle", "fetch", "body", "answer", "error"}
  /\ running \subseteq Ids /\ DOMAIN made = Ids /\ DOMAIN agreed = Ids
  /\ \A n \in Ids : asks[n].state \in {"sent", "calling", "answered"}

(* An agent writes for the user only what the summary on the screen said    *)
(* when the user pressed "Yes, do it", as whom it said, and once: the       *)
(* identity may be edited and the clock may run between the two             *)
(* (SaathiView.tsx 82-108, confirm.ts 62-84, planner.ts 142-186).           *)
OnlyWhatWasAgreed ==
  /\ TypeOK
  /\ \A n \in Ids : made[n] > 0 => made[n] = 1 /\ asks[n].call = agreed[n]

(* No proposal is acted on twice, or after No: the token could be spent     *)
(* again, only the view's newest-turn rule prevents it (SaathiView.tsx      *)
(* 106-109).                                                                *)
EachProposalOnce ==
  \A n \in Ids : made[n] > 0 =>
    /\ asks[n].confirm \notin declined
    /\ \A m \in Ids \ {n} : asks[m].confirm # asks[n].confirm \/ made[m] = 0

(* "done" is said of writes that were made, and every answer that says      *)
(* nothing was done, but "unavailable", stays true: no call of it runs on   *)
(* (planner.ts 169-186, client.ts 79-144).                                  *)
AnswersAreTrue ==
  \A n \in Ids :
    /\ asks[n].answer = "done" /\ Writes(asks[n].call) =>
         made[n] = 1 \/ NothingLeft(asks[n].call)
    /\ asks[n].answer \in {"need", "proposal", "mismatch", "expired", "refused"} =>
         made[n] = 0 /\ n \notin running

(* "I could not reach {agent} just now. Nothing was changed."               *)
(* (saathi/messages.ts 86).                                                 *)
UnavailableChangedNothing ==
  \A n \in Ids : asks[n].answer = "unavailable" => made[n] = 0

(* The view does not stay busy, whatever hangs behind the gateway and       *)
(* wherever its call hangs, the body of the answer included: the timer of   *)
(* the gateway's callAgent is the only one that ends an ask, and send       *)
(* clears busy however it ends (SaathiView.tsx 82-104, client.ts 106-147).  *)
AskingEnds == asking # 0 ~> asking = 0
=============================================================================
