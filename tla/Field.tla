-------------------------------- MODULE Field -------------------------------
(***************************************************************************)
(* Field capture (apps/web/src/views/FieldCapture.tsx) over its offline    *)
(* queue (views/field/queue.ts) in localStorage, which the tabs of one     *)
(* phone share; the gateway's POST /api/evidence, with what it makes of    *)
(* the errors of callAgent; and of the verifier what Verifier shows, that  *)
(* it keeps one row for each id and each photo.  Each await is a step.     *)
(***************************************************************************)
EXTENDS Positions

CONSTANTS
  Tabs,         \* tabs with the field view open
  Photos,       \* photographs, by their image hash
  Evidence,     \* evidence ids, in the order they are drawn
  NoPhoto,      \* no photo
  MAX_ATTEMPTS, \* server errors after which an item is given up: 10 in the code
  MaxFaults     \* bound on the sends that fail

ASSUME NoPhotoAssumption     == NoPhoto \notin Photos
ASSUME EvidenceAssumption    == Evidence \subseteq Nat
ASSUME MaxAttemptsAssumption == MAX_ATTEMPTS \in Nat \ {0, 1}
ASSUME MaxFaultsAssumption   == MaxFaults \in Nat

VARIABLES
  (* On the phone                                                           *)
  items,         \* the queue in localStorage: [ev, attempts], oldest first
  sentImageHash, \* sentImageHash[t]: the last photo t sent or queued
  todo,          \* todo[t]: what the flush of t has still to send, of its copy of the queue
  request,       \* request[t][k]: the send t awaits, k = "submit" or "flush"
  imageHash,     \* imageHash[e]: the photo of evidence e, once submitted
  (* At the verifier                                                        *)
  rows,          \* the evidence table, as evidence ids
  late,          \* evidence whose sender stopped waiting
  (* For the properties                                                     *)
  told,          \* told[e]: what the user was told of e
  serverErrors,  \* serverErrors[e]: sends of e that ended in a server error
  faults

server == <<rows, late>>
vars   == <<items, sentImageHash, todo, request, imageHash, server, told, serverErrors, faults>>

Idle    == [state |-> "idle"]
Kinds   == {"submit", "flush"}
Answers == {"verdict", "refused"}

(* How else a send may end, by the message the browser gets: no network; a  *)
(* proxy's page, "/evidence -> HTTP 502"; or the gateway's 500, whose body  *)
(* carries the message of callAgent: "verifier returned HTTP 429", "fetch   *)
(* failed", "This operation was aborted", "verifier.verifyEvidence failed". *)
Failures == {"offline", "proxyHttp", "agentHttp", "fetchFailed", "aborted", "skillFailed"}

(* A mistake: whatever the server sends back is a verdict.                  *)
AnyResponse(answer) == answer # "offline"
IsOk(answer)        == answer = "verdict"

(* A mistake: a missing network is a server error.                          *)
NeverOffline(answer) == FALSE
IsOffline(answer)    == answer = "offline"
IsRetryable(answer)  == answer \in {"offline", "proxyHttp", "agentHttp"}

Init ==
  /\ items = <<>>
  /\ sentImageHash = [t \in Tabs |-> NoPhoto]
  /\ todo = [t \in Tabs |-> <<>>]
  /\ request = [t \in Tabs |-> [k \in Kinds |-> Idle]]
  /\ imageHash = [e \in Evidence |-> NoPhoto]
  /\ rows = {} /\ late = {}
  /\ told = [e \in Evidence |-> {}]
  /\ serverErrors = [e \in Evidence |-> 0]
  /\ faults = 0

Queued == {items[i].ev : i \in DOMAIN items}
Drop(list, e) == KeepAt(list, {i \in DOMAIN list : list[i].ev # e})
Tell(e, what) == told' = [told EXCEPT ![e] = @ \cup {what}]

-----------------------------------------------------------------------------
Send(t, k, e) == request' = [request EXCEPT ![t][k] = [state |-> "sent", ev |-> e]]

(* The model has scored a photo and Submit is tapped.  The button           *)
(* is disabled while busy, and for the photo sent last; the id is fresh.    *)
Submit(t, e, p) ==
  /\ request[t]["submit"] = Idle
  /\ p # sentImageHash[t]
  /\ imageHash[e] = NoPhoto /\ \A d \in Evidence : d < e => imageHash[d] # NoPhoto
  /\ imageHash' = [imageHash EXCEPT ![e] = p]
  /\ Send(t, "submit", e)
  /\ UNCHANGED <<items, sentImageHash, todo, server, told, serverErrors, faults>>

(* A mistake: what was tried before is not tried again.                     *)
StartFlushUntried(t) ==
  /\ request[t]["flush"] = Idle /\ todo[t] = <<>>
  /\ items # <<>>
  /\ todo' = [todo EXCEPT ![t] = SelectSeq(items, LAMBDA item : item.attempts = 1)]
  /\ UNCHANGED <<items, sentImageHash, request, imageHash, server, told, serverErrors, faults>>

(* The timer, the "online" event or a tap: one flush per tab at a time, of  *)
(* the queue as it is now.                                                  *)
StartFlush(t) ==
  /\ request[t]["flush"] = Idle /\ todo[t] = <<>>
  /\ items # <<>>
  /\ todo' = [todo EXCEPT ![t] = items]
  /\ UNCHANGED <<items, sentImageHash, request, imageHash, server, told, serverErrors, faults>>

SendNext(t) ==
  /\ request[t]["flush"] = Idle /\ todo[t] # <<>>
  /\ Send(t, "flush", Head(todo[t]).ev)
  /\ UNCHANGED <<items, sentImageHash, todo, imageHash, server, told, serverErrors, faults>>

-----------------------------------------------------------------------------
(* verifyEvidence: a row for the id is replayed, a used photo refused, and  *)
(* any other payload accepted or refused.                                   *)
Accepts(e)  == e \in rows \/ \A r \in rows : imageHash[r] # imageHash[e]
Verified(e) == IF Accepts(e) THEN rows \cup {e} ELSE rows

Verify(t, k) ==
  /\ request[t][k].state = "sent"
  /\ LET e == request[t][k].ev
     IN \/ /\ Accepts(e)
           /\ rows' = Verified(e)
           /\ request' = [request EXCEPT ![t][k] = [@ EXCEPT !.state = "verdict"]]
        \/ /\ e \notin rows
           /\ request' = [request EXCEPT ![t][k] = [@ EXCEPT !.state = "refused"]]
           /\ UNCHANGED rows
  /\ UNCHANGED <<items, sentImageHash, todo, imageHash, late, told, serverErrors, faults>>

(* The skill goes on after its caller has gone, and ends or never does.     *)
VerifyLate(e) ==
  /\ e \in late
  /\ late' = late \ {e}
  /\ rows' = Verified(e)
  /\ UNCHANGED <<items, sentImageHash, todo, request, imageHash, told, serverErrors, faults>>

(* What a send comes back with: the verifier's answer, or a failure         *)
(* whatever the verifier did; what it had not answered may never have       *)
(* reached it, or be at work in it still.                                   *)
Returns(t, k, answer) ==
  \/ /\ request[t][k].state = answer /\ answer \in Answers
     /\ UNCHANGED <<late, faults>>
  \/ /\ request[t][k] # Idle /\ answer \in Failures
     /\ \/ UNCHANGED late
        \/ request[t][k].state = "sent" /\ late' = late \cup {request[t][k].ev}
     /\ faults < MaxFaults /\ faults' = faults + 1

Count(e, answer) ==
  serverErrors' = [serverErrors EXCEPT ![e] =
                     IF answer \in Failures \ {"offline"} THEN @ + 1 ELSE @]

Spent(t, e) == sentImageHash' = [sentImageHash EXCEPT ![t] = imageHash[e]]

(* EvidenceQueue.submit: sent, queued or failed.                            *)
SubmitReturns(t, answer) ==
  LET e == request[t]["submit"].ev
  IN /\ Returns(t, "submit", answer)
     /\ request' = [request EXCEPT ![t]["submit"] = Idle]
     /\ Count(e, answer)
     /\ \/ IsOk(answer) /\ Tell(e, "sent") /\ Spent(t, e) /\ UNCHANGED items
        \/ /\ IsRetryable(answer) /\ ~IsOk(answer)
           /\ items' = Append(Drop(items, e), [ev |-> e, attempts |-> 1])
           /\ Tell(e, "queued") /\ Spent(t, e)
        \/ /\ ~IsOk(answer) /\ ~IsRetryable(answer)
           /\ Tell(e, "failed") /\ UNCHANGED <<items, sentImageHash>>
     /\ UNCHANGED <<todo, imageHash, rows>>

(* A mistake: the list as it was before the await.                          *)
ListAsCopied(t) == todo[t]

(* The list a flush works on when its send has returned.                    *)
List(t) == items

(* One turn of the loop of flush, after its await.  The queue is read anew, *)
(* the attempts are those of the copy.                                      *)
FlushReturns(t, answer) ==
  LET e == Head(todo[t]).ev
      n == Head(todo[t]).attempts + 1
  IN /\ Returns(t, "flush", answer)
     /\ request' = [request EXCEPT ![t]["flush"] = Idle]
     /\ Count(e, answer)
     /\ todo' = [todo EXCEPT ![t] = IF IsOffline(answer) THEN <<>> ELSE Tail(@)]
     /\ \/ IsOk(answer) /\ items' = Drop(List(t), e) /\ Tell(e, "sent")
        \/ IsOffline(answer) /\ UNCHANGED <<items, told>>
        \/ ~IsOk(answer) /\ ~IsRetryable(answer) /\ items' = Drop(List(t), e) /\ Tell(e, "failed")
        \/ /\ ~IsOk(answer) /\ IsRetryable(answer) /\ ~IsOffline(answer) /\ n >= MAX_ATTEMPTS
           /\ items' = Drop(List(t), e) /\ Tell(e, "gaveUp")
        \/ /\ ~IsOk(answer) /\ IsRetryable(answer) /\ ~IsOffline(answer) /\ n < MAX_ATTEMPTS
           /\ items' = [i \in DOMAIN List(t) |->
                          IF List(t)[i].ev = e THEN [List(t)[i] EXCEPT !.attempts = n] ELSE List(t)[i]]
           /\ UNCHANGED told
     /\ UNCHANGED <<sentImageHash, imageHash, rows>>

(* The page is reloaded: what it held in memory is gone, what it had sent   *)
(* may still arrive.                                                        *)
Reload(t) ==
  /\ faults < MaxFaults /\ faults' = faults + 1
  /\ sentImageHash' = [sentImageHash EXCEPT ![t] = NoPhoto]
  /\ todo' = [todo EXCEPT ![t] = <<>>]
  /\ late' = late \cup {request[t][k].ev : k \in {j \in Kinds : request[t][j].state = "sent"}}
  /\ request' = [request EXCEPT ![t] = [k \in Kinds |-> Idle]]
  /\ UNCHANGED <<items, imageHash, rows, told, serverErrors>>

-----------------------------------------------------------------------------
Flush(t) ==
  \/ StartFlush(t) \/ SendNext(t) \/ Verify(t, "flush")
  \/ \E answer \in Answers \cup Failures : FlushReturns(t, answer)

Next ==
  \/ \E t \in Tabs :
       \/ \E e \in Evidence, p \in Photos : Submit(t, e, p)
       \/ Verify(t, "submit")
       \/ \E answer \in Answers \cup Failures : SubmitReturns(t, answer)
       \/ Flush(t)
       \/ Reload(t)
  \/ \E e \in Evidence : VerifyLate(e)

(* The timer fires, and a send ends.                                        *)
Spec == Init /\ [][Next]_vars /\ \A t \in Tabs : WF_vars(Flush(t))

-----------------------------------------------------------------------------
TypeOK ==
  /\ \A i \in DOMAIN items : items[i].ev \in Evidence /\ items[i].attempts \in 1..(MAX_ATTEMPTS - 1)
  /\ sentImageHash \in [Tabs -> Photos \cup {NoPhoto}]
  /\ rows \subseteq Evidence /\ late \subseteq Evidence
  /\ told \in [Evidence -> SUBSET {"sent", "queued", "failed", "gaveUp"}]

(* What the user was told is waiting is in the queue, once, until the user  *)
(* is told how it ended: no tab's flush or submit, across its awaits, loses *)
(* or revives an item of another (queue.ts reads the list anew each time).  *)
QueueIsWhatWasTold ==
  /\ TypeOK
  /\ \A e \in Evidence : e \in Queued <=> told[e] = {"queued"}
  /\ Len(items) = Cardinality(Queued)

(* "Delivered" is never wrong: what was reported sent is with the verifier, *)
(* and its photo with no other evidence (queue.ts, api.ts).                 *)
SentIsVerified ==
  \A e \in Evidence : "sent" \in told[e] =>
    e \in rows /\ \A r \in rows : imageHash[r] = imageHash[e] => r = e

(* An item is given up only after server errors, one fewer than the bound   *)
(* says when the first failure was a missing network, however tabs overlap. *)
GivesUpLate ==
  \A e \in Evidence : "gaveUp" \in told[e] => serverErrors[e] >= MAX_ATTEMPTS - 1

-----------------------------------------------------------------------------
(* Why the above hold, across the awaits of every tab.                      *)

Item    == [ev : Evidence, attempts : 1..(MAX_ATTEMPTS - 1)]
Request == [state : {"sent"} \cup Answers, ev : Evidence]

Types ==
  /\ items \in Seq(Item)
  /\ sentImageHash \in [Tabs -> Photos \cup {NoPhoto}]
  /\ todo \in [Tabs -> Seq(Item)]
  /\ request \in [Tabs -> [Kinds -> {Idle} \cup Request]]
  /\ imageHash \in [Evidence -> Photos \cup {NoPhoto}]
  /\ rows \subseteq Evidence /\ late \subseteq Evidence
  /\ told \in [Evidence -> SUBSET {"sent", "queued", "failed", "gaveUp"}]
  /\ serverErrors \in [Evidence -> Nat]

(* An id is on its way, or anywhere, only once it is drawn.                 *)
Drawn(e) == imageHash[e] # NoPhoto

DrawnInv ==
  /\ \A t \in Tabs, k \in Kinds : request[t][k] # Idle => Drawn(request[t][k].ev)
  /\ \A e \in rows \cup late : Drawn(e)
  /\ \A e \in Evidence : told[e] # {} => Drawn(e)

(* A submit is of evidence nobody has been told of, and no other submit's.  *)
SubmitInv ==
  /\ \A t \in Tabs : request[t]["submit"] # Idle => told[request[t]["submit"].ev] = {}
  /\ \A t, u \in Tabs :
       /\ request[t]["submit"] # Idle /\ request[u]["submit"] # Idle
       /\ request[t]["submit"].ev = request[u]["submit"].ev
       => t = u

(* A flush awaits the head of its copy, which is of evidence that was       *)
(* queued once, whether or not it still is.                                 *)
FlushInv ==
  \A t \in Tabs :
    /\ request[t]["flush"] # Idle => todo[t] # <<>> /\ request[t]["flush"].ev = Head(todo[t]).ev
    /\ \A i \in DOMAIN todo[t] : "queued" \in told[todo[t][i].ev]

QueueInv ==
  /\ \A i, j \in DOMAIN items : items[i].ev = items[j].ev => i = j
  /\ \A e \in Evidence : (\E i \in DOMAIN items : items[i].ev = e) <=> told[e] = {"queued"}

(* A verdict is about a row, and a row about a photo of its own.            *)
VerifiedInv ==
  /\ \A t \in Tabs, k \in Kinds : request[t][k].state = "verdict" => request[t][k].ev \in rows
  /\ \A e \in Evidence : "sent" \in told[e] => e \in rows
  /\ \A r, s \in rows : imageHash[r] = imageHash[s] => r = s

(* All but the first attempt were server errors.                            *)
AttemptsInv ==
  /\ \A i \in DOMAIN items : items[i].attempts <= serverErrors[items[i].ev] + 1
  /\ \A t \in Tabs : \A i \in DOMAIN todo[t] : todo[t][i].attempts <= serverErrors[todo[t][i].ev] + 1

IInv ==
  Types /\ DrawnInv /\ SubmitInv /\ FlushInv /\ QueueInv /\ VerifiedInv /\ AttemptsInv /\ GivesUpLate

-----------------------------------------------------------------------------
(* Once sends stop failing, the queue empties.                              *)
QueueDrains == <>[](items = <<>>)

(* "The gateway answers 500 when an agent is restarting, and field evidence *)
(* must not be lost to that" (queue.ts): what the verifier was not there to *)
(* take stays in the queue.  It does not: that 500 says "fetch failed", and *)
(* flush, which looks for a status in the message, drops the item.          *)
NotLostToARestart ==
  [][\A t \in Tabs : FlushReturns(t, "fetchFailed") =>
       request[t]["flush"].ev \in Queued' \cup rows' \cup late']_vars
=============================================================================
