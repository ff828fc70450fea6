------------------------------- MODULE Traces -------------------------------
(***************************************************************************)
(* What the screens of apps/web read from the gateway: GET /api/ledger and *)
(* GET /api/trace/:taskId (apps/gateway/src/trace.ts), over the rows the   *)
(* verifier and the registry leave behind.  Every call to an agent is a    *)
(* task of its own (callAgent sends taskId ""), so a task appends one      *)
(* decision here; it is named by the position of that decision.            *)
(*                                                                         *)
(* Every evidence has its match (a foreign key) and every verification its *)
(* evidence, so a bundle says "evidence" for the lot, match and evidence.  *)
(***************************************************************************)
EXTENDS HashChain, FiniteSets

CONSTANT MaxRows  \* bound on the ledger

ASSUME MaxRowsAssumption == MaxRows \in Nat

VARIABLES
  ledger,         \* decision_log
  verifications,  \* rows [taskId, evidenceId, verdict]
  credits,        \* rows [taskId, evidenceId]; creditId is its task
  retired         \* the creditIds whose status is retired

server == <<ledger, verifications, credits, retired>>

ServerInit ==
  /\ ledger = <<>>
  /\ verifications = {}
  /\ credits = {}
  /\ retired = {}

NewTask == Len(ledger) + 1

Decide(action) ==
  /\ Len(ledger) < MaxRows
  /\ ledger' = Append(ledger, LinkDecision(LastBySeq(ledger), [taskId |-> NewTask, action |-> action]))

(* The verifier and the registry, as these screens see them (Verifier and   *)
(* Registry have what they do).                                             *)
Verify(verdict) ==
  /\ Decide("verifyEvidence")
  /\ verifications' = verifications
       \cup {[taskId |-> NewTask, evidenceId |-> NewTask, verdict |-> verdict]}
  /\ UNCHANGED <<credits, retired>>

Issue(v) ==
  /\ v.verdict = "accepted"
  /\ \A c \in credits : c.evidenceId # v.evidenceId
  /\ Decide("issueCredit")
  /\ credits' = credits \cup {[taskId |-> NewTask, evidenceId |-> v.evidenceId]}
  /\ UNCHANGED <<verifications, retired>>

Retire(c) ==
  /\ c.taskId \notin retired
  /\ Decide("retireCredit")
  /\ retired' = retired \cup {c.taskId}
  /\ UNCHANGED <<verifications, credits>>

ServerNext ==
  \/ \E verdict \in {"accepted", "needs_review"} : Verify(verdict)
  \/ \E v \in verifications : Issue(v)
  \/ \E c \in credits : Retire(c)

-----------------------------------------------------------------------------
(* buildTrace: the rows written under the task id itself, then outwards     *)
(* through the foreign keys.  Each answer is a set of at most one.          *)
BuildTrace(taskId) ==
  LET credit == {c \in credits : c.taskId = taskId}
      own    == {v \in verifications : v.taskId = taskId}
      its    == {v \in verifications : own = {} /\ \E c \in credit : c.evidenceId = v.evidenceId}
      found  == own \cup its
  IN  {[taskId |-> t, credit |-> credit, verification |-> found,
        evidence |-> {v.evidenceId : v \in found}] :
         t \in {taskId} \cap {ledger[i].decision.taskId : i \in DOMAIN ledger}}
=============================================================================
