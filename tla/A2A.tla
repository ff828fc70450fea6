--------------------------------- MODULE A2A --------------------------------
(***************************************************************************)
(* Agent to agent (packages/a2a/src): the life of a task on the server     *)
(* (server.ts) and what a caller makes of the response (client.ts).        *)
(*                                                                         *)
(* A part of a message is the skill it names, or NoSkill.  A skill runs to *)
(* an end [returned, refusal]: whether it returned, and when it threw,     *)
(* whether its text is one of the refusals isCallerError lists.            *)
(***************************************************************************)
EXTENDS Sequences

CONSTANT NoSkill

Named(parts) == SelectSeq(parts, LAMBDA skill : skill # NoSkill)

(* SkillExecutor.execute: the states a task is published in.  A refused     *)
(* input is text that starts with "invalid input", so a refusal.            *)
(* cancelTask is left out: no client of this repository sends it.           *)
Execute(parts, skills, valid, end) ==
  LET failed(refusal) == <<[state |-> "FAILED", output |-> FALSE, refusal |-> refusal]>>
      status(state)   == <<[state |-> state, output |-> FALSE, refusal |-> FALSE]>>
  IN  status("SUBMITTED") \o
        IF Named(parts) = <<>> \/ Head(Named(parts)) \notin skills THEN failed(FALSE)
        ELSE status("WORKING") \o
          IF ~valid THEN failed(TRUE)
          ELSE IF ~end.returned THEN failed(end.refusal)
          ELSE <<[state |-> "COMPLETED", output |-> TRUE, refusal |-> FALSE]>>

(* A mistake: whatever comes back with HTTP 200 is an answer.               *)
ExtractAnyAnswer(task) == FALSE

(* extract: a task failed when it says so and carries no output.            *)
Extract(task) == task.state = "FAILED" /\ ~task.output

(* callAgent, once the response is there.  Not an answer: an HTTP error     *)
(* (429, 401), a JSON-RPC error, or a failed task, which is a refusal when  *)
(* the caller is to blame.                                                  *)
CallAgent(http, task) ==
  IF ~http THEN "failed"
  ELSE IF Extract(task) THEN IF task.refusal THEN "refused" ELSE "failed"
  ELSE "ok"
=============================================================================
