-------------------------- MODULE CredentialPanel --------------------------
(***************************************************************************)
(* The right half of the Audit screen (AuditConsole.tsx, CredentialPanel): *)
(* it looks a task id up, shows the credential the trace holds, and on     *)
(* demand verifies its signature in the browser and reads its bit of the   *)
(* published status list.  Lookups and checks are asynchronous: a row's    *)
(* Trace button and the Enter key start a lookup while another is under    *)
(* way, and no answer is tied to what the panel shows when it comes.       *)
(***************************************************************************)
EXTENDS Traces

CONSTANTS
  None,
  Lookups  \* lookups that can be under way at once

VARIABLES
  lookup,     \* lookup[k]: the task id asked for, or None
  trace,      \* the set of at most one bundle shown
  err,        \* what the panel says of the last lookup that came back
  busy,       \* the Trace button is greyed out
  check,      \* per kind of check: [state, of] as shown
  jobs,       \* checks under way: [kind, of]
  overtaken   \* a lookup was under way while a check was (history)

panel == <<lookup, trace, err, busy, check, jobs, overtaken>>

Kinds == {"signature", "list"}
Idle  == [k \in Kinds |-> [state |-> "idle", of |-> None]]

Credit == UNION {b.credit : b \in trace}

PanelFresh ==
  /\ lookup = [k \in Lookups |-> None]
  /\ trace = {} /\ err = "" /\ busy = FALSE
  /\ check = Idle /\ jobs = {} /\ overtaken = FALSE

-----------------------------------------------------------------------------
(* A mistake: the checks of the credential before stay on the screen.       *)
LookupKeepingChecks(k, id) ==
  /\ lookup[k] = None
  /\ lookup' = [lookup EXCEPT ![k] = id]
  /\ busy' = TRUE
  /\ err' = ""
  /\ overtaken' = (jobs # {})
  /\ UNCHANGED <<server, trace, check, jobs>>

(* lookup(id), from the button, the Enter key or a decision row.            *)
Lookup(k, id) ==
  /\ lookup[k] = None
  /\ lookup' = [lookup EXCEPT ![k] = id]
  /\ busy' = TRUE
  /\ err' = ""
  /\ check' = Idle
  /\ overtaken' = (jobs # {})
  /\ UNCHANGED <<server, trace, jobs>>

(* GET /api/trace/:taskId; its 404 carries {error: "no such task id"},      *)
(* which api.ts makes the text of the error, so that explainTraceFailure    *)
(* finds no "404" in it to explain.                                         *)
LookupAnswers(k) ==
  /\ lookup[k] # None
  /\ trace' = BuildTrace(lookup[k])
  /\ err' = IF trace' = {} THEN "no such task id" ELSE err
  /\ lookup' = [lookup EXCEPT ![k] = None]
  /\ busy' = FALSE
  /\ UNCHANGED <<server, check, jobs, overtaken>>

LookupFails(k) ==
  /\ lookup[k] # None
  /\ trace' = {}
  /\ err' = "failed"
  /\ lookup' = [lookup EXCEPT ![k] = None]
  /\ busy' = FALSE
  /\ UNCHANGED <<server, check, jobs, overtaken>>

-----------------------------------------------------------------------------
(* verifySignature() and checkStatusList(), of the credential shown.        *)
Press(kind) ==
  /\ \E c \in Credit :
       /\ jobs' = jobs \cup {[kind |-> kind, of |-> c.taskId]}
       /\ check' = [check EXCEPT ![kind] = [state |-> "checking", of |-> c.taskId]]
  /\ overtaken' = (overtaken \/ \E k \in Lookups : lookup[k] # None)
  /\ UNCHANGED <<server, lookup, trace, err, busy>>

Finish(job, state) ==
  /\ jobs' = jobs \ {job}
  /\ check' = [check EXCEPT ![job.kind] = [state |-> state, of |-> job.of]]
  /\ UNCHANGED <<server, lookup, trace, err, busy, overtaken>>

(* The registry signed what it issued.                                      *)
SignatureVerifies(job) == job.kind = "signature" /\ Finish(job, "ok")

(* The list's own signature is verified, then one bit of it is read.        *)
BitAt(id) == IF id \in retired THEN "revoked" ELSE "live"

ListIsRead(job) == job.kind = "list" /\ Finish(job, BitAt(job.of))

(* A library that does not load, a list that is elsewhere, answers an error *)
(* or is no credential.                                                     *)
CheckFails(job) == Finish(job, "failed")

-----------------------------------------------------------------------------
PanelNext ==
  \/ \E k \in Lookups, id \in 1..MaxRows : Lookup(k, id)
  \/ \E k \in Lookups : LookupAnswers(k) \/ LookupFails(k)
  \/ \E kind \in Kinds : Press(kind)
  \/ \E job \in jobs : SignatureVerifies(job) \/ ListIsRead(job) \/ CheckFails(job)

-----------------------------------------------------------------------------
(* "Verified in this browser", "revoked per the list": a check is shown     *)
(* beside the credential it was made of, unless a lookup was under way while*)
(* it was; and what it says of the list was so, and is so for good.         *)
ChecksAreOfThisCredential ==
  /\ overtaken \/ \A kind \in Kinds :
       check[kind].state = "idle" \/ check[kind].of \in {c.taskId : c \in Credit}
  /\ check["list"].state = "revoked" => check["list"].of \in retired
  /\ \A b \in trace : b.credit \subseteq credits
=============================================================================
