---------------------------- MODULE AuditConsole ----------------------------
(***************************************************************************)
(* The Audit screen (apps/web/src/views/AuditConsole.tsx): it loads the    *)
(* ledger into the browser, lets a reader edit records of that copy, and   *)
(* runs the server's own verifyChain over what it shows.  Loads are        *)
(* asynchronous and start from a button, from the window getting the focus *)
(* and from the page being shown, so several may be under way and their    *)
(* answers may come back in any order.                                     *)
(***************************************************************************)
EXTENDS Traces

CONSTANTS
  Actions,  \* what a reader may type over a record's action
  Loads     \* requests that can be under way at once

VARIABLES
  load,        \* load[l]: "free", "sent" or "answered"
  answer,      \* answer[l]: the ledger as it was when l was served
  chain,       \* the records on the screen
  pristine,    \* the records as they came
  verdict,     \* the set of at most one verdict: what the banner says
  tamperMode,  \* the records can be edited
  loading      \* the Reload button is greyed out

screen == <<chain, pristine, verdict, tamperMode>>
audit  == <<load, answer, screen, loading>>

(* The screen is opened: it loads at once.                                  *)
AuditFresh ==
  /\ load = [l \in Loads |-> IF l = CHOOSE first \in Loads : TRUE THEN "sent" ELSE "free"]
  /\ answer = [l \in Loads |-> <<>>]
  /\ chain = <<>>
  /\ pristine = <<>>
  /\ verdict = {}
  /\ tamperMode = FALSE
  /\ loading = TRUE

-----------------------------------------------------------------------------
StartLoad(l) ==
  /\ load[l] = "free"
  /\ load' = [load EXCEPT ![l] = "sent"]
  /\ loading' = TRUE
  /\ UNCHANGED <<server, answer, screen>>

PressReload(l) == ~ loading /\ StartLoad(l)

(* The page is shown or gets the focus: never mid-tamper-demo.              *)
Refresh(l) == ~ tamperMode /\ StartLoad(l)

(* GET /api/ledger                                                          *)
Serve(l) ==
  /\ load[l] = "sent"
  /\ load' = [load EXCEPT ![l] = "answered"]
  /\ answer' = [answer EXCEPT ![l] = ledger]
  /\ UNCHANGED <<server, screen, loading>>

Arrive(l) ==
  /\ load[l] = "answered"
  /\ load' = [load EXCEPT ![l] = "free"]
  /\ answer' = [answer EXCEPT ![l] = <<>>]
  /\ chain' = answer[l]
  /\ pristine' = answer[l]
  /\ verdict' = {}
  /\ tamperMode' = FALSE
  /\ loading' = FALSE
  /\ UNCHANGED server

LoadFails(l) ==
  /\ load[l] # "free"
  /\ load' = [load EXCEPT ![l] = "free"]
  /\ answer' = [answer EXCEPT ![l] = <<>>]
  /\ loading' = FALSE
  /\ UNCHANGED <<server, screen>>

-----------------------------------------------------------------------------
PressTamperDemo ==
  /\ chain # <<>>
  /\ tamperMode' = ~ tamperMode
  /\ UNCHANGED <<server, load, answer, chain, pristine, verdict, loading>>

Edited == {i \in DOMAIN chain : chain[i] # pristine[i]}

(* A mistake: the banner keeps the verdict on the records before the edit.  *)
TamperKeepingVerdict(seq, action) ==
  /\ tamperMode
  /\ \E i \in DOMAIN chain : chain[i].seq = seq
  /\ chain' = [i \in DOMAIN chain |->
                 IF chain[i].seq = seq THEN [chain[i] EXCEPT !.decision.action = action] ELSE chain[i]]
  /\ UNCHANGED <<server, load, answer, pristine, verdict, tamperMode, loading>>

(* tamper(seq, field, raw): every record on the screen that has this seq.   *)
Tamper(seq, action) ==
  /\ tamperMode
  /\ \E i \in DOMAIN chain : chain[i].seq = seq
  /\ chain' = [i \in DOMAIN chain |->
                 IF chain[i].seq = seq THEN [chain[i] EXCEPT !.decision.action = action] ELSE chain[i]]
  /\ verdict' = {}
  /\ UNCHANGED <<server, load, answer, pristine, tamperMode, loading>>

VerifyChain(records) ==
  IF ChainValid(records) THEN [valid |-> TRUE]
  ELSE [valid |-> FALSE, brokenAtSeq |-> BrokenAtSeq(records)]

PressVerify ==
  /\ chain # <<>>
  /\ verdict' = {VerifyChain(chain)}
  /\ UNCHANGED <<server, load, answer, chain, pristine, tamperMode, loading>>

PressRestore ==
  /\ Edited # {}
  /\ chain' = pristine
  /\ verdict' = {}
  /\ UNCHANGED <<server, load, answer, pristine, tamperMode, loading>>

-----------------------------------------------------------------------------
AuditNext ==
  \/ \E l \in Loads : PressReload(l) \/ Refresh(l) \/ Serve(l) \/ Arrive(l) \/ LoadFails(l)
  \/ PressTamperDemo
  \/ \E seq \in 0..MaxRows, action \in Actions : Tamper(seq, action)
  \/ PressVerify
  \/ PressRestore

-----------------------------------------------------------------------------
AuditTypeOK ==
  /\ \A l \in Loads : load[l] \in {"free", "sent", "answered"}
  /\ DOMAIN chain = DOMAIN pristine
  /\ tamperMode \in BOOLEAN /\ loading \in BOOLEAN
  /\ Cardinality(verdict) <= 1

(* The banner speaks of the records under it, whatever was edited, restored *)
(* or loaded since Verify was pressed.                                      *)
VerdictIsOfThisChain == \A v \in verdict : v = VerifyChain(chain)

(* "Edit one and watch it break at exactly that row" (README.md): the chain *)
(* is reported broken just when a record on the screen was edited, and at   *)
(* the first of them.                                                       *)
BreaksWhereEdited ==
  \A v \in verdict :
    /\ v.valid = (Edited = {})
    /\ ~ v.valid => v.brokenAtSeq = Min(Edited) - 1

(* What the screen took for the ledger is a prefix of it: no load, however  *)
(* late, shows records that were never there.                               *)
PristineIsLedgerPrefix ==
  /\ Len(pristine) <= Len(ledger)
  /\ pristine = SubSeq(ledger, 1, Len(pristine))

(* The banner of the Audit screen speaks of the records under it, reports a *)
(* break just where a record was edited, and what the screen took for the   *)
(* ledger was the ledger, whatever was loaded, late or out of order.        *)
AuditIsTrue ==
  /\ AuditTypeOK
  /\ VerdictIsOfThisChain
  /\ BreaksWhereEdited
  /\ PristineIsLedgerPrefix
=============================================================================
