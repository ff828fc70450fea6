------------------------------ MODULE Registry ------------------------------
(***************************************************************************)
(* The registry agent: issueCredit, retireCredit and the published status  *)
(* list (agents/registry/src).  Many calls run at once, in one process or  *)
(* in several; every await of a call is a step here, and any of them may   *)
(* fail or be the last thing a dying process did.                          *)
(*                                                                         *)
(* The ledger is the list of decisions Ledger implements, with its atomic  *)
(* append (Ledger!ImplementsAppendLog).  The hash of the newest decision   *)
(* names the whole prefix that ends there, so it is modelled by the length *)
(* of that prefix.                                                         *)
(***************************************************************************)
EXTENDS Naturals, Sequences, FiniteSets, Functions

CONSTANTS
  Calls,       \* skill calls; a retry is another call
  Gets,        \* GETs of the status list that may be under way at once
  Evidence,    \* evidence ids
  Matches,     \* match ids
  Holders,     \* producers, who hold the credits
  MatchOf,     \* MatchOf[e]: the matchId in e's evidence row
  HolderOf,    \* HolderOf[m]: the producer of m's lot, or NoHolder
  NoHolder,    \* the lot is gone
  Verdicts,    \* verdicts the verifier may record
  ListSize     \* bits in the status list

ASSUME MatchOfAssumption    == MatchOf \in [Evidence -> Matches]
ASSUME HolderOfAssumption   == HolderOf \in [Matches -> Holders \cup {NoHolder}]
ASSUME NoHolderAssumption   == NoHolder \notin Holders
ASSUME VerdictsAssumption   == Verdicts \subseteq {"accepted", "needs_review", "rejected"}
ASSUME ListSizeAssumption   == ListSize \in Nat

VARIABLES
  (* In the database                                                        *)
  verdicts,    \* verifications: verdicts[e], or "none"
  credits,     \* the credits table, a set of rows
  nextIndex,   \* the sequence credit_status_list_index_seq
  ledger,      \* decision_log, in order
  (* What the public has seen                                               *)
  list,        \* the bits set in any status list sent so far
  (* In the GETs under way                                                  *)
  get,         \* get[g]: what GET g has read, and what was public by then
  (* In the registry's calls                                                *)
  pc,          \* pc[c]: the next store operation of call c, or how it ended
  input,       \* input[c]: what c was called with
  index,       \* index[c]: the status-list index allocated to c
  head         \* head[c]: the custody head c put in its credential

vars == <<verdicts, credits, nextIndex, ledger, list, get, pc, input, index, head>>

NoGet == [state |-> "idle", before |-> {}, bits |-> {}]

IssueInputs  == [skill : {"issue"}, match : Matches, evidence : Evidence]
RetireInputs == [skill : {"retire"}, credit : Calls, by : Holders]
NoInput      == [skill |-> "none"]

IssueSteps  == {"findVerification", "findCreditByEvidence", "allocateIndex",
                "headDecision", "insertCredit", "appendIssue"}
RetireSteps == {"findCreditById", "markRetired", "appendRetire"}
Ends        == {"done", "refused", "collided", "failed"}

Running(c) == pc[c] \in IssueSteps \cup RetireSteps

(* creditId is drawn at random by the call that issues it: call c's credit  *)
(* is credit c.                                                             *)
Row(c) ==
  [id |-> c, evidence |-> input[c].evidence, match |-> input[c].match,
   holder |-> HolderOf[input[c].match], index |-> index[c], head |-> head[c],
   status |-> "issued"]

Decision(action, subject) == [action |-> action, subject |-> subject]

Init ==
  /\ verdicts = [e \in Evidence |-> "none"]
  /\ credits = {}
  /\ nextIndex = 0
  /\ ledger = <<>>
  /\ list = {}
  /\ get = [g \in Gets |-> NoGet]
  /\ pc = [c \in Calls |-> "new"]
  /\ input = [c \in Calls |-> NoInput]
  /\ index = [c \in Calls |-> 0]
  /\ head = [c \in Calls |-> 0]

-----------------------------------------------------------------------------
Goto(c, step) == pc' = [pc EXCEPT ![c] = step]

(* The verifier: it appends its decision, and then the verdict becomes      *)
(* visible.                                                                 *)
VerifierRecords(e, v) ==
  /\ verdicts[e] = "none"
  /\ verdicts' = [verdicts EXCEPT ![e] = v]
  /\ ledger' = Append(ledger, Decision("verifyEvidence", e))
  /\ UNCHANGED <<credits, nextIndex, list, get, pc, input, index, head>>

-----------------------------------------------------------------------------
(* issueCredit                                                              *)

StartIssue(c, in) ==
  /\ pc[c] = "new"
  /\ input' = [input EXCEPT ![c] = in]
  /\ Goto(c, "findVerification")
  /\ UNCHANGED <<verdicts, credits, nextIndex, ledger, list, get, index, head>>

(* Only an accepted verdict, read from the verifier's own row, goes on.     *)
FindVerification(c) ==
  /\ pc[c] = "findVerification"
  /\ Goto(c, IF verdicts[input[c].evidence] = "accepted"
             THEN "findCreditByEvidence" ELSE "refused")
  /\ UNCHANGED <<verdicts, credits, nextIndex, ledger, list, get, input, index, head>>

CreditsFor(e) == {r \in credits : r.evidence = e}

(* A mistake: evidence may be presented with any match.                     *)
FindCreditOnly(c) ==
  /\ pc[c] = "findCreditByEvidence"
  /\ Goto(c, IF CreditsFor(input[c].evidence) = {} THEN "allocateIndex" ELSE "refused")
  /\ UNCHANGED <<verdicts, credits, nextIndex, ledger, list, get, input, index, head>>

(* The readable double-counting check, and the one that the evidence        *)
(* belongs to the match it is presented with.                               *)
FindCreditByEvidence(c) ==
  /\ pc[c] = "findCreditByEvidence"
  /\ Goto(c, IF /\ CreditsFor(input[c].evidence) = {}
                /\ MatchOf[input[c].evidence] = input[c].match
             THEN "allocateIndex" ELSE "refused")
  /\ UNCHANGED <<verdicts, credits, nextIndex, ledger, list, get, input, index, head>>

(* A mistake: an index counted from the rows instead of drawn from the      *)
(* sequence.                                                                *)
AllocateByCounting(c) ==
  /\ pc[c] = "allocateIndex"
  /\ index' = [index EXCEPT ![c] = Cardinality(credits)]
  /\ Goto(c, IF HolderOf[input[c].match] = NoHolder THEN "refused" ELSE "headDecision")
  /\ UNCHANGED <<verdicts, credits, nextIndex, ledger, list, get, input, head>>

(* nextval: atomic, never reused, burned when the call goes no further.     *)
(* Then the lot must still have a producer to hold the credit.              *)
AllocateIndex(c) ==
  /\ pc[c] = "allocateIndex"
  /\ index' = [index EXCEPT ![c] = nextIndex]
  /\ nextIndex' = nextIndex + 1
  /\ Goto(c, IF HolderOf[input[c].match] = NoHolder THEN "refused" ELSE "headDecision")
  /\ UNCHANGED <<verdicts, credits, ledger, list, get, input, head>>

(* A mistake: ORDER BY seq without DESC.                                    *)
ReadOldest(c) ==
  /\ pc[c] = "headDecision"
  /\ head' = [head EXCEPT ![c] = IF ledger = <<>> THEN 0 ELSE 1]
  /\ Goto(c, "insertCredit")
  /\ UNCHANGED <<verdicts, credits, nextIndex, ledger, list, get, input, index>>

(* headDecisionHash, which is signed into the credential.                   *)
ReadHead(c) ==
  /\ pc[c] = "headDecision"
  /\ head' = [head EXCEPT ![c] = Len(ledger)]
  /\ Goto(c, "insertCredit")
  /\ UNCHANGED <<verdicts, credits, nextIndex, ledger, list, get, input, index>>

IndexTaken(c) == \E r \in credits : r.index = index[c]

(* Mistakes: no unique index on the evidence, and a conflict ignored.       *)
InsertUnguarded(c) ==
  /\ pc[c] = "insertCredit"
  /\ credits' = credits \cup {Row(c)}
  /\ Goto(c, "appendIssue")
  /\ UNCHANGED <<verdicts, nextIndex, ledger, list, get, input, index, head>>

InsertOrDoNothing(c) ==
  /\ pc[c] = "insertCredit"
  /\ credits' = IF CreditsFor(input[c].evidence) = {} THEN credits \cup {Row(c)} ELSE credits
  /\ Goto(c, "appendIssue")
  /\ UNCHANGED <<verdicts, nextIndex, ledger, list, get, input, index, head>>

(* INSERT INTO credits, under credit_evidence_uq and                        *)
(* credit_status_list_index_uq.                                             *)
InsertCredit(c) ==
  /\ pc[c] = "insertCredit"
  /\ IF CreditsFor(input[c].evidence) # {}
     THEN Goto(c, "refused") /\ UNCHANGED credits
     ELSE IF IndexTaken(c)
     THEN Goto(c, "collided") /\ UNCHANGED credits
     ELSE Goto(c, "appendIssue") /\ credits' = credits \cup {Row(c)}
  /\ UNCHANGED <<verdicts, nextIndex, ledger, list, get, input, index, head>>

AppendIssue(c) ==
  /\ pc[c] = "appendIssue"
  /\ ledger' = Append(ledger, Decision("issueCredit", c))
  /\ Goto(c, "done")
  /\ UNCHANGED <<verdicts, credits, nextIndex, list, get, input, index, head>>

-----------------------------------------------------------------------------
(* retireCredit                                                             *)

StartRetire(c, in) ==
  /\ pc[c] = "new"
  /\ input' = [input EXCEPT ![c] = in]
  /\ Goto(c, "findCreditById")
  /\ UNCHANGED <<verdicts, credits, nextIndex, ledger, list, get, index, head>>

CreditById(id) == {r \in credits : r.id = id}

(* A mistake: anybody who knows the id may retire a credit.                 *)
FindAnyCreditById(c) ==
  /\ pc[c] = "findCreditById"
  /\ Goto(c, IF CreditById(input[c].credit) = {}
             THEN "refused"
             ELSE IF \E r \in CreditById(input[c].credit) : r.status = "retired"
             THEN "done" ELSE "markRetired")
  /\ UNCHANGED <<verdicts, credits, nextIndex, ledger, list, get, input, index, head>>

(* Unknown credit and wrong holder are refused; a credit that is already    *)
(* retired is handed back.                                                  *)
FindCreditById(c) ==
  /\ pc[c] = "findCreditById"
  /\ Goto(c, IF \A r \in CreditById(input[c].credit) : r.holder # input[c].by
             THEN "refused"
             ELSE IF \E r \in CreditById(input[c].credit) : r.status = "retired"
             THEN "done" ELSE "markRetired")
  /\ UNCHANGED <<verdicts, credits, nextIndex, ledger, list, get, input, index, head>>

(* UPDATE credits SET status = 'retired' WHERE credit_id = ...              *)
MarkRetired(c) ==
  /\ pc[c] = "markRetired"
  /\ credits' = {IF r.id = input[c].credit THEN [r EXCEPT !.status = "retired"] ELSE r
                   : r \in credits}
  /\ Goto(c, "appendRetire")
  /\ UNCHANGED <<verdicts, nextIndex, ledger, list, get, input, index, head>>

AppendRetire(c) ==
  /\ pc[c] = "appendRetire"
  /\ ledger' = Append(ledger, Decision("retireCredit", input[c].credit))
  /\ Goto(c, "done")
  /\ UNCHANGED <<verdicts, credits, nextIndex, list, get, input, index, head>>

-----------------------------------------------------------------------------
(* A store operation fails, or the process dies: the call goes no further.  *)
Fail(c) ==
  /\ Running(c)
  /\ Goto(c, "failed")
  /\ UNCHANGED <<verdicts, credits, nextIndex, ledger, list, get, input, index, head>>

(* A mistake: the bits of every credit.                                     *)
AllIndices == {r.index : r \in credits}

RetiredIndices == {r.index : r \in {q \in credits : q.status = "retired"}}

CanEncode(indices) == \A i \in indices : i < ListSize

(* A mistake: a GET takes what another that is under way has read.          *)
ReadCreditsShared(g) ==
  /\ get[g] = NoGet
  /\ \E bits \in {get[h].bits : h \in {h \in Gets : get[h].state = "read"}} \cup {RetiredIndices} :
       get' = [get EXCEPT ![g] = [state |-> "read", before |-> list, bits |-> bits]]
  /\ UNCHANGED <<verdicts, credits, nextIndex, ledger, list, pc, input, index, head>>

(* GET /status/credits: the bits of the retired credits, read in one query. *)
ReadCredits(g) ==
  /\ get[g] = NoGet
  /\ get' = [get EXCEPT ![g] = [state |-> "read", before |-> list, bits |-> RetiredIndices]]
  /\ UNCHANGED <<verdicts, credits, nextIndex, ledger, list, pc, input, index, head>>

(* The list is signed, which is awaited, and sent: by then it may be old.   *)
(* encodeStatusList throws if a bit is past the end of the list.            *)
SendList(g) ==
  /\ get[g].state = "read" /\ CanEncode(get[g].bits)
  /\ list' = list \cup get[g].bits
  /\ get' = [get EXCEPT ![g] = NoGet]
  /\ UNCHANGED <<verdicts, credits, nextIndex, ledger, pc, input, index, head>>

(* 503: nothing is sent.                                                    *)
ListFails(g) ==
  /\ get[g].state = "read"
  /\ get' = [get EXCEPT ![g] = NoGet]
  /\ UNCHANGED <<verdicts, credits, nextIndex, ledger, list, pc, input, index, head>>

ServeList(g) == ReadCredits(g) \/ SendList(g) \/ ListFails(g)

-----------------------------------------------------------------------------
Next ==
  \/ \E e \in Evidence, v \in Verdicts : VerifierRecords(e, v)
  \/ \E c \in Calls :
       \/ \E in \in IssueInputs : StartIssue(c, in)
       \/ FindVerification(c)
       \/ FindCreditByEvidence(c)
       \/ AllocateIndex(c)
       \/ ReadHead(c)
       \/ InsertCredit(c)
       \/ AppendIssue(c)
       \/ \E in \in RetireInputs : StartRetire(c, in)
       \/ FindCreditById(c)
       \/ MarkRetired(c)
       \/ AppendRetire(c)
       \/ Fail(c)
  \/ \E g \in Gets : ServeList(g)

Spec == Init /\ [][Next]_vars

-----------------------------------------------------------------------------
CreditRows ==
  [id : Calls, evidence : Evidence, match : Matches, holder : Holders,
   index : Nat, head : Nat, status : {"issued", "retired"}]

DecisionRows ==
  [action : {"verifyEvidence"}, subject : Evidence]
  \cup [action : {"issueCredit", "retireCredit"}, subject : Calls]

GetRows == [state : {"idle", "read"}, before : SUBSET Nat, bits : SUBSET Nat]

TypeOK ==
  /\ verdicts \in [Evidence -> Verdicts \cup {"none"}]
  /\ credits \subseteq CreditRows
  /\ nextIndex \in Nat
  /\ ledger \in Seq(DecisionRows)
  /\ list \subseteq Nat
  /\ get \in [Gets -> GetRows]
  /\ pc \in [Calls -> IssueSteps \cup RetireSteps \cup Ends \cup {"new"}]
  /\ input \in [Calls -> IssueInputs \cup RetireInputs \cup {NoInput}]
  /\ index \in [Calls -> Nat]
  /\ head \in [Calls -> Nat]

(* One credit per batch of evidence, ever, whatever runs concurrently       *)
(* (issueCredit.ts, "THE DOUBLE-COUNTING GUARD").                           *)
OneCreditPerEvidence ==
  \A q, r \in credits : q.evidence = r.evidence => q = r

(* A credit exists only for evidence the verifier accepted, against the     *)
(* match that evidence was captured for, and is held by its lot's producer. *)
CreditIsEarned ==
  \A r \in credits :
    /\ verdicts[r.evidence] = "accepted"
    /\ r.match = MatchOf[r.evidence]
    /\ r.holder = HolderOf[r.match]

(* Two credentials never name the same bit: the unique index on the status  *)
(* list index never has to refuse an insert ("collisions are not fine").    *)
IndexNeverCollides == \A c \in Calls : pc[c] # "collided"

(* A bit that any served list shows as set belongs to no credit that is     *)
(* still live: nobody's credit reads as retired because of another's.       *)
RevokedMeansRetired ==
  \A r \in credits : r.index \in list => r.status = "retired"

(* GETs overlap and are answered in any order, so a list sent later may     *)
(* show less.  But a list that was read after another was sent shows all    *)
(* that one showed, so nobody who asks again is told less; and of two under *)
(* way together, one shows all that the other does (index.ts 46-56).        *)
AskingAgainShowsNoLess ==
  [][\A g \in Gets : SendList(g) =>
       /\ get[g].before \subseteq get[g].bits
       /\ \A h \in Gets : get[h].state = "read" =>
            get[g].bits \subseteq get[h].bits \/ get[h].bits \subseteq get[g].bits]_vars

(* The custody head signed into a credential commits to a prefix of the     *)
(* ledger that contains the verifier's decision on its evidence and not the *)
(* decision to issue the credit itself.                                     *)
CustodyHead ==
  \A r \in credits :
    /\ \E i \in 1..r.head : ledger[i] = Decision("verifyEvidence", r.evidence)
    /\ \A i \in 1..Len(ledger) :
         ledger[i] = Decision("issueCredit", r.id) => i > r.head

Times(d) == Cardinality({i \in DOMAIN ledger : ledger[i] = d})

(* No decision to issue is recorded for a credit that does not exist, and   *)
(* none twice; no retirement is recorded of a credit that is not retired.   *)
DecisionsAreTrue ==
  \A c \in Calls :
    /\ Times(Decision("issueCredit", c)) <= Cardinality(CreditById(c))
    /\ Times(Decision("retireCredit", c)) > 0 =>
         \E r \in CreditById(c) : r.status = "retired"

(* A credit is retired only if its holder asked.                            *)
OnlyHolderRetires ==
  \A r \in credits : r.status = "retired" =>
    \E c \in Calls : input[c] = [skill |-> "retire", credit |-> r.id, by |-> r.holder]

-----------------------------------------------------------------------------
(* Why the above hold.  What a call read stays true until it acts on it:    *)
(* verdicts, holders and ledger entries never change, and an index drawn    *)
(* from the sequence belongs to one call, and then to one credit.           *)

HasIndex(c) == pc[c] \in {"headDecision", "insertCredit"}

CallInv ==
  \A c \in Calls :
    /\ pc[c] = "new" => input[c] = NoInput
    /\ pc[c] \in IssueSteps => input[c] \in IssueInputs
    /\ pc[c] \in RetireSteps => input[c] \in RetireInputs
    /\ pc[c] \in IssueSteps \ {"findVerification"} =>
         verdicts[input[c].evidence] = "accepted"
    /\ pc[c] \in {"allocateIndex", "headDecision", "insertCredit"} =>
         MatchOf[input[c].evidence] = input[c].match
    /\ HasIndex(c) => HolderOf[input[c].match] \in Holders
    /\ pc[c] = "markRetired" =>
         \E r \in credits : r.id = input[c].credit /\ r.holder = input[c].by

IndexInv ==
  /\ \A c \in Calls : HasIndex(c) => index[c] < nextIndex
  /\ \A c, d \in Calls : HasIndex(c) /\ HasIndex(d) /\ index[c] = index[d] => c = d
  /\ \A r \in credits : r.index < nextIndex
  /\ \A r \in credits, c \in Calls : HasIndex(c) => index[c] # r.index
  /\ \A q, r \in credits : q.index = r.index => q = r

IdInv ==
  /\ \A r \in credits : pc[r.id] \in {"appendIssue", "done", "failed"}
  /\ \A q, r \in credits : q.id = r.id => q = r

HeadInv ==
  /\ \A e \in Evidence : verdicts[e] # "none" =>
       \E i \in DOMAIN ledger : ledger[i] = Decision("verifyEvidence", e)
  /\ \A c \in Calls : pc[c] = "insertCredit" =>
       /\ head[c] <= Len(ledger)
       /\ \E i \in 1..head[c] : ledger[i] = Decision("verifyEvidence", input[c].evidence)
  /\ \A i \in DOMAIN ledger, c \in Calls :
       ledger[i] = Decision("issueCredit", c) => pc[c] = "done"
  /\ \A r \in credits : r.head <= Len(ledger)

(* What was sent or is on its way is retired for good.                      *)
ListInv ==
  /\ list \subseteq RetiredIndices
  /\ \A g \in Gets :
       get[g].before \subseteq get[g].bits /\ get[g].bits \subseteq RetiredIndices
  /\ \A g, h \in Gets :
       get[g].bits \subseteq get[h].bits \/ get[h].bits \subseteq get[g].bits

(* What the ledger says of credits is said of rows that are there: a credit *)
(* is in its final state before its decision is appended, and stays in it.  *)
Has(id)     == \E r \in credits : r.id = id
Retired(id) == \E r \in credits : r.id = id /\ r.status = "retired"

RecordInv ==
  /\ \A c \in Calls : pc[c] = "appendIssue" => Has(c)
  /\ \A c \in Calls : pc[c] = "appendRetire" => Retired(input[c].credit)
  /\ \A i \in DOMAIN ledger, c \in Calls :
       ledger[i] = Decision("issueCredit", c) => Has(c)
  /\ \A i \in DOMAIN ledger, c \in Calls :
       ledger[i] = Decision("retireCredit", c) => Retired(c)
  /\ \A i, j \in DOMAIN ledger, c \in Calls :
       ledger[i] = Decision("issueCredit", c) /\ ledger[j] = ledger[i] => i = j

IInv ==
  /\ TypeOK
  /\ CallInv
  /\ IndexInv
  /\ IdInv
  /\ HeadInv
  /\ ListInv
  /\ OneCreditPerEvidence
  /\ CreditIsEarned
  /\ IndexNeverCollides
  /\ CustodyHead
  /\ OnlyHolderRetires

-----------------------------------------------------------------------------
(* What retireCredit.ts says and does not do: it "does NOT append a second  *)
(* decision - the ledger must not claim a retirement happened twice".       *)
RetirementRecordedOnce == \A c \in Calls : Times(Decision("retireCredit", c)) <= 1
=============================================================================
