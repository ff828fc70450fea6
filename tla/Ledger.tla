------------------------------- MODULE Ledger -------------------------------
(***************************************************************************)
(* appendDecision of packages/db/src/ledger.ts, called concurrently by the *)
(* processes of four agents.  Each call is one transaction on a connection *)
(* of its own:                                                             *)
(*                                                                         *)
(*     BEGIN; pg_advisory_xact_lock; SELECT last; link; INSERT; COMMIT     *)
(*                                                                         *)
(* The table is the sequence of committed rows in the order they became    *)
(* visible.  A row inserted by an open transaction is private to it, but   *)
(* its primary key is already taken: a second INSERT of the same seq waits *)
(* for the first transaction to end, and fails if that one committed.      *)
(*                                                                         *)
(* An agent may die at any point.  Its connection is then noticed by       *)
(* Postgres at some later time, which aborts what was not committed.       *)
(***************************************************************************)
EXTENDS HashChain

CONSTANTS
  Writers,     \* connections that can be inside appendDecision at once
  Decisions,   \* what there is to record
  MaxRows      \* bound on the table: no call starts beyond it

ASSUME MaxRowsAssumption == MaxRows \in Nat

VARIABLES
  (* In the database                                                        *)
  log,         \* decision_log: committed rows
  lockHolder,  \* sessions holding the advisory lock LEDGER_LOCK_KEY
  pending,     \* pending[w]: rows inserted by w's open transaction
  (* In the agents                                                          *)
  pc,          \* pc[w]: where w is inside appendDecision
  arg,         \* arg[w]: the decision w was asked to append
  rec          \* rec[w]: the record w linked

vars == <<log, lockHolder, pending, pc, arg, rec>>

Steps == {"idle", "begun", "locked", "linked", "inserted", "refused",
          "committed", "dead"}

(* An agent-side value that may be absent is a set of at most one element.  *)
None == {}

Init ==
  /\ log = <<>>
  /\ lockHolder = {}
  /\ pending = [w \in Writers |-> {}]
  /\ pc = [w \in Writers |-> "idle"]
  /\ arg = [w \in Writers |-> None]
  /\ rec = [w \in Writers |-> None]

-----------------------------------------------------------------------------
Goto(w, step) == pc' = [pc EXCEPT ![w] = step]

(* Calls that may still add a row, counted against MaxRows.                 *)
Underway == {w \in Writers : pc[w] \notin {"idle", "committed"}}

(* An agent calls appendDecision: BEGIN.                                    *)
Begin(w, d) ==
  /\ pc[w] = "idle"
  /\ Len(log) + Cardinality(Underway) < MaxRows
  /\ arg' = [arg EXCEPT ![w] = {d}]
  /\ Goto(w, "begun")
  /\ UNCHANGED <<log, lockHolder, pending, rec>>

(* A mistake: no lock.                                                      *)
AcquireNothing(w) ==
  /\ pc[w] = "begun"
  /\ lockHolder' = lockHolder \cup {w}
  /\ Goto(w, "locked")
  /\ UNCHANGED <<log, pending, arg, rec>>

(* SELECT pg_advisory_xact_lock(KEY): blocks while another session has it.  *)
AcquireLock(w) ==
  /\ pc[w] = "begun"
  /\ lockHolder = {}
  /\ lockHolder' = {w}
  /\ Goto(w, "locked")
  /\ UNCHANGED <<log, pending, arg, rec>>

(* SELECT the last committed row, and linkDecision onto it.                 *)
ReadAndLink(w) ==
  /\ pc[w] = "locked"
  /\ \E d \in arg[w] : rec' = [rec EXCEPT ![w] = {LinkDecision(LastBySeq(log), d)}]
  /\ Goto(w, "linked")
  /\ UNCHANGED <<log, lockHolder, pending, arg>>

SeqsOf(rows) == {r.seq : r \in rows}

PendingElsewhere(w) == UNION {pending[v] : v \in Writers \ {w}}

(* A mistake: the INSERT runs outside the transaction.                      *)
InsertAutocommit(w) ==
  /\ pc[w] = "linked"
  /\ \E r \in rec[w] : log' = Append(log, r)
  /\ pending' = [pending EXCEPT ![w] = rec[w]]
  /\ Goto(w, "inserted")
  /\ UNCHANGED <<lockHolder, arg, rec>>

(* INSERT: waits for an open transaction that has the same primary key,     *)
(* and is refused if the key is in the table.                               *)
Insert(w) ==
  /\ pc[w] = "linked"
  /\ SeqsOf(rec[w]) \cap SeqsOf(PendingElsewhere(w)) = {}
  /\ IF SeqsOf(rec[w]) \cap SeqsOf(Range(log)) = {}
     THEN Goto(w, "inserted") /\ pending' = [pending EXCEPT ![w] = rec[w]]
     ELSE Goto(w, "refused") /\ UNCHANGED pending
  /\ UNCHANGED <<log, lockHolder, arg, rec>>

(* A mistake: pg_advisory_lock, which outlives the transaction.             *)
EndKeepingLock(w) ==
  /\ pending' = [pending EXCEPT ![w] = {}]
  /\ UNCHANGED lockHolder

(* How a transaction of w ends, committed or not: its rows are no longer    *)
(* pending and its advisory lock is released.                               *)
EndTransaction(w) ==
  /\ lockHolder' = lockHolder \ {w}
  /\ pending' = [pending EXCEPT ![w] = {}]

(* A mistake: the error of a failed COMMIT is swallowed.                    *)
CommitOrNot(w) ==
  /\ pc[w] = "inserted"
  /\ \E r \in pending[w] : log' \in {log, Append(log, r)}
  /\ EndTransaction(w)
  /\ Goto(w, "committed")
  /\ UNCHANGED <<arg, rec>>

(* COMMIT                                                                   *)
Commit(w) ==
  /\ pc[w] = "inserted"
  /\ \E r \in pending[w] : log' = Append(log, r)
  /\ EndTransaction(w)
  /\ Goto(w, "committed")
  /\ UNCHANGED <<arg, rec>>

(* The call is over and its locals are gone.                                *)
LeaveCall(w, step) ==
  /\ Goto(w, step)
  /\ arg' = [arg EXCEPT ![w] = None]
  /\ rec' = [rec EXCEPT ![w] = None]

(* The caller has its record, or an exception if the answer to COMMIT was   *)
(* lost with the connection.                                                *)
Return(w) ==
  /\ pc[w] = "committed"
  /\ LeaveCall(w, "idle")
  /\ UNCHANGED <<log, lockHolder, pending>>

(* A statement failed: the driver rolls back, and the caller gets an        *)
(* exception.                                                               *)
Rollback(w) ==
  /\ pc[w] \notin {"idle", "committed", "dead"}
  /\ EndTransaction(w)
  /\ LeaveCall(w, "idle")
  /\ UNCHANGED log

(* The agent's process dies inside a call.  Nothing in the database         *)
(* changes: the session keeps its lock and its rows until it is noticed.    *)
Crash(w) ==
  /\ pc[w] \notin {"idle", "dead"}
  /\ LeaveCall(w, "dead")
  /\ UNCHANGED <<log, lockHolder, pending>>

(* Postgres notices the lost connection and aborts what was open on it.     *)
Reap(w) ==
  /\ pc[w] = "dead"
  /\ EndTransaction(w)
  /\ Goto(w, "idle")
  /\ UNCHANGED <<log, arg, rec>>

-----------------------------------------------------------------------------
Next ==
  \E w \in Writers :
    \/ \E d \in Decisions : Begin(w, d)
    \/ AcquireLock(w)
    \/ ReadAndLink(w)
    \/ Insert(w)
    \/ Commit(w)
    \/ Return(w)
    \/ Rollback(w)
    \/ Crash(w)
    \/ Reap(w)

Spec == Init /\ [][Next]_vars

(* An agent that is alive goes on with its call, and Postgres notices a     *)
(* lost connection.  Postgres queues the waiters of a lock in order of      *)
(* arrival, so one that keeps waiting is served however often the lock is   *)
(* taken and released by others: strong fairness of AcquireLock.  Nothing   *)
(* is assumed of Begin, Rollback and Crash.                                 *)
Fairness ==
  \A w \in Writers :
    /\ SF_vars(AcquireLock(w))
    /\ WF_vars(ReadAndLink(w) \/ Insert(w) \/ Commit(w) \/ Return(w))
    /\ WF_vars(pc[w] = "refused" /\ Rollback(w))
    /\ WF_vars(Reap(w))

FairSpec == Spec /\ Fairness

-----------------------------------------------------------------------------
(* The fields of a row; what its hashes are is ChainIntact's business.      *)
IsRow(r) ==
  /\ r = [seq |-> r.seq, decision |-> r.decision, prevHash |-> r.prevHash, hash |-> r.hash]
  /\ r.seq \in Nat
  /\ r.decision \in Decisions

TypeOK ==
  /\ log \in Seq(Range(log))
  /\ \A i \in DOMAIN log : IsRow(log[i])
  /\ lockHolder \in SUBSET Writers
  /\ pc \in [Writers -> Steps]
  /\ arg \in [Writers -> SUBSET Decisions]
  /\ DOMAIN pending = Writers /\ DOMAIN rec = Writers
  /\ \A w \in Writers : \A r \in pending[w] \cup rec[w] : IsRow(r)

(* The ledger verifies at every moment, whatever appends are in flight and  *)
(* whichever agents died: "two records claiming the same prevHash is a      *)
(* broken chain" (ledger.ts) never happens.                                 *)
ChainIntact == ChainValid(log)

(* No append is turned away by the primary key: serialised by the lock,     *)
(* every call reads the last row and nobody takes its seq in between (the   *)
(* "50 concurrent appends" of ledger.test.ts all succeed).                  *)
NeverRefused == \A w \in Writers : pc[w] # "refused"

(* A record handed back to an agent is in the ledger, at the position its   *)
(* seq names: a caller is never told of a decision that was rolled back.    *)
ReturnedIsLogged ==
  \A w \in Writers : pc[w] = "committed" =>
    \A r \in rec[w] : r.seq + 1 \in DOMAIN log /\ log[r.seq + 1] = r

(* No call waits for ever, even when agents die holding the lock: "a        *)
(* crashed agent cannot wedge the ledger" (ledger.ts).                      *)
EveryCallEnds == \A w \in Writers : pc[w] # "idle" ~> pc[w] = "idle"

-----------------------------------------------------------------------------
(* Why the above hold.  Between taking the lock and the end of the          *)
(* transaction a session is the only holder, so the last row it read is     *)
(* still the last row when it inserts and commits.                          *)

LockInv ==
  \A w \in Writers :
    pc[w] \in {"locked", "linked", "inserted", "refused"} => lockHolder = {w}

PendingInv ==
  \A w \in Writers :
    /\ pc[w] = "inserted" => pending[w] = rec[w]
    /\ pending[w] # {} => pc[w] \in {"inserted", "dead"} /\ lockHolder = {w}

CallInv ==
  \A w \in Writers : pc[w] \notin {"idle", "dead"} =>
    \E d \in Decisions :
      /\ arg[w] = {d}
      /\ pc[w] \in {"linked", "inserted"} =>
           rec[w] = {LinkDecision(LastBySeq(log), d)}
      /\ pc[w] = "committed" =>
           \E i \in DOMAIN log : rec[w] = {log[i]} /\ log[i].decision = d

IInv ==
  /\ TypeOK
  /\ ChainIntact
  /\ LockInv
  /\ PendingInv
  /\ CallInv
  /\ NeverRefused

-----------------------------------------------------------------------------
(* The ledger implements an append-only list of decisions with atomic       *)
(* appends.  A call takes effect when its transaction commits.              *)
CallOf(w) ==
  IF pc[w] \in {"idle", "dead"} THEN [state |-> "none"]
  ELSE LET d == CHOOSE x \in arg[w] : TRUE
           r == CHOOSE x \in rec[w] : TRUE
       IN  IF pc[w] = "committed"
           THEN [state |-> "recorded", decision |-> d, position |-> r.seq + 1]
           ELSE [state |-> "pending", decision |-> d]

Abstract == INSTANCE AppendLog
              WITH entries <- [i \in DOMAIN log |-> log[i].decision],
                   call    <- [w \in Writers |-> CallOf(w)]

ImplementsAppendLog == Abstract!ASpec
=============================================================================
