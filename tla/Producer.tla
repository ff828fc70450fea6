------------------------------- MODULE Producer -----------------------------
(***************************************************************************)
(* The producer agent: concurrent calls of ingestBurns and declareWaste    *)
(* (agents/producer/src/skills), over the feed with its cache of raw       *)
(* responses (feed.ts).  An ingest gets a response from somewhere, then in *)
(* one transaction reads the known detections, plans, and inserts the new  *)
(* detections and their lots row by row, ON CONFLICT DO NOTHING; then it   *)
(* appends its decision in another.  Postgres makes an insert wait for the *)
(* transaction that holds the same id, and breaks a circle of such waits   *)
(* by failing one of its transactions.                                     *)
(***************************************************************************)
EXTENDS Firms, FiniteSets

CONSTANTS
  Ingests,       \* calls of ingestBurns
  Declarations,  \* calls of declareWaste; the lot id of each is fresh
  Responses,     \* what FIRMS may answer: records [header, lines]
  Fixture        \* the bundled sample, of the same form

ASSUME CallsAssumption == Ingests \cap Declarations = {}
ASSUME FeedAssumption ==
  \A body \in Responses \cup {Fixture} :
    /\ body.header \in BOOLEAN
    /\ body.lines \in Seq(Range(body.lines))

VARIABLES
  (* In the database                                                        *)
  rows,    \* the rows of both tables: [table, id, from, by], by = the inserting call
  ledger,  \* the decisions: [call, newDetections, lotsCreated]
  (* On disk                                                                *)
  cache,   \* the cached responses, oldest first
  (* In the calls                                                           *)
  pc,      \* pc[c]: the next step of call c, or how it ended
  feed,    \* feed[c]: the response ingest c works from
  file,    \* file[c]: the cache file c is writing
  fresh,   \* fresh[c]: the new detections of it, in order, as planned
  next,    \* next[c]: the next row to insert, see NextRow
  output   \* output[c]: the counts its answer carries

db   == <<rows, ledger>>
call == <<pc, feed, file, fresh, next, output>>
vars == <<db, cache, call>>

Calls == Ingests \cup Declarations
Ends  == {"done", "failed"}
Empty == [header |-> FALSE, lines |-> <<>>]
Zero  == [newDetections |-> 0, lotsCreated |-> 0]

Init ==
  /\ rows = {} /\ ledger = <<>> /\ cache = <<>>
  /\ pc = [c \in Calls |-> IF c \in Ingests THEN "fetch" ELSE "declare"]
  /\ feed = [c \in Calls |-> Empty]
  /\ file = [c \in Calls |-> 0]
  /\ fresh = [c \in Calls |-> <<>>]
  /\ next = [c \in Calls |-> 1]
  /\ output = [c \in Calls |-> Zero]

Goto(c, step) == pc' = [pc EXCEPT ![c] = step]

-----------------------------------------------------------------------------
(* The feed.                                                                *)

(* FIRMS answers: a body that is no CSV (a bad key, a blown quota) is       *)
(* refused like no answer.                                                  *)
FetchLive(c) ==
  /\ pc[c] = "fetch"
  /\ \E body \in Responses :
       /\ LooksLikeCsv(body)
       /\ feed' = [feed EXCEPT ![c] = body]
  /\ Goto(c, "openCache")
  /\ UNCHANGED <<db, cache, file, fresh, next, output>>

(* No key, no answer within 15 s, an HTTP error, or no CSV.                 *)
FetchFails(c) ==
  /\ pc[c] = "fetch"
  /\ Goto(c, "fallback")
  /\ UNCHANGED <<db, cache, feed, file, fresh, next, output>>

Begun(body, n) == [header |-> body.header /\ n > 0, lines |-> SubSeq(body.lines, 1, n - 1)]

(* The file is there before all of it is: whoever reads it now, or ever     *)
(* after a crash, reads a part of the response.                             *)
OpenCache(c) ==
  /\ pc[c] = "openCache"
  /\ \E n \in 0..Len(feed[c].lines) : cache' = Append(cache, Begun(feed[c], n))
  /\ file' = [file EXCEPT ![c] = Len(cache')]
  /\ Goto(c, "fillCache")
  /\ UNCHANGED <<db, feed, fresh, next, output>>

FillCache(c) ==
  /\ pc[c] = "fillCache"
  /\ cache' = [cache EXCEPT ![file[c]] = feed[c]]
  /\ Goto(c, "select")
  /\ UNCHANGED <<db, feed, file, fresh, next, output>>

(* "A cache we could not write is not a reason to fail an ingest."          *)
CacheFails(c) ==
  /\ pc[c] \in {"openCache", "fillCache"}
  /\ Goto(c, "select")
  /\ UNCHANGED <<db, cache, feed, file, fresh, next, output>>

Work(c, body) == feed' = [feed EXCEPT ![c] = body]

(* The newest cached response, the sample if that is not there or cannot be *)
(* read, and nothing if the sample cannot either.                           *)
Fallback(c) ==
  /\ pc[c] = "fallback"
  /\ (cache # <<>> /\ Work(c, Last(cache))) \/ Work(c, Fixture) \/ Work(c, Empty)
  /\ Goto(c, "select")
  /\ UNCHANGED <<db, cache, file, fresh, next, output>>

-----------------------------------------------------------------------------
(* The transaction of an ingest.                                            *)

Rows(table) == {r \in rows : r.table = table}
Committed   == {r \in rows : pc[r.by] # "insert"}
RowsBy(c, table) == {r \in Rows(table) : r.by = c}

KnownIds == {r.id : r \in Committed \cap Rows("detections")}

(* The known detections are read, and the plan made.                        *)
Select(c) ==
  /\ pc[c] = "select"
  /\ \E lines \in {ParseCsv(feed[c])} : \E ids \in {FreshIds(lines, KnownIds)} :
       /\ fresh' = [fresh EXCEPT ![c] = ids]
       /\ Goto(c, IF ids = <<>> THEN "appendDecision" ELSE "insert")
  /\ UNCHANGED <<db, cache, feed, file, next, output>>

(* The detections in the order of the response, then their lots.            *)
Planned(c)   == Len(fresh[c])
Inserting(c) == pc[c] = "insert" /\ next[c] <= 2 * Planned(c)
NextRow(c)   ==
  IF next[c] <= Planned(c)
  THEN [table |-> "detections", id |-> fresh[c][next[c]], from |-> {}, by |-> c]
  ELSE LET d == fresh[c][next[c] - Planned(c)]
       IN [table |-> "lots", id |-> LotIdOf(d), from |-> {d}, by |-> c]

SameKey(row) == {r \in rows : r.table = row.table /\ r.id = row.id}

(* The ingests whose open transactions hold the key c is about to insert.   *)
WaitsFor(c) == {r.by : r \in SameKey(NextRow(c)) \ Committed} \ {c}

(* A mistake: a key another transaction holds is taken for a conflict.      *)
InsertWithoutWaiting(c) ==
  /\ Inserting(c)
  /\ rows' = rows \cup {r \in {NextRow(c)} : SameKey(r) = {}}
  /\ next' = [next EXCEPT ![c] = @ + 1]
  /\ UNCHANGED <<ledger, cache, pc, feed, file, fresh, output>>

(* ON CONFLICT DO NOTHING: a key that is there is skipped, a key an open    *)
(* transaction holds is waited for.                                         *)
Insert(c) ==
  /\ Inserting(c)
  /\ WaitsFor(c) = {}
  /\ rows' = rows \cup {r \in {NextRow(c)} : SameKey(r) = {}}
  /\ next' = [next EXCEPT ![c] = @ + 1]
  /\ UNCHANGED <<ledger, cache, pc, feed, file, fresh, output>>

(* A mistake: the counts are those of the plan.                             *)
CommitCountingThePlan(c) ==
  /\ pc[c] = "insert"
  /\ next[c] > 2 * Planned(c)
  /\ output' = [output EXCEPT ![c] = [newDetections |-> Planned(c), lotsCreated |-> Planned(c)]]
  /\ Goto(c, "appendDecision")
  /\ UNCHANGED <<db, cache, feed, file, fresh, next>>

(* The counts are those of RETURNING.                                       *)
Commit(c) ==
  /\ pc[c] = "insert"
  /\ next[c] > 2 * Planned(c)
  /\ output' = [output EXCEPT ![c] = [newDetections |-> Cardinality(RowsBy(c, "detections")),
                                      lotsCreated |-> Cardinality(RowsBy(c, "lots"))]]
  /\ Goto(c, "appendDecision")
  /\ UNCHANGED <<db, cache, feed, file, fresh, next>>

(* declareWaste: one insert of its own, of a key nobody else has.           *)
Declare(c) ==
  /\ pc[c] = "declare"
  /\ rows' = rows \cup {[table |-> "lots", id |-> <<"new", c>>, from |-> {}, by |-> c]}
  /\ output' = [output EXCEPT ![c] = [newDetections |-> 0, lotsCreated |-> 1]]
  /\ Goto(c, "appendDecision")
  /\ UNCHANGED <<ledger, cache, feed, file, fresh, next>>

AppendDecision(c) ==
  /\ pc[c] = "appendDecision"
  /\ ledger' = Append(ledger, [call |-> c, newDetections |-> output[c].newDetections,
                                 lotsCreated |-> output[c].lotsCreated])
  /\ Goto(c, "done")
  /\ UNCHANGED <<rows, cache, feed, file, fresh, next, output>>

(* A mistake: the inserts are in no transaction, and what was inserted is   *)
(* there for good.                                                          *)
FailHalfway(c) ==
  /\ pc[c] \notin Ends \cup {"fetch", "fallback"}
  /\ Goto(c, "failed")
  /\ UNCHANGED <<db, cache, feed, file, fresh, next, output>>

(* A statement fails, or the process dies: Postgres rolls back, and what    *)
(* the call held in memory is gone.                                         *)
Fail(c) ==
  /\ pc[c] \notin Ends \cup {"fetch", "fallback"}
  /\ rows' = IF pc[c] = "insert" THEN {r \in rows : r.by # c} ELSE rows
  /\ Goto(c, "failed")
  /\ feed' = [feed EXCEPT ![c] = Empty]
  /\ fresh' = [fresh EXCEPT ![c] = <<>>]
  /\ next' = [next EXCEPT ![c] = 1]
  /\ UNCHANGED <<ledger, cache, file, output>>

Deadlocked(c) ==
  \E circle \in SUBSET Ingests :
    c \in circle /\ \A d \in circle : Inserting(d) /\ WaitsFor(d) \cap circle # {}

(* A mistake: an ingest that lost a deadlock is tried again.                *)
RetryVictim(c) ==
  /\ Deadlocked(c)
  /\ rows' = {r \in rows : r.by # c}
  /\ next' = [next EXCEPT ![c] = 1]
  /\ UNCHANGED <<ledger, cache, pc, feed, file, fresh, output>>

(* Postgres fails one transaction of a circle; the skill rethrows.          *)
DeadlockVictim(c) ==
  /\ Deadlocked(c)
  /\ rows' = {r \in rows : r.by # c}
  /\ Goto(c, "failed")
  /\ UNCHANGED <<ledger, cache, feed, file, fresh, next, output>>

-----------------------------------------------------------------------------
Ingest(c) ==
  \/ FetchLive(c) \/ FetchFails(c) \/ Fallback(c)
  \/ OpenCache(c) \/ FillCache(c) \/ CacheFails(c)
  \/ Select(c) \/ Insert(c) \/ Commit(c) \/ DeadlockVictim(c)

Next ==
  \/ \E c \in Ingests : Ingest(c)
  \/ \E c \in Declarations : Declare(c)
  \/ \E c \in Calls : AppendDecision(c) \/ Fail(c)

(* The fetch has a timeout, every statement ends, and Postgres looks for    *)
(* deadlocks.                                                               *)
Fairness == \A c \in Ingests : WF_vars(Ingest(c)) /\ WF_vars(AppendDecision(c))

Spec == Init /\ [][Next]_vars /\ Fairness

-----------------------------------------------------------------------------
Lots == Committed \cap Rows("lots")
Detections == Committed \cap Rows("detections")

TypeOK ==
  /\ \A r \in rows : r.table \in {"detections", "lots"} /\ r.by \in Calls
  /\ \A i \in DOMAIN ledger : ledger[i].call \in Calls
  /\ pc \in [Calls -> Ends \cup {"fetch", "openCache", "fillCache", "fallback", "select",
                                 "insert", "declare", "appendDecision"}]
  /\ \A c \in Ingests : next[c] \in 1..(2 * Planned(c) + 1) /\ file[c] \in 0..Len(cache)

(* "A detection row without its lot is unrecoverable": whatever races and   *)
(* fails, detections and detected lots are there in pairs, one of each id,  *)
(* and a declared lot has no detection (ingestBurns.ts, declare.ts).        *)
LotWithDetection ==
  /\ TypeOK
  /\ {r.from : r \in Lots} \ {{}} = {{r.id} : r \in Detections}
  /\ \A r, s \in rows : r.table = s.table /\ r.id = s.id => r = s
  /\ \A r \in Lots : r.from = {} <=> r.by \in Declarations

(* "A decision record claiming lots it did not create is worse than no      *)
(* record": the counts in the ledger are of rows the call inserted, and     *)
(* every call is there once.                                                *)
CountsAreTrue ==
  \A i \in DOMAIN ledger :
    /\ ledger[i].lotsCreated = Cardinality(RowsBy(ledger[i].call, "lots") \cap Lots)
    /\ ledger[i].newDetections = Cardinality(RowsBy(ledger[i].call, "detections") \cap Detections)
    /\ \A j \in DOMAIN ledger : ledger[i].call = ledger[j].call => i = j

(* An ingest that answers leaves nothing of its response behind: each       *)
(* detection worth a lot is in the database, inserted by it or, however the *)
(* transactions raced and failed, by another.                               *)
DoneMeansListed ==
  \A c \in Ingests :
    pc[c] = "done" =>
      \A line \in Range(ParseCsv(feed[c])) :
        Wanted(line) => DetectionIdOf(line) \in {r.id : r \in Detections}

(* Every ingest ends: what it waits for ends too, or is a circle that       *)
(* Postgres breaks.                                                         *)
EveryIngestEnds == \A c \in Ingests : <>(pc[c] \in Ends)
=============================================================================
