# A specification of Charkha

Charkha turns crop residue that would be burnt into biochar carbon credits.
Satellite fire detections and farmers' declarations become *lots* of residue,
lots are matched to conversion units, a worker photographs the biochar, the
photograph is verified, and a credit is issued and eventually retired. Every
meaningful step is appended to one hash-chained ledger that anyone may audit.

This directory holds TLA+ modules of the parts of that system where the order
of things matters, TLC configurations that check them on small instances, and
proofs, checked by TLAPS, of what should hold for every instance.

## 1. The system

All agents are Node processes: calls of one agent interleave at every `await`.
They share one Postgres and nothing else, and talk over A2A (JSON-RPC).

| Part | State it keeps | Operations | What makes it correct |
|---|---|---|---|
| Hash chain `packages/core/src/hashchain.ts` | none | `linkDecision`, `verifyChain` | an edit anywhere is found, at the row edited |
| Decision ledger `packages/db` | table `decision_log`, advisory lock | `appendDecision`, `readChain`, `verifyLedger` | one chain, however many append; no append lost or invented |
| Producer `agents/producer` | `residue_lots`, `burn_detections` | `ingestBurns`, `declareWaste`, `listLots` | a detection becomes one lot; counts recorded are of rows inserted |
| Matchmaker `agents/matchmaker` | `matches`, status of lots, advisory lock | `runMatching` | a lot is placed once; no unit beyond its day's capacity |
| Verifier `agents/verifier` | `evidence`, `verifications`, an in-memory mutex | `verifyEvidence` | one evidence per photo, one verdict per evidence, doubt is never accepted |
| Registry `agents/registry` | `credits`, a sequence of status-list indices | `issueCredit`, `retireCredit`, `lookupCredit`, the status list | no double counting; a revoked bit means a retired credit; who asks again is not shown less |
| A2A `packages/a2a` | tasks, token buckets | `execute`, `cancelTask`, client calls | one final status per task; a caller is told the truth |
| Gateway `apps/gateway` | none of its own | `/api/*` to the agents, `/api/ledger`, trace | errors reach the client as what they are |
| Field capture `apps/web/.../field` | a queue in `localStorage`, the ONNX runtime | `EvidenceQueue.submit`, `EvidenceQueue.flush` | captured evidence is never lost, and sent at most once to effect |
| Audit console `apps/web` | the loaded chain, edits, a verdict; a trace and its checks | load, tamper, verify, restore; look up, verify signature, read the list | a verdict or check is about what is on the screen |
| Break It `apps/web/.../breakit` | targets, results | discover, attack | what is painted green was refused |
| Saathi `agents/assistant`, `SaathiView` | the transcript; nothing for a token | resolve, plan, confirm, dispatch | nothing is done unconfirmed; what is said of it is so |
| Carbon arithmetic, geography | none | `computeCredit`, distances | a credit is gross less its debits, and no more than its lot |

How they interact: the producer lists lots; the matchmaker turns listed lots
into matches; the field worker submits evidence for a match through the
gateway; the verifier records a verdict; the registry reads the verdict, the
evidence, the match and the lot, and the head of the ledger; all four append to
the ledger; the audit console reads it back.

What is hard to test here, and where PROJECT.json's `hazards` point:

* **Interleaving.** Four agents append to one chain; two rounds see one lot;
  two issues present one piece of evidence; two submissions claim one photo.
* **State read before an await and used after it.** The retired status, the
  custody head, the photo check, the day of a round.
* **Failure between two transactions.** Each skill writes its rows in one
  transaction and its ledger decision in another.
* **Death of a process** holding a lock, or with an INSERT on its way.
* **Waiting in a circle.** Two ingests insert the same keys in opposite orders.
* **A caller that stopped waiting.** The browser, the gateway and the assistant give
  up on their own; what runs behind them runs on, and the next attempt meets it.
* **Answers out of order.** Loads, lookups and checks of the screens overlap and
  are not cancelled, requests of the status list are answered as they get ready;
  tabs share one stored queue.
* **Limits.** A status list of 131072 bits fed by an unbounded sequence; 24 traces
  to find a target in.

## 2. The modules

```
HashChain ---- Ledger ---- AppendLog        Ledger implements AppendLog
    |             +- Ledger_proofs          the others use the ledger as AppendLog
    |                                       describes it: a list, with atomic append
    +- Traces --+- AuditConsole ----+
                +- CredentialPanel -+- Screens - Screens_proofs
                +- BreakIt ---------+
Registry ---- Registry_proofs     Verifier ---- Verifier_proofs
Matching ---- Matchmaker - Matchmaker_proofs
Positions --+- Firms ---- Producer ---- Producer_proofs
            +- Field ---- Field_proofs
Resolve --+
A2A ------+- Saathi - Saathi_proofs
                                  Rules  EXTENDS Matching, Firms, Resolve, Carbon
```

`Rules` is extended by the proofs of the four components it takes its rules from:
what a run of `Rules` shows of a few inputs is proved there of all. `Screens_proofs` takes
the facts about chains from `Ledger_proofs` by `INSTANCE`.

Modules that only compute (`HashChain`, `Matching`, `Positions`, `Firms`, `A2A`, `Resolve`, `Carbon`)
have operators and no variables. Where a component depends on another, it takes
what the other's run shows of it: the field queue takes of the verifier that an id
and a photo have one row each, Saathi of the registry that only a holder retires,
and the screens take the rows the verifier and the registry leave.

A name like `AcquireNothing` or `InsertUnguarded`, commented "a mistake", is a
wrong version of the definition that follows it: a dropped guard, a missing
lock, a lost error. No action of a specification uses one. PROJECT.json pairs
each property with such a mistake, and TLC finds the property violated when
the mistake replaces the definition; that is the evidence that the property
depends on the code and not on the shape of the model.

### HashChain

`packages/core/src/hashchain.ts`. `LinkDecision(prev, d)` and `RecordHolds(rows, i)`,
the row check of `verifyChain`, over a digest: the hash of a record is the pair
of what was hashed, an injective function by construction, which is what a
collision-free SHA-256 would be. Genesis is a value no digest has.

### Ledger

`packages/db/src/ledger.ts`, `appendDecision`, statement by statement:

| Code | Action |
|---|---|
| `BEGIN` | `Begin` |
| `SELECT pg_advisory_xact_lock` | `AcquireLock`, blocked while another session holds it |
| `SELECT ... ORDER BY seq DESC LIMIT 1`, `linkDecision` | `ReadAndLink` |
| `INSERT`, under the primary key | `Insert`, which may wait for or be refused by another's row |
| `COMMIT` | `Commit`, then `Return` to the caller |
| any exception | `Rollback` |
| the process dies / Postgres notices | `Crash` / `Reap` |

The primary key is modelled although the lock makes it redundant: that it never
refuses anyone (`NeverRefused`) is one of the results.

`AppendLog` is what callers may rely on: a list of decisions, and calls that take
effect at one moment between start and return, or not at all. `Ledger` refines
it with the rows' decisions as the list.

### Registry

`agents/registry/src/skills/issueCredit.ts`, `retireCredit.ts`, `statusList.ts`
and `store.ts`. Each `await` of a store operation is an action; `pc[c]` names the
next one. Credits carry what the properties tell apart: evidence, match, holder,
index, custody head and status. `creditId` is random, so call *c* issues credit
*c*. `Fail` may end any call between any two operations: an exception, a
timeout, or the death of the process. The verifier is one action that writes
decision and verdict together: the registry cannot see a decision without its
verdict, and that no verdict lacks its decision is part of
`Verifier!VerdictsAreSound`. A second decision of a verification retried after a
crash is not repeated here. `GET /status/credits` reads the credits (`ReadCredits`),
awaits the signing of the list and then sends it (`SendList`), or answers 503 (`ListFails`);
two requests (`Gets`) may be answered in the order opposite to that of their
reads. What a signature says is not modelled, and what a credit is worth is `Carbon`.

### Verifier

`agents/verifier/src/skills/verifyEvidence.ts` and `store.ts`: the keyed mutex
(`tails`, `ahead`, `released`), the photo check, the claim, the assessment, the
decision and the stored verdict. The process may die, which empties the mutex
and ends every call, but an `INSERT` it had sent may still be executed
(`LandClaim`, `LandVerdict`). The neural network is a choice of what the
canary shows of the loaded model: absent, diverging from the phone's, or
attesting the phone's scores.

### Matching and Matchmaker

`Matching` is `assign` of `matching.ts`, a fold over the lots in their order,
with distance as a small number. The sorted copy is written as what the sort yields:
the k-th lot is the one with k - 1 lots ahead of it. `FollowsTheRule` and `NothingLeftOver` state,
without the fold, what the result must be. `Matchmaker` is `runMatching.ts`: the day
is taken, the advisory lock is waited for, lots and the day's commitments are read,
matches and statuses written, committed, and a decision appended in another
transaction. `Midnight` may happen anywhere.

### Firms and Producer

`Firms` is `firms.ts`: parsing, the detection id (a rounding), the excluded area, the
confidence filter, the dedupe against the database and within the response, a
lot's size. What a `filter` keeps of a list is `KeepAt` of `Positions`, a list of positions and
not a recursion, so that it can be proved about. The loop of `planIngest` is there twice: `PlanIngest` as sets of
line numbers, for the producer, and `Loop`, a fold of `TakeLine` as the code has it. `Rules` checks
that the two agree (`PlanFollowsTheLoop`), and `Producer_proofs` proves it. `Producer` is `ingestBurns.ts` and `declareWaste.ts` over
`feed.ts`:

| Code | Action |
|---|---|
| `fetchLive` of `loadFirmsCsv`, its timeout and errors | `FetchLive`, `FetchFails` |
| `writeCache`: the file appears, then is complete | `OpenCache`, `FillCache`, `CacheFails` |
| newest cached file, else the bundled sample, else nothing, each if it can be read | `Fallback` |
| `SELECT` of known ids, `planIngest` | `Select` |
| each row of the two `INSERT ... ON CONFLICT DO NOTHING` | `Insert`, which waits for an open transaction with the same key |
| Postgres breaks a circle of waits | `DeadlockVictim` |
| `COMMIT`, the counts of `RETURNING` | `Commit` |
| `appendDecision` | `AppendDecision` |
| any exception, the death of the process | `Fail` |
| `declareWaste`'s `INSERT` | `Declare` |

### Field

`FieldCapture.tsx` over `field/queue.ts`. One stored list, several tabs; `Submit` and
`SendNext` send, `SubmitReturns` and `FlushReturns` are what the code does after its
await, with the list read anew. `Failures` are what an error looks like to the
browser: no network, a page of a proxy, and the gateway's 500 with the message of
`callAgent`, which names a status only when the agent itself answered one. A send
that failed may never have reached the verifier, or be at work there when its
caller has gone (`VerifyLate`), and a page may be reloaded in the middle of everything.

### Resolve, A2A and Saathi

`Resolve` is `resolve.ts`, `embed.ts`, the gate of `answer.ts` and `plan/*.ts`. A sentence is
a record of which of its pattern and word lists match; the patterns themselves,
in four languages, and the vectors of the embedding are data. `A2A` is the life
of a task in `server.ts`, without `cancelTask`, which no client here sends, and what
`client.ts` makes of a response. `Saathi` is the
conversation: `SaathiView.tsx` (`Ask`, `Yes`, `No`, `Receive`, `SetIdentity`), the planner
with the token of `confirm.ts` (`Answer`, `CheckConfirmation`, `CallFails`), and the skills
it calls, which do their work, refuse, or throw before or after their write. The
view has no timer. `post` follows the gateway's call of the assistant, the status line
(`HeadersArrive`) and then the body (`BodyArrives`), under the timer of `callAgent` that is
cleared only when the body is read (`Armed`, `TimerFires`); the planner gives up its own
calls in the same way (`CallFails`), and both do so whatever the skill is about.

### Carbon

`computeCredit` and the methodology check of `verifyEvidence.ts` in whole numbers: the
factors are decimals with few places, so the products are exact where floating
point is not, and `Round3` rounds as `Math.round` does, halves up also below zero.

### Traces, AuditConsole, CredentialPanel, BreakIt, Screens

`Traces` is `GET /api/ledger` and the join of `apps/gateway/src/trace.ts` over the rows
behind it. Every call of an agent is a task of its own, so a trace reaches from a
verification to nothing later, and from a credit back to its verification.
`AuditConsole` and `CredentialPanel` are the two halves of `AuditConsole.tsx`: loads,
lookups and checks that overlap and are answered in any order, for the code
cancels none. `BreakIt` is `breakit/attacks.ts` and `BreakItView.tsx`: the search for
targets and the judgement of an answer, with the interleaved `orderTaskIds` written as
the k-th of its result, over an API whose guards may be broken
(`guarded`), which is what that screen is there to tell. An answer of 200 that does not
parse leaves the screen loading until it is opened again (`Unreadable`, `OpenAgain`). What
an attack that got through writes is left out: the screen has read all it will
by then. `Screens` mounts one of them at a time over a server that goes on.

## 3. What is checked

| Run | Shows | Bounds |
|---|---|---|
| `Ledger` | the chain verifies at every moment; no append collides; a returned record is in the table; every append ends; the refinement of `AppendLog` | 3 agents, 2 decisions, 4 rows |
| `Registry` | one credit per evidence; a credit is earned, and held by the lot's producer; indices never collide; a set bit means a retired credit; a list shows all that any list sent before it was asked for had shown; the custody head covers the verdict and not the issue itself; decisions in the ledger are true; only the holder retires | 3 calls, 3 pieces of evidence, one of which may be rejected, 2 matches, one without a lot, 2 readers of the list |
| `Verifier` | one call at a time per evidence, and no entry kept for an idle id; what is submitted again adds nothing; every verdict is recorded, and accepted means nothing was in doubt; every call ends | 3 calls, 2 ids, 2 photos, 1 fault |
| `Matchmaker` | a lot is placed once and no unit goes beyond its day; rounds are atomic; decisions are true | 3 rounds, 3 lots, 2 units, 2 days |
| `Producer` | detections and lots come in pairs, one per id; counts recorded are of rows inserted; an ingest that is done left nothing of its response behind; every ingest ends | 2 ingests, 1 declaration, 2 responses in opposite orders with repeats, a sample |
| `Field` | what a user was told is queued is in the queue, once; what was told sent is verified; nothing is given up early; the queue empties | 2 tabs, 2 captures, 2 photos, 3 faults, 3 attempts for the code's 10 |
| `Saathi` | an agent writes only what was on the screen when "Yes" was pressed, once; no proposal is acted on twice or after "No"; answers are true; the view never stays busy, wherever the gateway's call hangs | 3 asks of 3 sentences, 2 identities, 2 life spans of a token |
| `Screens` | the audit banner is of the chain shown and names the first edited row; a check is of the credential beside it, unless a lookup was under way while the check was; targets are what they are said to be, and neither kind starves the other; green means refused | 4 decisions, 5 for Break It, 2 loads, 2 lookups, 2 traces for the code's 24 |
| `Rules` | `assign` is the greedy rule and wastes no room; the ingest's plan is its loop and finds nothing twice; a write is proposed only to who asked for it; a credit adds up, each debit of its own mass | 3 lots over 2 units; 4 lines; every set of marks over 144 sentences; 4 sizes of batch by distance, quality and yield |

Why the bounds are enough. A race here is between two calls, and what makes it
worse is a third that comes in between, so three calls, agents or rounds.
Ledger: four rows are a genesis, a successor, and one that three
agents race for after it. Registry: two pieces of evidence for one match (two
photos) and one whose lot is gone are all the relations the guards tell apart. A
rejected verdict is tried of one piece of evidence (`OneRejected`): the guard looks at
each by itself. Two readers of the status list are what it takes to be answered
in reverse.
Verifier: the same id with different contents and the same photo under two ids
are the two ways a submission can clash; one fault, of an operation or of the
process, is enough for a retry to meet what a broken call left, which is the case
the properties are about. Faults beyond the first are not explored.
Producer: two transactions and two keys make the circle of waits; a third ingest
would only lengthen it. Field: with two tabs a flush, another flush and a submit
overlap; three faults are two attempts and one more, which is all a bound of
three tells apart. Saathi: the third ask is the one that spends a token after
the second changed who asks. Screens: four decisions hold a verified, credited and
retired batch and one newer verification; five hold two credited batches and a
refusal, or a credited batch behind three verifications, and with two traces the
one of its kind is within reach only because the queues are interleaved. The fifth
is for Break It alone, and with it only one attack is tried (`Short`): what an attack
is shown as depends on no other.
Rules: a lot that fits, one that exactly fits and one that does not, over two
units of which one is nearer; three lots are enough for a later one to be
turned away by two earlier ones. Symmetry is used for calls and rounds in runs
without liveness; nothing distinguishes them.

Deadlock is checked in every run; the MC modules add a stutter only where every
call is over, or everything sent is settled.

### Fairness

`Ledger`: an agent that is alive goes on with its call (weak fairness: Node runs
what is ready), Postgres notices a lost connection (`Reap`), and its lock queue is
first come, first served, so waiting is not overtaken for ever: strong fairness
of `AcquireLock`. Nothing is assumed of `Begin`, `Rollback` or `Crash`.
`Verifier`: a call that can make a step does, on the same ground; the mutex
is made of promises, and needs no strong fairness. `Producer`: the same of an ingest,
and Postgres looks for deadlocks. `Field`: the retry timer fires, and a send ends
(the browser and the gateway both have timers); nothing is assumed of the user.
`Saathi`: a timer that is armed and not cleared fires, and what the gateway answers
reaches the view. That the assistant, an agent or the network ever does anything is not
assumed, so the view frees itself whatever hangs behind the gateway; a timer cleared when
`fetch` returns would leave it busy over a body that never ends, which is the
mistake TLC is given. Nothing forces a fault, and nothing but the bound of the model keeps one from
happening.

### Disagreements found

Each is a run that TLC refutes, and an entry of `findings` with the line quoted.

* `RegistryRetireTwice`: two retirements of one credit both read "issued" and both
  append a decision; `retireCredit.ts` says the ledger must not say it twice.
* `FieldServerErrors`: a capture waits in the queue; a flush sends it while the verifier
  restarts, which never sees it; the gateway answers 500 with a message that names no status
  ("fetch failed"), and the flush takes it for a refusal and drops the item. It is
  then in no queue and no database; `queue.ts` says it must not be lost to that.
* `SaathiUnchanged`: a skill that committed and then failed, or was given up by the
  planner's timer, is answered "Nothing was changed".

Seen while modelling, and not given a run of their own: most take a step or two and
are read off the code, some need a size no run reaches.

* A failure between storing a credit and appending its decision leaves a credit the
  ledger never mentions; `runMatching`, `ingestBurns` and `declareWaste` have the
  same gap, `verifyEvidence` has it the other way round and records a retry twice.
* Overlapping requests of the status list may be answered in the order opposite to that
  of their reads, so of two lists the one sent later may lack a revocation that
  the earlier shows. `AskingAgainShowsNoLess` is what is left: who asks after
  a list was sent sees all it showed.
* Indices of the status list grow without bound and the list does not: the first
  retirement past the end makes the whole list unavailable.
* Credits are unique per evidence, not per match: two photographs of one match are
  each credited with its whole tonnage.
* A load under way when the tamper demo begins wipes the edit; an older lookup, or
  a check made of the credential before, may land beside a newer one.
* Every call of an agent is a task of its own, so accepted verifications count
  as refused in the search for targets, and with 24 newer ones (in the run, two) Break It
  says that no refused batch exists. `TargetsAreReal` asks for a refusal only when it
  is the newest verification.
* The trace's "no such task id" reaches the panel without "404", so the explanation
  written for it is never shown.
* An item first queued for lack of a network has one attempt counted against it,
  although being offline "never counts" (`queue.ts` 33-34).

## 4. What is proved

For every set of agents and decisions and every bound (`Ledger_proofs`):

* `TypeCorrect`, `ChainAlwaysIntact`, `AppendsNeverCollide`,
  `ReturnedRecordIsLogged`: the four invariants.
* `LedgerImplementsAppendLog`: the refinement; each step of `Ledger` is a step
  of `AppendLog` or changes nothing it sees.

The argument. `ChainIntact` is not inductive: an append may break the chain
if the row it was linked onto is no longer the last. `IInv` adds what excludes
that: a session between taking the lock and ending its transaction is the only
holder (`LockInv`); only it has a pending row, also after its process died
(`PendingInv`); so what it linked is still linked onto the last row, and what a
call that committed returns is in the table (`CallInv`). `NeverRefused` is part of
`IInv` because a refused session would hold the lock with nothing to commit.
The proof has a step per action and a lemma on appending a linked record to a valid
chain. The refinement cites the same invariant, with the mapping `CallOf`.

For every set of calls, evidence, matches and holders, and any size of the status
list (`Registry_proofs`), from the assumptions named in `Registry` (`MatchOf` and
`HolderOf` are functions of the right type, verdicts are among the three):

* `TypeCorrect`, `NoDoubleCounting`, `CreditsAreEarned`, `IndicesNeverCollide`,
  `ListIsTrue`, `CustodyHeadCovers`, `HolderRetires`: the invariants of the run.
* `ListsShowNoLess`: the action property `AskingAgainShowsNoLess`.

The argument. What a call checked must still hold when it acts, several awaits
later. `CallInv` says what each step of a call may rely on, and it is stable
because verdicts never change, holders never change, and credits are never
removed. `IndexInv` says that an index drawn from the sequence is below its next
value, and belongs to one call and then to one credit; `IdInv` the same of the
random ids. `HeadInv` relates the ledger to the calls: a visible verdict has its
decision, a head that was read already covers it, and no decision to issue is
there before its call is over. `ListInv` says that what was ever served is
retired, from which `ListIsTrue` follows because indices are unique, and that
a request under way has read all that had been served when it was asked, from which
`ListsShowNoLess` follows: a read takes everything retired, and nothing leaves that set.

* `LedgerTellsTheTruth`: the invariant `DecisionsAreTrue`, by a second induction on top
  of the first. `RecordInv` says that a credit is in its final state before its
  decision is appended, and stays in it, wherever the call fails; and that the
  decision to issue has one position in the ledger, because `HeadInv` allows it there
  only once its call is over. The theorems on finite sets turn one position
  into a count.

For chains of any length (also in `Ledger_proofs`), with no assumption on constants:

* `EditedRecordsFail`: editing the contents of records of a valid chain makes
  exactly those records fail the audit. This is why the console points at the
  row that was edited.
* `HashPinsHistory`: two valid chains that agree on one hash agree on every record
  up to it. This is why a credential may sign one hash, the custody head, for
  the whole history of its batch.

Both rest on the digest being injective, which the model builds in.

For every set of sentences, people, credits and districts, conversations of any
length and any time (`Saathi_proofs`):

* `Types`, `OnlyAgreed`, `ProposalsSpentOnce`, `AnswersTrue`: the type invariant and
  the safety invariants of the run.

The argument follows a write back to what the user read. `CallInv` says that a skill
runs for an ask only as its meaning plans, and for a write only if the ask spent
a token minted for the same meaning; `TokenInv` that the call of that earlier ask is
what the screen showed when Yes was pressed, and that no other ask spends
it; `ViewInv` why: the button is that of the newest turn, nothing else is asked
while the view waits, and what was shown last is what the newest turn
proposed, also when that turn is an expired proposal whose reply does not repeat it.
`PostInv` says that an answer is on its way to the view only of an ask that was answered.
The token alone is not enough: it is `ViewInv`, a property of the view, that makes
it good for one use. What `Execute` publishes is a concatenation, so the lemma
`Execution` rests on the library's theorems on sequences; what a sentence means
is left as an arbitrary function of the sentence, except that only a plan that
must be confirmed writes (`Plans`).

For every set of rounds, lots, units and districts (`Matchmaker_proofs`), from the
assumptions that ids are unique and that tonnes, capacities and distances are whole
numbers:

* `RoundsLookAtomic`: the action property `RoundsAreAtomic`. What a round writes is
  what `assign` makes of the lots it read and of what is committed when it writes.
* `LedgerTellsTheTruth`: the invariant `DecisionsAreTrue`.
* `RaceDoublesNothing`: the invariant `PlacedOnceWithinCapacity`, type correctness included.
* `AssignAlwaysGreedy`: the invariant `AssignFollowsTheRule` of `Rules`, in any case of a round with
  a finite set of lots, whatever the units, radius and commitments: `assign` satisfies
  `FollowsTheRule` and `NothingLeftOver`, where the run has three lots and two units.

The argument for the rounds. A round in its transaction holds the matching lock alone (`LockInv`),
so nobody commits matches between its SELECT and its COMMIT, and what it
decided on is still what it would decide (`RowInv`). `RowInv` also says that the rows
which carry a round's name are, before its commit, none, and after it, exactly
what it decided; a ledger entry can therefore not tell of more or less. Each step
of a round but the last is an instance of one lemma, `StepKeeps`, that lists what a
step of one round may not disturb for the others.

The argument for `assign`. The fold is by definition a recursive function on sets of
positions, so it can be opened without induction over sequences: `Recursion` shows that such a
function exists, and `AssignRuns` reads off it the rounds `R[0]`, `R[1]`, ... after each
lot of the sorted copy, each made from the one before by `Place`. Of these a least
counterexample shows two things. `Served`: what was given after k lots went to these
lots, once and whole, and a unit's room is what is left of it plus the tonnes given
of it. `Kept`: nothing given is taken back, and room never grows. So the rows of the
lots ahead of a lot are exactly what had been given when its turn came (`RowsAre`), which is
what `FollowsTheRule` compares with. Sums of tonnes are folds too; the lemmas from
`TonnesIsSum` to `TonnesOfRows` give their laws.

The argument for the lots and units. `PlacedOnceWithinCapacity` is not inductive: a round
could commit a lot that another placed since it read the list. `PlaceInv` adds that what a
round offers is still listed until it commits, which holds because of `LockInv`, and that
the sets are finite. At the commit, `RowInv` says the rows are what `assign` makes of
that offer now, `AssignGives` that they are of offered lots, once each, and weigh no more than
the room left by everything decided on the round's day or later. Where later days have already
overdrawn that room there is none, and nothing is added.

For every set of calls, ids, photos and matches, and any number of faults
(`Verifier_proofs`), from the assumptions that payloads are well typed and that
no call is called "no call":

* `TypeCorrect`, `MutexWorks`, `NothingTwice`, `VerdictsEarned`: the type invariant and the
  three safety invariants of the run.

The argument. `keyedMutex` stores no queue: it stores one tail per id, and each
call remembers whom it found there. `LineInv` recovers the queue: behind each id there
is a sequence of its live calls, each waiting for the one before it, the first
for nobody, and the tail is the last. A lemma shows that whoever has the turn is
the first, from which `MutexKeepsTurns` follows; four more show what entering, going on,
ending and a crash of the process do to the line. The rest is what the turn
protects: a call past its claim has its row (`CallInv`), what is stored or may
still land was decided, and what was decided accepted was earned by a stored
payload (`LedgerInv`). A crash takes the turn from a call whose `INSERT` is on its way,
so uniqueness of rows is not the mutex's but the table's (`OneRow`), and is proved
with the late writes. `OnceInv` is conditional on there having been no fault, as
`AgainAddsNothing` is: a decision without a verdict then always has its call at work,
and nobody else's call for that id is past the queue.

For every set of ingests and declarations and any responses, fixture and
centroids (`Producer_proofs`), from the assumptions that no call is both and
that a response is a header and a list of lines:

* `LotsInPairs`, `CountsTrue`, `NothingLeftBehind`: the safety invariants of the run, the first
  of which includes the type invariant.

The argument. A row names its call, and its shape says which insert wrote it (`RowOK`);
the two primary keys make it the only one of its key (`RowInv`). `PairInv` follows an ingest
through its plan: what it has passed is there, its own or committed by the
transaction it waited for, and its lots come after their detections. It is
stable because a row disappears only when its call aborts, and nobody counts
on the rows of a call that is still able to abort, itself excepted: that is
`Sure`, and the reason why `Insert` has to wait. `ListInv` needs that the plan covers
the response: every line worth a lot is known to the database or in `Fresh`, which is
proved of the set that stands for the loop (the smallest line of an id is
there because the naturals are well founded), and not of its recursion; `KeepAtIsAll`
says that the list made of that set leaves nothing out. Counts are of the rows of
one call, which no step of another touches. Deadlock victims and failures are one
lemma: they roll back.

* `PlanAlwaysTheLoop`: the invariant `PlanIsTheLoop` of `Rules`, for any response whose lines
  carry a whole radiative power, and any known detections, from the assumption that the
  states of the centroid table are the four that `firms.ts` names.

The argument. `After` writes the loop's state after the lines whose numbers are in a set: what was seen,
the list of what was found, the four counts. `AfterOneMore` says that one line more is one
turn of the loop (`TakeLine`), with `KeepAtAppends` for the list and `NthIsRanked` for the order
in it; so `After` satisfies the equations `FoldLeft` is defined by, and a least
counterexample among the prefixes shows that it is the fold (`LoopIsAfter`). The set-wise plan is
`After` of all the lines. That no line is lost follows because the four skips and `Fresh`
partition them, and that a second ingest finds nothing because every id found has its
smallest line in `Fresh`.

For every number of tabs, photos and pieces of evidence, and any bound on faults
(`Field_proofs`), from the assumptions that an item may be tried at least twice
(the code: ten times) and that evidence is numbered:

* `QueueKeepsItsWord`, `DeliveredIsDelivered`, `NeverGivesUpEarly`: the safety invariants of the
  run, the first of which includes the type invariant.

The argument. The code reads the list anew after every await and writes it whole, so
what has to be shown is that a stale copy does no harm. `FlushInv` is all that holds of a
flush's copy: what is in it was queued once, not that it still is. `SubmitInv`
says that a submit is of evidence nobody has been told of, and that no other tab
submits; a submit and a flush are therefore never about the same item, and two flushes
that are can only drop it twice or rewrite it where it stands. With
`QueueInv`, items are unique and are exactly what users were last told waits;
`VerifiedInv` carries a verdict to its row, also when the caller has gone; `AttemptsInv` bounds
the attempts of an item, and of every stale copy of it, by the server errors counted,
plus one for the first failure. `Drop` is a `KeepAt`: the lemma `KeepAtOnce` gives
a bijection between what is left of a list and the positions kept, from which
`DropKeeps` reads that nothing else is lost, doubled or changed.

For a ledger of any length, any number of loads, lookups and checks under way at
once, and any bound on the search of at least two traces (the code: 24) (`Screens_proofs`):

* `AuditAlwaysTrue`: the invariant `AuditIsTrue`. The verdict on the screen is that of the chain
  beside it, and names the first row edited.
* `ChecksNeverOfAnother`: the invariant `ChecksAreOfThisCredential`.
* `TargetsAlwaysReal`: the invariant `TargetsAreReal`.
* `NothingPaintedFalsely`: the invariant `PaintedTrue`, over an API that refuses and one that does not.

The argument. The screens show what the server was when it answered, which is not what it is. The
ledger only grows and stays a valid chain, so what any answer brings is a prefix of it, a valid chain
itself (`WasLedger`, `PrefixIsLedger`). `AuditInv` adds that the rows on the screen are such a prefix
with only contents edited (`IsEditOf`), and `EditedRecordsFail` of `Ledger_proofs` then says which row
the audit must name; where nothing was edited it must pass. `PanelInv` is about overtaking: the
model notes whether a lookup was under way while a check was (`overtaken`). As long as it was
not, no check is under way or shown while a lookup is, and those that are are of the
credential shown. What is claimed of the rest is less: that a "revoked" is of a retired
credit, and that what the trace shows is in the table. That the code lets overtaken
answers land is listed under "Disagreements found". For Break
It, a trace that was fetched stays a true account of its batch, since evidence has one verdict
and a credit its one batch (`RowsAgree`, `IsBundle`). `CreditInSight` and `RefusalInSight` carry the search:
the newest credited task and the newest verification are the first two of `orderTaskIds`, for the queues are
interleaved (`BothAreSoon`), and each is fetched already or still in the queue; that is the reason for
the two in the assumption. `BreakInv` says what was painted so far is so, and
`TamperIsFound` that the attack on the ledger is one that `verifyChain` must find.

For every reading of a sentence (`Saathi_proofs`), from the assumption that "none" is no intent:

* `WritesAlwaysAsked`: the invariant `WritesAreAsked` of `Rules`. Whatever patterns and words a sentence
  matches and whatever the embedding says, a write is planned only if the sentence asks for it and
  names all it acts on. A split on the owner of the sentence and on the best candidate, of
  which the gate needs one above its threshold.

For every batch (`Registry_proofs`):

* `CreditAlwaysAddsUp`: the invariant `CreditAddsUp` of `Rules`, for any weight, distance and score. The
  parts add up to the credit but for their rounding, each debit is of its own mass, quality and nearness never lower it,
  and it is no more than the lot could hold: arithmetic over `Round3`, which is
  monotone and off by at most half of the last place.

Only model-checked:

* Liveness under fairness (`EveryCallEnds`, `EveryIngestEnds`, `QueueDrains`, `AskingEnds`):
  the prover does not reach it.
* The three properties under "Disagreements found" are refuted, and there is nothing to prove.

Every other property of the runs, invariants and action properties alike, is the
statement of a theorem above. Those of `Rules` are proved of an arbitrary case, a state
predicate and not an invariant, with the hypothesis that the case is well formed.

## 5. What is not modelled

* Distances and districts: `Km` is a constant; the haversine formula and the lookup
  of the nearest centroid are floating point without state.
* The patterns of `resolve.ts` in four languages and the vectors of `embed.ts`: a
  sentence is what matches. The wording of replies and screens.
* The image pipeline and the ONNX runtime of the phone, and `serial.ts` around it: the
  photo is a hash, the verifier attests or doubts. The capture screen's memory of
  the last lot.
* Cryptography: the digest is injective, credentials are rows, a token is the ask
  that minted it. Agents' JWTs. `cancelTask`, which no client of the repository sends.
* The token bucket of `ratelimit.ts`: a 429 is one of the failures.
* Other views (Mesh, Operator, Provenance): presentation of rows others produce,
  polled and overwritten. Training, seed scripts, deployment: offline.
* The Postgres pool of ten connections: `Ledger` gives each call its own. No
  call waits for a second connection while it holds one, so the pool delays and
  cannot deadlock.

## 6. Plan

The core came first (chain, ledger, registry, verifier, matching), then what feeds it
and reads it (producer, field queue, Saathi, the screens), each with its run and its
proofs. What is left:

1. A composition of lot, match, evidence and credit that counts tonnes, to state
   what the code lacks: that no tonne is credited twice.
2. The status list at its limit, with an index that is handed out past the end.
3. The Postgres pool: that ten connections delay the agents and never stop them.
