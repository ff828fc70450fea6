----------------------------- MODULE HashChain -----------------------------
(***************************************************************************)
(* The hash chain of packages/core/src/hashchain.ts: how one decision is   *)
(* linked onto the chain, and how a chain is audited.                      *)
(*                                                                         *)
(* SHA-256 over canonical JSON is modelled as an injective constructor: a  *)
(* digest IS the pair of things that were hashed.  That keeps the only two *)
(* facts the program relies on, equal inputs give equal digests and        *)
(* different inputs give different ones, and assumes away collisions.      *)
(*                                                                         *)
(* A "decision" stands for every field of a DecisionRecord other than seq, *)
(* prevHash and hash: taskId, agent, action, inputHash, outputHash, at ... *)
(***************************************************************************)
EXTENDS Naturals, Sequences, Functions, FiniteSetsExt

GENESIS_HASH == <<>>

Sha256(prevHash, body) == <<prevHash, body>>

(* The hashed part of a record: everything but the hash itself.            *)
BodyOf(rec) ==
  [seq |-> rec.seq, decision |-> rec.decision, prevHash |-> rec.prevHash]

(* A mistake: the previous record's prevHash is taken for its hash.         *)
LinkToGrandparent(last, decision) ==
  LET prev     == CHOOSE rec \in last : TRUE
      prevHash == IF last = {} THEN GENESIS_HASH ELSE prev.prevHash
      body     == [seq      |-> IF last = {} THEN 0 ELSE prev.seq + 1,
                   decision |-> decision,
                   prevHash |-> prevHash]
  IN  [seq |-> body.seq, decision |-> decision, prevHash |-> prevHash,
       hash |-> Sha256(prevHash, body)]

(* linkDecision(prev, input).  `last` is what the caller's LIMIT 1 query    *)
(* returned: a set of at most one record, empty on an empty ledger.         *)
LinkDecision(last, decision) ==
  LET prev     == CHOOSE rec \in last : TRUE
      prevHash == IF last = {} THEN GENESIS_HASH ELSE prev.hash
      body     == [seq      |-> IF last = {} THEN 0 ELSE prev.seq + 1,
                   decision |-> decision,
                   prevHash |-> prevHash]
  IN  [seq      |-> body.seq,
       decision |-> decision,
       prevHash |-> prevHash,
       hash     |-> Sha256(prevHash, body)]

----------------------------------------------------------------------------
(* verifyChain(chain): the loop compares each record with its position,     *)
(* with the stored hash of the record before it, and with its own content.  *)

ExpectedPrevHash(chain, i) ==
  IF i = 1 THEN GENESIS_HASH ELSE chain[i - 1].hash

RecordHolds(chain, i) ==
  /\ chain[i].seq = i - 1
  /\ chain[i].prevHash = ExpectedPrevHash(chain, i)
  /\ chain[i].hash = Sha256(ExpectedPrevHash(chain, i), BodyOf(chain[i]))

ChainValid(chain) == \A i \in DOMAIN chain : RecordHolds(chain, i)

(* The seq verifyChain reports: that of the first record that fails.        *)
BrokenAtSeq(chain) ==
  chain[Min({i \in DOMAIN chain : ~ RecordHolds(chain, i)})].seq

(* SELECT ... ORDER BY seq DESC LIMIT 1                                      *)
LastBySeq(table) ==
  {rec \in Range(table) : \A other \in Range(table) : other.seq <= rec.seq}
=============================================================================
