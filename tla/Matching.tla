------------------------------ MODULE Matching ------------------------------
(***************************************************************************)
(* assign of agents/matchmaker/src/matching.ts: one matching round, as a   *)
(* pure function of the lots on offer, the units, the radius and what was  *)
(* already committed to each unit.                                         *)
(*                                                                         *)
(*   a lot is   [id, tonnes, feedstock, km], km[u] being the road distance *)
(*              to unit u;                                                 *)
(*   a unit is  [id, capacity, accepts].                                   *)
(*                                                                         *)
(* Ids are numbers, which stand for their alphabetical order.  Tonnes and  *)
(* distances are whole numbers where the code has floating point.          *)
(***************************************************************************)
EXTENDS Integers, Sequences, FiniteSets, SequencesExt, FiniteSetsExt

(* Big lots first; ties break on lotId.                                     *)
Ahead(a, b) == a.tonnes > b.tonnes \/ (a.tonnes = b.tonnes /\ a.id < b.id)

(* The k-th lot of the sorted copy has k - 1 lots ahead of it.              *)
ByTonnesDesc(lots) ==
  [k \in 1..Cardinality(lots) |->
     CHOOSE l \in lots : Cardinality({m \in lots : Ahead(m, l)}) = k - 1]

(* A unit that is already over its capacity has no room.                    *)
Room(unit, committed) == Max({0, unit.capacity - committed[unit.id]})

(* The candidates of a lot, given the room that remains at each unit: a     *)
(* unit that accepts the feedstock, in range, with room for the WHOLE lot.  *)
WithRoom(lot, units, maxRadiusKm, remaining) ==
  {u \in units : /\ lot.feedstock \in u.accepts
                 /\ lot.km[u.id] <= maxRadiusKm
                 /\ remaining[u.id] >= lot.tonnes}

(* transportKgCo2e, in units of its constant factor.                        *)
Debit(lot, unit) == lot.tonnes * lot.km[unit.id]

(* The smallest transport debit; ties break on unitId.                      *)
Nearest(lot, candidates) ==
  CHOOSE u \in candidates : \A v \in candidates :
    \/ Debit(lot, u) < Debit(lot, v)
    \/ Debit(lot, u) = Debit(lot, v) /\ u.id <= v.id

(* A mistake: the room that was taken is not given up.                      *)
PlaceKeepingRoom(round, lot, units, maxRadiusKm) ==
  LET candidates == WithRoom(lot, units, maxRadiusKm, round.remaining)
      unit       == Nearest(lot, candidates)
  IN  IF candidates = {} THEN round
      ELSE [round EXCEPT !.assignments = @ \cup
              {[lotId |-> lot.id, unitId |-> unit.id, assignedTonnes |-> lot.tonnes]}]

(* One turn of the loop.                                                    *)
Place(round, lot, units, maxRadiusKm) ==
  LET candidates == WithRoom(lot, units, maxRadiusKm, round.remaining)
      unit       == Nearest(lot, candidates)
  IN  IF candidates = {} THEN round
      ELSE [remaining   |-> [round.remaining EXCEPT ![unit.id] = @ - lot.tonnes],
            assignments |-> round.assignments \cup
              {[lotId |-> lot.id, unitId |-> unit.id, assignedTonnes |-> lot.tonnes]}]

(* The whole round; a lot without an assignment is an unmatched one.        *)
Assign(lots, units, maxRadiusKm, committed) ==
  LET UnitWith(i) == CHOOSE u \in units : u.id = i
      start == [remaining   |-> [i \in {u.id : u \in units} |-> Room(UnitWith(i), committed)],
                assignments |-> {}]
      Turn(round, lot) == Place(round, lot, units, maxRadiusKm)
  IN  FoldLeft(Turn, start, ByTonnesDesc(lots)).assignments

-----------------------------------------------------------------------------
(* What a round promises, without the loop.                                 *)

TonnesAt(unit, assignments) ==
  MapThenSumSet(LAMBDA a : a.assignedTonnes, {a \in assignments : a.unitId = unit.id})

(* What lots ahead of this one leave at each unit.                          *)
LeftBy(ahead, units, committed, assignments) ==
  [i \in {u.id : u \in units} |->
     LET u == CHOOSE v \in units : v.id = i
     IN  Room(u, committed)
           - TonnesAt(u, {a \in assignments : \E l \in ahead : l.id = a.lotId})]

(* Every lot is where the rule says: at the nearest of the units that can   *)
(* take it whole after all bigger lots were served, or nowhere if there is  *)
(* none (the five numbered rules above assign).                             *)
FollowsTheRule(lots, units, maxRadiusKm, committed, assignments) ==
  \A lot \in lots :
    LET ahead      == {l \in lots : Ahead(l, lot)}
        candidates == WithRoom(lot, units, maxRadiusKm,
                               LeftBy(ahead, units, committed, assignments))
    IN  {a \in assignments : a.lotId = lot.id} =
          IF candidates = {} THEN {}
          ELSE {[lotId |-> lot.id, unitId |-> Nearest(lot, candidates).id,
                 assignedTonnes |-> lot.tonnes]}

(* No unit ends the round with room for a lot that was turned away, and     *)
(* none takes more than the room it had.                                    *)
NothingLeftOver(lots, units, maxRadiusKm, committed, assignments) ==
  LET left == LeftBy(lots, units, committed, assignments)
  IN  /\ \A i \in DOMAIN left : left[i] >= 0
      /\ \A lot \in lots :
           (\A a \in assignments : a.lotId # lot.id) =>
             WithRoom(lot, units, maxRadiusKm, left) = {}
=============================================================================
