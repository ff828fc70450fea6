----------------------------- MODULE AppendLog -----------------------------
(***************************************************************************)
(* What the ledger promises the four agents, with no lock, transaction or  *)
(* hash in sight: a list of decisions that only grows.  A call takes       *)
(* effect at most once, at one instant between its start and its end, and  *)
(* a call that returns was told the position its decision really has.  A   *)
(* call that fails may or may not have taken effect.                       *)
(***************************************************************************)
EXTENDS Naturals, Sequences

CONSTANTS Writers, Decisions

VARIABLES
  entries,   \* the decisions recorded so far, in order
  call       \* call[w]: the call writer w has in progress

avars == <<entries, call>>

NoCall           == [state |-> "none"]
Pending(d)       == [state |-> "pending", decision |-> d]
Recorded(d, pos) == [state |-> "recorded", decision |-> d, position |-> pos]

AInit ==
  /\ entries = <<>>
  /\ call = [w \in Writers |-> NoCall]

Start(w, d) ==
  /\ call[w] = NoCall
  /\ call' = [call EXCEPT ![w] = Pending(d)]
  /\ UNCHANGED entries

Record(w) ==
  \E d \in Decisions :
    /\ call[w] = Pending(d)
    /\ entries' = Append(entries, d)
    /\ call' = [call EXCEPT ![w] = Recorded(d, Len(entries'))]

(* The caller got its record back, or the call failed before or after the   *)
(* decision was recorded.                                                   *)
Finish(w) ==
  /\ call[w] # NoCall
  /\ call' = [call EXCEPT ![w] = NoCall]
  /\ UNCHANGED entries

ANext ==
  \E w \in Writers :
    \/ \E d \in Decisions : Start(w, d)
    \/ Record(w)
    \/ Finish(w)

ASpec == AInit /\ [][ANext]_avars
=============================================================================
