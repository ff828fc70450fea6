------------------------------- MODULE Carbon -------------------------------
(***************************************************************************)
(* What a batch is worth: computeCredit (packages/core/src/carbon.ts), the *)
(* methodology check it rests on (verifyEvidence.ts), and the call of      *)
(* issueCredit.  In floating point there, in whole numbers here:           *)
(*                                                                         *)
(*   feedstock  tenths of a tonne          biochar  thousandths of a tonne *)
(*   quality    tenths (1 is 10)           km       whole kilometres       *)
(*   a result   thousandths of a tonne of CO2e                             *)
(***************************************************************************)
EXTENDS Integers

(* FACTORS: 1.437 tCO2e per tonne of biochar, 0.28 t of biochar per tonne   *)
(* of feedstock, 0.14 kg per tonne-km, 0.045 tCO2e per tonne of biochar.    *)
Sequestered(biochar, quality) == biochar * 1437 * quality  \* in 10^-7 t
Expected(feedstock)           == feedstock * 28            \* in 10^-3 t
Transport(feedstock, km)      == feedstock * km * 140      \* in 10^-7 t
Process(biochar)              == biochar * 450             \* in 10^-7 t

(* Math.round of thousandths: halves go up, below zero too.                 *)
Round3(x) == (x + 5000) \div 10000

Clamped(quality) == IF quality < 0 THEN 0 ELSE IF quality > 10 THEN 10 ELSE quality

(* A mistake: the factor is per tonne of biochar, and multiplies feedstock. *)
CreditPerFeedstock(feedstock, biochar, km, quality) ==
  LET gross == Sequestered(feedstock * 100, Clamped(quality))
  IN  [gross |-> Round3(gross), transport |-> Round3(Transport(feedstock, km)),
       process |-> Round3(Process(biochar)),
       net |-> Round3(gross - Transport(feedstock, km) - Process(biochar))]

(* A mistake: the process is debited of what went in.                       *)
ProcessOfFeedstock(feedstock, biochar, km, quality) ==
  LET gross == Sequestered(biochar, Clamped(quality))
  IN  [gross |-> Round3(gross), transport |-> Round3(Transport(feedstock, km)),
       process |-> Round3(Process(feedstock * 100)),
       net |-> Round3(gross - Transport(feedstock, km) - Process(feedstock * 100))]

ComputeCredit(feedstock, biochar, km, quality) ==
  LET gross == Sequestered(biochar, Clamped(quality))
  IN  [gross |-> Round3(gross), transport |-> Round3(Transport(feedstock, km)),
       process |-> Round3(Process(biochar)),
       net |-> Round3(gross - Transport(feedstock, km) - Process(biochar))]

(* output_vs_matched_lot: at most 0.4 t of biochar of a tonne of feedstock. *)
OutputFitsLot(feedstock, biochar) == biochar <= feedstock * 40

-----------------------------------------------------------------------------
(* What a credit must be, of a batch that passed the check: its parts add   *)
(* up to it but for their rounding, the haul is debited of the feedstock    *)
(* whatever came of it and the process of the biochar whatever it came of,  *)
(* no better quality or shorter haul is worth less, and no score, however   *)
(* far out of range, makes it more than the lot could have sequestered.     *)
AddsUp(feedstock, biochar, km, quality) ==
  LET Worth(k, q) == ComputeCredit(feedstock, biochar, k, q)
      credit == Worth(km, quality)
  IN  /\ credit.net - (credit.gross - credit.transport - credit.process) \in -2..2
      /\ credit.transport = ComputeCredit(feedstock, 0, km, quality).transport
      /\ credit.process = ComputeCredit(0, biochar, 0, quality).process
      /\ credit.net <= Worth(km, quality + 1).net
      /\ km > 0 => credit.net <= Worth(km - 1, quality).net
      /\ OutputFitsLot(feedstock, biochar) =>
           0 <= credit.gross /\ credit.gross <= Round3(Sequestered(feedstock * 40, 10))
=============================================================================
