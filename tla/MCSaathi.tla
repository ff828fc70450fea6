------------------------------ MODULE MCSaathi ------------------------------
(* Saathi for TLC: a declaration, a retirement and a question, typed by     *)
(* someone who may change who they are.                                     *)
EXTENDS Saathi

CONSTANTS Amritsar, Credit, Ward, Mill

Saying(marks, quantities, crops, places, creditId) ==
  [marks |-> marks, quantities |-> quantities, crops |-> crops, places |-> places,
   creditId |-> creditId, lotId |-> None, nearest |-> <<>>, isLanguage |-> TRUE]

Declaring == Saying({"declareVerb"}, <<30>>, {[length |-> 5, is |-> "paddy_straw"]},
                    {[length |-> 8, is |-> Amritsar]}, None)
Retiring  == Saying({"retire"}, <<>>, {}, {}, Credit)
Asking    == Saying({"asks"}, <<>>, {}, {}, Credit)

MCSentences  == {Declaring, Retiring, Asking}
MCIdentities == {Ward, Mill}
=============================================================================
