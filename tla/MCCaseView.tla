----------------------------- MODULE MCCaseView -----------------------------
(***************************************************************************)
(* Small values for the constants of CaseView.                             *)
(***************************************************************************)
EXTENDS CaseView, TLC

(* A good and a failed item.                                               *)
LittleEvidence == {<<"succeeded", "failed">>}

(* Two, to see a plan replaced by another.                                 *)
TwoActions == {"request_missing_document", "review_duplicate_records"}

(* Operators are interchangeable: no action or property names one.         *)
OperatorSymmetry == Permutations(Operators)
=============================================================================
