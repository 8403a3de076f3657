-------------------------- MODULE MCCaseResolution --------------------------
(***************************************************************************)
(* Small values for the constants of CaseResolution.                       *)
(***************************************************************************)
EXTENDS CaseResolution, TLC

(* A good and a failed item.                                               *)
LittleEvidence == {<<"succeeded", "failed">>}

SomeActions == {"request_missing_document"}

(* Operators are interchangeable: no action or property names one.         *)
OperatorSymmetry == Permutations(Operators)
=============================================================================
