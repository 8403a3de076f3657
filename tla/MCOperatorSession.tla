------------------------- MODULE MCOperatorSession -------------------------
(***************************************************************************)
(* Small values for the constants of OperatorSession.                      *)
(***************************************************************************)
EXTENDS OperatorSession, TLC

(* Not configured, may read only, may decide.                              *)
SomeRoles == {{}, {"reviewer"}, {"approver"}}
ApproversOnly == {{"approver"}}
(* Tabs are interchangeable, and so are users.                             *)
TabSymmetry == Permutations(Tabs) \cup Permutations(Users)
=============================================================================
