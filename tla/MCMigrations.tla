---------------------------- MODULE MCMigrations ----------------------------
(***************************************************************************)
(* Two commands at once on a database with up to two cases.                *)
(***************************************************************************)
EXTENDS Migrations, TLC

RunnerSymmetry == Permutations(Runners)
CaseSymmetry == Permutations(Cases)
BothSymmetries == RunnerSymmetry \cup CaseSymmetry
=============================================================================
