-------------------------- MODULE MCConnectionPool --------------------------
(***************************************************************************)
(* One request of each kind at a time, again and again: the two that await *)
(* Temporal fill the pool for the others and for each other's next step.   *)
(* (A repeated decision does the first and the last step of a decision.)   *)
(***************************************************************************)
EXTENDS ConnectionPool

Pages == {"create", "decide", "read", "health"}
Itself == [k \in Pages |-> k]
=============================================================================
