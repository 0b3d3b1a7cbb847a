------------------------------ MODULE MCHealth ------------------------------
(***************************************************************************)
(* Health for TLC: one pool.                                               *)
(***************************************************************************)
EXTENDS Health

OnePool == [b \in Backends |-> "pool"]
=============================================================================
