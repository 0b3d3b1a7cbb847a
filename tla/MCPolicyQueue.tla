--------------------------- MODULE MCPolicyQueue ----------------------------
(***************************************************************************)
(* PolicyQueue with two policy workers on four shards, as start_split_io   *)
(* builds it: shards 2 and 3 have no home worker.                          *)
(***************************************************************************)
EXTENDS PolicyQueue

CONSTANTS a, b

MCWorkers == {a, b}
MCHome == [w \in MCWorkers |-> IF w = a THEN 0 ELSE 1]
MCSlots == {0, 2, 4}
=============================================================================
