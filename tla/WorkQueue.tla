----------------------------- MODULE WorkQueue ------------------------------
(***************************************************************************)
(* What the policy handoff queue promises: the work items of one slot are  *)
(* taken in the order they were pushed, each exactly once; nothing is said *)
(* about the order between slots.                                          *)
(*                                                                         *)
(* An item is [slot, n], n its place in the order of all pushes.           *)
(***************************************************************************)
EXTENDS Naturals

CONSTANT Items

VARIABLES waiting,      \* the items pushed and not yet taken
          taken         \* the items a worker has taken

Init == waiting = {} /\ taken = {}

Push(item) ==
    /\ \A other \in waiting \cup taken : other.n < item.n
    /\ waiting' = waiting \cup {item}
    /\ UNCHANGED taken

Take(item) ==
    /\ item \in waiting
    /\ \A other \in waiting : other.slot = item.slot => item.n <= other.n
    /\ waiting' = waiting \ {item}
    /\ taken' = taken \cup {item}

Next == \E item \in Items : Push(item) \/ Take(item)

Spec == Init /\ [][Next]_<<waiting, taken>>
=============================================================================
