------------------------------ MODULE SlotPool ------------------------------
(***************************************************************************)
(* What the transaction slot pool promises to the threads that use it: a   *)
(* slot is granted to one client at a time, and a client is refused only   *)
(* while every slot of the capacity is held.                               *)
(***************************************************************************)
CONSTANTS Clients, Slots, NoOne

VARIABLES waiting,      \* clients that asked for a slot
          held          \* the slot each client holds

Init == waiting = {} /\ held = [c \in Clients |-> NoOne]

Request(c) ==
    /\ c \notin waiting /\ held[c] = NoOne
    /\ waiting' = waiting \cup {c}
    /\ UNCHANGED held

Grant(c, s) ==
    /\ c \in waiting
    /\ \A d \in Clients : held[d] # s
    /\ waiting' = waiting \ {c}
    /\ held' = [held EXCEPT ![c] = s]

Refuse(c) ==
    /\ c \in waiting
    /\ \A s \in Slots : \E d \in Clients : held[d] = s
    /\ waiting' = waiting \ {c}
    /\ UNCHANGED held

Release(c) ==
    /\ held[c] # NoOne
    /\ held' = [held EXCEPT ![c] = NoOne]
    /\ UNCHANGED waiting

Next ==
    \E c \in Clients :
        Request(c) \/ Refuse(c) \/ Release(c) \/ \E s \in Slots : Grant(c, s)

Spec == Init /\ [][Next]_<<waiting, held>>
=============================================================================
