--------------------------- MODULE MessageDelivery ---------------------------
(***************************************************************************)
(* What a NUClearNetwork promises about the messages an application sends, *)
(* without packets, acknowledgements or loss: a message is handed at most  *)
(* once to each node it is addressed to, and a reliable one is written off *)
(* as delivered to a node only after it has been handed to that node.      *)
(***************************************************************************)
EXTENDS Naturals

CONSTANTS Node, Message, Reliable, Target, Everyone

VARIABLES
    submitted,      \* the messages send() has been called with
    handed,         \* per node and message: how often packet_callback was given it
    confirmed       \* per message: the nodes the sender takes to have it

vars == <<submitted, handed, confirmed>>

Init ==
    /\ submitted = {}
    /\ handed = [n \in Node |-> [m \in Message |-> 0]]
    /\ confirmed = [m \in Message |-> {}]

Submit(m) ==
    /\ m \notin submitted
    /\ submitted' = submitted \cup {m}
    /\ UNCHANGED <<handed, confirmed>>

Hand(n, m) ==
    /\ m \in submitted
    /\ Target[m] \in {n, Everyone}
    /\ handed[n][m] = 0
    /\ handed' = [handed EXCEPT ![n][m] = 1]
    /\ UNCHANGED <<submitted, confirmed>>

Confirm(n, m) ==
    /\ Reliable[m]
    /\ handed[n][m] = 1
    /\ n \notin confirmed[m]
    /\ confirmed' = [confirmed EXCEPT ![m] = @ \cup {n}]
    /\ UNCHANGED <<submitted, handed>>

Next == \E m \in Message : Submit(m) \/ \E n \in Node : Hand(n, m) \/ Confirm(n, m)

Spec == Init /\ [][Next]_vars
=============================================================================
