--------------------------- MODULE DeliveryPromise ---------------------------
(***************************************************************************)
(* What the webhook deliveries promise a receiver and an operator, with no *)
(* lease, token, attempt, clock or worker: a delivery of an event to a     *)
(* destination is open until the receiver took it or the service gave it   *)
(* up; a given-up one may be opened again, a delivered one never; and an   *)
(* event is acknowledged exactly while all its deliveries are delivered.   *)
(* A receiver may hear an open delivery any number of times: at least once.*)
(***************************************************************************)
CONSTANTS Destinations, Events

VARIABLES
    state,   \* of each delivery: none, open, delivered or dead
    heard,   \* the deliveries their receiver has taken at least once
    acked    \* the acknowledged events

vars == <<state, heard, acked>>

Deliveries == Destinations \X Events
Fanout(e) == {k \in Deliveries : k[2] = e /\ state[k] # "none"}

Init ==
    /\ state = [k \in Deliveries |-> "none"]
    /\ heard = {}
    /\ acked = {}

(* Deliveries of new events, or of known ones to a new destination.         *)
Offer(K) ==
    /\ \A k \in K : state[k] = "none"
    /\ state' = [k \in Deliveries |-> IF k \in K THEN "open" ELSE state[k]]
    /\ acked' = {e \in acked : \A k \in K : k[2] # e}
    /\ UNCHANGED heard

Hear(k) ==
    /\ state[k] # "none"
    /\ heard' = heard \cup {k}
    /\ UNCHANGED <<state, acked>>

Deliver(k) ==
    /\ state[k] = "open"
    /\ k \in heard
    /\ state' = [state EXCEPT ![k] = "delivered"]
    /\ acked' = IF \A j \in Fanout(k[2]) \ {k} : state[j] = "delivered"
                THEN acked \cup {k[2]} ELSE acked
    /\ UNCHANGED heard

GiveUp(K) ==
    /\ \A k \in K : state[k] = "open"
    /\ state' = [k \in Deliveries |-> IF k \in K THEN "dead" ELSE state[k]]
    /\ UNCHANGED <<heard, acked>>

Reopen(k) ==
    /\ state[k] = "dead"
    /\ state' = [state EXCEPT ![k] = "open"]
    /\ UNCHANGED <<heard, acked>>

Next ==
    \/ \E K \in SUBSET Deliveries : Offer(K) \/ GiveUp(K)
    \/ \E k \in Deliveries : Hear(k) \/ Deliver(k) \/ Reopen(k)

Spec == Init /\ [][Next]_vars
=============================================================================
