----------------------------- MODULE MCDelivery -----------------------------
(* A small instance of Delivery for TLC.                                    *)
EXTENDS Delivery

CONSTANTS s1, s2, e1, e2, w1, w2, o1

(* min(MaxWait, 2^(n-1)) ticks: retryBaseMs doubled per attempt, capped.    *)
MaxWait == 2
MCBackoff ==
    [n \in 1..(MaxAttempts + MaxReplays) |->
        IF 2 ^ (n - 1) < MaxWait THEN 2 ^ (n - 1) ELSE MaxWait]
MCOriginOf == [s \in Destinations |-> o1]
MCRetryAfters == {0, 1, 2}

(* One destination is followed through its whole budget; a fan-out to both  *)
(* while no delivery has had more than one attempt, and one per replay.     *)
Scope == s2 \in destinations => \A k \in Deliveries : Len(attempts[k]) <= 1 + replays[k]
=============================================================================
