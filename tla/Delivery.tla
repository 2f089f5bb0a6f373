------------------------------ MODULE Delivery ------------------------------
(***************************************************************************)
(* The durable webhook deliveries of packages/runtime: the rows and the    *)
(* transactions of deliveryStore.ts, and the workers of deliveryWorker.ts  *)
(* that lease a row, POST it and complete it.                              *)
(*                                                                         *)
(* One action is one IMMEDIATE sqlite transaction, or one step of a worker *)
(* or of a receiver between two of them.  A delivery is keyed by the       *)
(* UNIQUE(destination_id, event_id) pair of its row.                       *)
(*                                                                         *)
(* Time is kept as what is left of it: the columns next_attempt_at,        *)
(* lease_until and not_before hold "column - now", never below 0, and Tick *)
(* takes one unit off each.  The code compares these columns with now and  *)
(* with each other only, so nothing else of the clock is needed; what is   *)
(* lost is the ORDER BY next_attempt_at of rows that are already due, and  *)
(* Claim takes any of them.                                                *)
(***************************************************************************)
EXTENDS Integers, Sequences, FiniteSets

CONSTANTS
    Destinations,   \* delivery_destinations rows of one monitor
    Events,         \* monitor_events rows, each with its outbox row
    Workers,        \* DeliveryWorker instances, in any number of processes
    Origins,        \* receiver origins
    OriginOf,       \* the origin of a destination's URL
    MaxAttempts,    \* delivery_destinations.max_attempts
    LeaseTicks,     \* DeliveryWorkerOptions.leaseMs
    Backoff,        \* Backoff[n]: the wait after the n-th attempt
    RetryAfters,    \* the waits a receiver may ask for; 0 is none, or a past date
    MaxReplays      \* bound: operator replays of one delivery

ASSUME BudgetAssumption == MaxAttempts \in 1..100 /\ MaxReplays \in Nat
ASSUME TimingAssumption ==
    /\ LeaseTicks \in Nat \ {0}
    /\ Backoff \in [1..(MaxAttempts + MaxReplays) -> Nat]
    /\ RetryAfters \subseteq Nat
ASSUME OriginAssumption == OriginOf \in [Destinations -> Origins]

VARIABLES
    destinations,   \* the registered destinations
    enabled,        \* delivery_destinations.enabled
    outbox,         \* monitor_outbox.state of an event, "none" before it exists
    row,            \* webhook_deliveries
    attempts,       \* delivery_attempts: the outcome under each fencing token
    notBefore,      \* delivery_origin_cooldowns, as time left
    claim,          \* what each worker's processOne call holds
    accepted,       \* the tokens under which the receiver took the POST
    replays         \* replays so far, for the bound

vars == <<destinations, enabled, outbox, row, attempts, notBefore, claim, accepted, replays>>

Deliveries == Destinations \X Events
Live == {"pending", "delivering"}
Settled == {"delivered", "dead_letter"}
Idle == [key |-> <<>>]

Later(a, b) == IF a >= b THEN a ELSE b
Less(t) == IF t = 0 THEN 0 ELSE t - 1
Exists(k) == row[k].state # "none"
Origin(k) == OriginOf[k[1]]
NoRow == [state |-> "none", attempt_count |-> 0, max_attempts |-> 0,
          next_attempt |-> 0, lease |-> 0, token |-> 0]

Row == [state : {"none"} \cup Live \cup Settled, attempt_count : Nat,
        max_attempts : Nat, next_attempt : Nat, lease : Nat, token : Nat]
Outcome == {"sending", "lease_expired", "retry", "delivered", "dead_letter"}
Held == [key : Deliveries, token : Nat, attempt_count : Nat, max_attempts : Nat]

TypeOK ==
    /\ destinations \subseteq Destinations
    /\ enabled \in [Destinations -> BOOLEAN]
    /\ outbox \in [Events -> {"none", "pending", "acknowledged"}]
    /\ row \in [Deliveries -> Row]
    /\ attempts \in [Deliveries -> Seq(Outcome)]
    /\ notBefore \in [Origins -> Nat]
    /\ claim \in [Workers -> Held \cup {Idle}]
    /\ accepted \in [Deliveries -> SUBSET Nat]
    /\ replays \in [Deliveries -> Nat]

Init ==
    /\ destinations = {}
    /\ enabled = [s \in Destinations |-> FALSE]
    /\ outbox = [e \in Events |-> "none"]
    /\ row = [k \in Deliveries |-> NoRow]
    /\ attempts = [k \in Deliveries |-> <<>>]
    /\ notBefore = [o \in Origins |-> 0]
    /\ claim = [w \in Workers |-> Idle]
    /\ accepted = [k \in Deliveries |-> {}]
    /\ replays = [k \in Deliveries |-> 0]

-----------------------------------------------------------------------------
(* INSERT OR IGNORE of one delivery per key of K: what is there stays.      *)
Enqueued(K) ==
    [k \in Deliveries |->
        IF k \in K /\ row[k].state = "none"
        THEN [NoRow EXCEPT !.state = "pending", !.max_attempts = MaxAttempts,
                           !.next_attempt = notBefore[Origin(k)]]
        ELSE row[k]]

(* MonitorStore.commit inserts the event and its outbox row and calls       *)
(* enqueueEventDeliveries in the same transaction.                          *)
Publish(e) ==
    /\ outbox[e] = "none"
    /\ outbox' = [outbox EXCEPT ![e] = "pending"]
    /\ row' = Enqueued(destinations \X {e})
    /\ UNCHANGED <<destinations, enabled, attempts, notBefore, claim, accepted, replays>>

(* enqueueHistoricalDeliveries: a delivery of every event there is; an      *)
(* event that gains one is pending again.                                   *)
EnqueueHistorical(s) ==
    LET history == {e \in Events : outbox[e] # "none"} IN
    /\ row' = Enqueued({s} \X history)
    /\ outbox' = [e \in Events |-> IF e \in history THEN "pending" ELSE "none"]

(* MonitorStore.registerDestination: DeliveryStore inserts the destination, *)
(* and the same transaction enqueues the history.                           *)
RegisterDestination(s, on) ==
    /\ s \notin destinations
    /\ destinations' = destinations \cup {s}
    /\ enabled' = [enabled EXCEPT ![s] = on]
    /\ EnqueueHistorical(s)
    /\ UNCHANGED <<attempts, notBefore, claim, accepted, replays>>

SetEnabled(s, on) ==
    /\ s \in destinations
    /\ enabled' = [enabled EXCEPT ![s] = on]
    /\ UNCHANGED <<destinations, outbox, row, attempts, notBefore, claim, accepted, replays>>

-----------------------------------------------------------------------------
(* Mutant: a row whose worker died is not due again.                        *)
DueIfPending(k) == enabled[k[1]] /\ row[k].state = "pending" /\ row[k].next_attempt = 0

Due(k) ==
    /\ enabled[k[1]]
    /\ \/ row[k].state = "pending" /\ row[k].next_attempt = 0
       \/ row[k].state = "delivering" /\ row[k].lease = 0

Claimable == {k \in Deliveries : Due(k) /\ notBefore[Origin(k)] = 0}
Exhausted == {k \in Claimable : row[k].attempt_count >= row[k].max_attempts}

(* Mutant: the attempt of the lost lease stays open.                        *)
ExpiredLeftOpen(k) == attempts[k]

(* The open attempt of a row whose lease ran out is closed before the row   *)
(* is claimed again or given up.                                            *)
Expired(k) ==
    IF row[k].state = "delivering" /\ attempts[k][row[k].token] = "sending"
    THEN [attempts[k] EXCEPT ![row[k].token] = "lease_expired"]
    ELSE attempts[k]

GivenUp(k) == [row[k] EXCEPT !.state = "dead_letter", !.lease = 0]

Leased(k) ==
    [row[k] EXCEPT !.state = "delivering", !.attempt_count = @ + 1,
                   !.token = @ + 1, !.lease = LeaseTicks]

(* DeliveryStore.claim walks the due rows: it gives up the exhausted ones   *)
(* it meets and returns the first other one, which the worker now holds     *)
(* as the row stood then.                                                   *)
ClaimOne(w, k, dead) ==
    /\ row' = [j \in Deliveries |-> IF j = k THEN Leased(j)
                                    ELSE IF j \in dead THEN GivenUp(j) ELSE row[j]]
    /\ attempts' = [j \in Deliveries |-> IF j = k THEN Append(Expired(j), "sending")
                                         ELSE IF j \in dead THEN Expired(j)
                                         ELSE attempts[j]]
    /\ claim' = [claim EXCEPT ![w] =
                    [key |-> k, token |-> row[k].token + 1,
                     attempt_count |-> row[k].attempt_count + 1,
                     max_attempts |-> row[k].max_attempts]]

(* No row is left to return: every exhausted one was given up on the way.   *)
ClaimNone(w) ==
    /\ Claimable = Exhausted
    /\ Exhausted # {}
    /\ row' = [j \in Deliveries |-> IF j \in Exhausted THEN GivenUp(j) ELSE row[j]]
    /\ attempts' = [j \in Deliveries |-> IF j \in Exhausted THEN Expired(j) ELSE attempts[j]]
    /\ UNCHANGED claim

Claim(w) ==
    /\ claim[w] = Idle
    /\ \/ \E k \in Claimable \ Exhausted, dead \in SUBSET Exhausted : ClaimOne(w, k, dead)
       \/ ClaimNone(w)
    /\ UNCHANGED <<destinations, enabled, outbox, notBefore, accepted, replays>>

-----------------------------------------------------------------------------
(* The receiver takes the POST a worker has under way.  Nothing tells the   *)
(* worker so before its answer.                                             *)
Receive(w) ==
    /\ claim[w] # Idle
    /\ claim[w].token \notin accepted[claim[w].key]
    /\ accepted' = [accepted EXCEPT ![claim[w].key] = @ \cup {claim[w].token}]
    /\ UNCHANGED <<destinations, enabled, outbox, row, attempts, notBefore, claim, replays>>

(* What processOne makes of the call: a 2xx; a 408, 425, 429 or 5xx; any    *)
(* other status; a network error, a timeout or a shutdown of the worker,    *)
(* whether the receiver took the POST or not; an egress denial or a missing *)
(* secret, before anything was sent.                                        *)
Possible(c, answer) ==
    CASE answer = "ok" -> c.token \in accepted[c.key]
      [] answer = "failed" -> TRUE
      [] OTHER -> c.token \notin accepted[c.key]

Verdict(c, answer) ==
    CASE answer = "ok" -> "delivered"
      [] answer \in {"refused", "denied"} -> "dead_letter"
      [] OTHER -> IF c.attempt_count >= c.max_attempts THEN "dead_letter" ELSE "pending"

(* Mutant: no fencing token in the WHERE clause.                            *)
OwnsUnfenced(c) == row[c.key].state = "delivering" /\ row[c.key].lease > 0

(* WHERE id=? AND state='delivering' AND fencing_token=? AND lease_until>?  *)
Owns(c) ==
    /\ row[c.key].state = "delivering"
    /\ row[c.key].token = c.token
    /\ row[c.key].lease > 0

(* The completed row, and the Retry-After's effect on the other pending     *)
(* rows of that origin.                                                     *)
Completed(c, verdict, wait) ==
    [k \in Deliveries |->
        IF k = c.key
        THEN [row[k] EXCEPT !.state = verdict, !.lease = 0,
                            !.next_attempt = Later(Backoff[c.attempt_count], wait)]
        ELSE IF row[k].state = "pending" /\ Origin(k) = Origin(c.key)
        THEN [row[k] EXCEPT !.next_attempt = Later(@, wait)]
        ELSE row[k]]

(* Mutants: the later Retry-After replaces the longer one; one delivery of  *)
(* the fan-out acknowledges the event.                                      *)
CooledAnew(c, wait) ==
    [notBefore EXCEPT ![Origin(c.key)] = IF wait > 0 THEN wait ELSE @]
AcknowledgedByOne(c, verdict) ==
    IF verdict = "delivered" THEN [outbox EXCEPT ![c.key[2]] = "acknowledged"] ELSE outbox

(* ON CONFLICT(origin) DO UPDATE SET not_before=MAX(not_before, ...)        *)
Cooled(c, wait) == [notBefore EXCEPT ![Origin(c.key)] = Later(@, wait)]

(* On a delivered row the event's outbox is acknowledged when no delivery   *)
(* of the event is left.                                                    *)
Acknowledged(c, verdict) ==
    LET others == {k \in Deliveries : k[2] = c.key[2] /\ k # c.key /\ Exists(k)} IN
    IF verdict = "delivered" /\ \A k \in others : row[k].state = "delivered"
    THEN [outbox EXCEPT ![c.key[2]] = "acknowledged"]
    ELSE outbox

(* Mutant: the attempt takes the state of its row.                          *)
EvidenceOfRow(verdict) == verdict

(* The outcome kept of an attempt: that of a row to be tried again is       *)
(* "retry".                                                                 *)
Evidence(verdict) == IF verdict = "pending" THEN "retry" ELSE verdict

(* DeliveryStore.complete, a no-op for a worker that no longer owns the row *)
Complete(c, answer, wait) ==
    LET verdict == Verdict(c, answer) IN
    IF Owns(c)
    THEN /\ row' = Completed(c, verdict, wait)
         /\ notBefore' = Cooled(c, wait)
         /\ attempts' = [attempts EXCEPT ![c.key][c.token] = Evidence(verdict)]
         /\ outbox' = Acknowledged(c, verdict)
    ELSE UNCHANGED <<row, notBefore, attempts, outbox>>

Finish(w, answer, wait) ==
    /\ claim[w] # Idle
    /\ Possible(claim[w], answer)
    /\ answer \in {"failed", "denied"} => wait = 0
    /\ Complete(claim[w], answer, wait)
    /\ claim' = [claim EXCEPT ![w] = Idle]
    /\ UNCHANGED <<destinations, enabled, accepted, replays>>

(* The worker's process dies, or is killed, with the row leased.            *)
Crash(w) ==
    /\ claim[w] # Idle
    /\ claim' = [claim EXCEPT ![w] = Idle]
    /\ UNCHANGED <<destinations, enabled, outbox, row, attempts, notBefore, accepted, replays>>

-----------------------------------------------------------------------------
(* DeliveryStore.replayDeadLetter: one fresh attempt, not before the        *)
(* origin's cooldown.                                                       *)
ReplayDeadLetter(k) ==
    /\ row[k].state = "dead_letter"
    /\ replays[k] < MaxReplays
    /\ row' = [row EXCEPT ![k].state = "pending", ![k].lease = 0,
                          ![k].next_attempt = Later(@, notBefore[Origin(k)]),
                          ![k].max_attempts = row[k].attempt_count + 1]
    /\ replays' = [replays EXCEPT ![k] = @ + 1]
    /\ UNCHANGED <<destinations, enabled, outbox, attempts, notBefore, claim, accepted>>

Waiting ==
    \/ \E o \in Origins : notBefore[o] > 0
    \/ \E k \in Deliveries : row[k].lease > 0 \/ row[k].next_attempt > 0

Tick ==
    /\ Waiting
    /\ row' = [k \in Deliveries |-> [row[k] EXCEPT !.lease = Less(@), !.next_attempt = Less(@)]]
    /\ notBefore' = [o \in Origins |-> Less(notBefore[o])]
    /\ UNCHANGED <<destinations, enabled, outbox, attempts, claim, accepted, replays>>

Answers == {"ok", "again", "refused", "failed", "denied"}

FinishAny(w) == \E answer \in Answers, wait \in RetryAfters : Finish(w, answer, wait)

Next ==
    \/ \E e \in Events : Publish(e)
    \/ \E s \in Destinations, on \in BOOLEAN : RegisterDestination(s, on) \/ SetEnabled(s, on)
    \/ \E w \in Workers : Claim(w) \/ Receive(w) \/ FinishAny(w) \/ Crash(w)
    \/ \E k \in Deliveries : ReplayDeadLetter(k)
    \/ Tick

Spec == Init /\ [][Next]_vars

(* run() polls for as long as the worker lives and the request timer ends   *)
(* every call it makes, so a worker that can claim does and one that holds  *)
(* a row finishes; the clock runs.  Nobody is obliged to enable, replay or  *)
(* crash anything, and a receiver is never obliged to accept.               *)
Fairness ==
    /\ \A w \in Workers : WF_vars(Claim(w)) /\ WF_vars(FinishAny(w))
    /\ WF_vars(Tick)

FairSpec == Spec /\ Fairness
-----------------------------------------------------------------------------
(* PROPERTIES                                                               *)

(* The evidence is one attempt per token, and the open one is the lease:    *)
(* an attempt is still "sending" exactly when its row is being delivered    *)
(* under its token.  A crashed worker, a late answer, an exhausted budget   *)
(* and a replay all have to keep the two tables in step.                    *)
LeaseIsTheOpenAttempt ==
    \A k \in Deliveries :
        /\ Len(attempts[k]) = row[k].token
        /\ \A t \in 1..Len(attempts[k]) :
              attempts[k][t] = "sending" <=> row[k].state = "delivering" /\ t = row[k].token

(* No delivery is sent more often than its budget, and a row that waits to  *)
(* be sent has some of its budget left: the budget a worker judged its      *)
(* answer by is the row's, however late the answer came.                    *)
WithinBudget ==
    \A k \in Deliveries :
        /\ row[k].attempt_count <= row[k].max_attempts
        /\ row[k].state = "pending" => row[k].attempt_count < row[k].max_attempts

(* A delivered row was taken by its receiver, in the very attempt that      *)
(* ended it; never a row another worker's answer was booked on.             *)
DeliveredWasAccepted ==
    \A k \in Deliveries :
        row[k].state = "delivered" =>
            /\ row[k].token \in accepted[k]
            /\ attempts[k][row[k].token] = "delivered"

(* docs/roadmap/gate-2-4-acceptance.md: every destination gets every event  *)
(* of its monitor, the ones before its registration included; the outbox is *)
(* acknowledged once all of them are delivered, and only then, so a         *)
(* destination that is registered later reopens it.                         *)
OutboxFollowsFanout ==
    /\ \A k \in Deliveries : Exists(k) <=> k[1] \in destinations /\ outbox[k[2]] # "none"
    /\ \A e \in Events :
          LET fanout == {k \in Deliveries : k[2] = e /\ Exists(k)} IN
          outbox[e] = "acknowledged" <=>
              fanout # {} /\ \A k \in fanout : row[k].state = "delivered"

(* A Retry-After holds for its whole origin: no delivery to it starts       *)
(* before it is over, whichever event, destination or worker heard it, and  *)
(* nothing but the passing of time shortens it.                             *)
RetryAfterHonoured ==
    [][/\ \A k \in Deliveries :
             row'[k].token # row[k].token => notBefore[Origin(k)] = 0
       /\ \A o \in Origins :
             notBefore'[o] < notBefore[o] => Tick]_vars

PromisedState(k) ==
    CASE row[k].state = "none" -> "none"
      [] row[k].state \in Live -> "open"
      [] row[k].state = "delivered" -> "delivered"
      [] row[k].state = "dead_letter" -> "dead"

Promise == INSTANCE DeliveryPromise WITH
    state <- [k \in Deliveries |-> PromisedState(k)],
    heard <- {k \in Deliveries : accepted[k] # {}},
    acked <- {e \in Events : outbox[e] = "acknowledged"}

(* The leases, tokens and retries above implement at-least-once delivery as *)
(* DeliveryPromise states it.                                               *)
KeepsPromise == Promise!Spec

(* No delivery of an enabled destination is left behind: whatever workers   *)
(* crash and however the receiver answers, it ends delivered or dead.       *)
EveryDeliverySettles ==
    \A k \in Deliveries :
        row[k].state \in Live ~> (row[k].state \in Settled \/ ~enabled[k[1]])
=============================================================================
