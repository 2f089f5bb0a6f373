---------------------------- MODULE PublicPreview ----------------------------
(***************************************************************************)
(* POST /api/preview of the public preview (server.ts), for several        *)
(* requests on several instances at once. A request is charged to the day's *)
(* counters of its visitor and of the site (quota.ts), one compare-and-swap *)
(* over two Firestore documents; a request for the one origin that is       *)
(* fetched with a browser holds that origin's lease while it captures       *)
(* (amazonGate.ts), a compare-and-swap over a third document.               *)
(*                                                                         *)
(* Time is counted down in ticks. A document's updateTime is not kept: a    *)
(* counter changes with every write, so its count tells two versions apart, *)
(* and `fresh` holds the requests that have read the gate as it is now.     *)
(***************************************************************************)
EXTENDS Integers, FiniteSets

CONSTANTS
    Requests,
    Visitors,
    VisitorOf,       \* visitorKey of each request
    Gated,           \* requests for the origin behind the gate
    Evaluations,     \* the owner's requests, which spend no quota
    VisitorLimit,    \* VISITOR_DAILY_PREVIEWS
    SiteLimit,       \* SITE_DAILY_PREVIEWS
    DeadlineTicks,   \* deadlineMs, at most 60 s
    LeaseTicks,      \* leaseMs, 90 s
    Spacing,         \* spacingMs
    RetryAfters,     \* waits the origin may ask for
    QuotaAttempts,   \* commits consume tries
    None

ASSUME PreviewAssumption ==
    /\ IsFiniteSet(Requests)
    /\ VisitorOf \in [Requests -> Visitors]
    /\ Gated \subseteq Requests /\ Evaluations \subseteq Requests
    /\ {DeadlineTicks, LeaseTicks, Spacing, QuotaAttempts} \subseteq Nat \ {0}
    /\ {VisitorLimit, SiteLimit} \subseteq Nat
    /\ RetryAfters \subseteq Nat \ {0}
    /\ None \notin Requests

\* server.ts caps a deadline at 60 s and the gate's lease is 90 s.
ASSUME LeaseOutlivesDeadline == DeadlineTicks < LeaseTicks

VARIABLES
    gate,    \* the gate's document, its times as time left
    fresh,   \* requests whose read of the gate is still its latest version
    site,    \* count of the day's global document
    used,    \* count of each visitor's document of the day
    req,     \* what each request's handler holds
    quiet    \* ghost: time left of the longest wait written to the gate

vars == << gate, fresh, site, used, req, quiet >>

Stages == {"idle", "check", "acquire", "claim", "consume", "charging", "capture",
           "settle", "releasing", "done"}

\* charge is a ghost: whether the counters were raised for the request, and
\* whether it was told so. captured is another: its capture was started.
NoRequest == [at |-> "idle", left |-> 0, pend |-> 0, lease |-> 0,
              all |-> None, own |-> None, tries |-> 0, retry |-> 0, note |-> "none",
              charge |-> "none", captured |-> FALSE]

Request ==
    [at : Stages, left : 0..DeadlineTicks, pend : 0..Spacing,
     lease : 0..LeaseTicks, all : Nat \cup {None}, own : Nat \cup {None},
     tries : 0..QuotaAttempts, retry : Nat,
     note : {"none", "reading", "writing", "settled"},
     charge : {"none", "paid", "lost"}, captured : BOOLEAN]

TypeOK ==
    /\ gate \in [owner : Requests \cup {None}, lease : 0..LeaseTicks, cool : Nat]
    /\ gate.owner = None => gate.lease = 0
    /\ fresh \subseteq Requests
    /\ site \in Nat /\ used \in [Visitors -> Nat] /\ quiet \in Nat
    /\ req \in [Requests -> Request]

\* What a handler still holds at its stage: nothing when it is over, no
\* deadline once it only releases.
Kept(h) ==
    CASE h.at = "done" ->
           [NoRequest EXCEPT !.at = "done", !.charge = h.charge, !.captured = h.captured]
      [] h.at \in {"settle", "releasing"} ->
           [h EXCEPT !.left = 0, !.tries = 0, !.all = None, !.own = None]
      [] h.at = "capture" -> [h EXCEPT !.tries = 0, !.all = None, !.own = None]
      [] OTHER -> h

Go(r, h) ==
    req' = [req EXCEPT ![r] =
      Kept([h EXCEPT !.captured = @ \/ (h.at = "capture" /\ r \notin Evaluations)])]

Init ==
    /\ gate = [owner |-> None, lease |-> 0, cool |-> 0]
    /\ fresh = {} /\ site = 0 /\ used = [v \in Visitors |-> 0] /\ quiet = 0
    /\ req = [r \in Requests |-> NoRequest]

Longer(a, b) == IF a >= b THEN a ELSE b
Less(n) == IF n > 0 THEN n - 1 ELSE 0

\* The deadline is not past. A client that goes away aborts the request where
\* it next looks at the signal, which is Throw at any stage.
Live(r) == req[r].left > 0

Decision(all, own) ==
    IF all >= SiteLimit THEN "global_limited"
    ELSE IF own >= VisitorLimit THEN "visitor_limited" ELSE "ok"

\* Where a request goes once it may spend: an evaluation spends nothing.
Spend(r) == IF r \in Evaluations THEN "capture" ELSE "consume"
\* The finally block: who holds a permit releases it before the answer.
Finally(r) == IF r \in Gated THEN "settle" ELSE "done"

(* ------------------------------ admission ------------------------------ *)

Arrive(r) ==
    /\ req[r].at = "idle"
    /\ Go(r, [req[r] EXCEPT !.left = DeadlineTicks,
                            !.at = IF r \notin Gated THEN Spend(r)
                                   ELSE IF r \in Evaluations THEN "acquire" ELSE "check"])
    /\ UNCHANGED << gate, fresh, site, used, quiet >>

\* The read-only precheck of an anonymous request for the gated origin.
Check(r) ==
    /\ req[r].at = "check" /\ Live(r)
    /\ Go(r, [req[r] EXCEPT !.at =
         IF Decision(site, used[VisitorOf[r]]) = "ok" THEN "acquire" ELSE "done"])
    /\ UNCHANGED << gate, fresh, site, used, quiet >>

(* ------------------------------- the gate ------------------------------ *)

Occupied == gate.owner # None /\ gate.lease > 0
Ready == ~Occupied /\ gate.cool = 0

\* A gate that stays closed past the deadline is refused; one that is merely
\* taken is polled, which is this request doing nothing.
GateBusy(r) ==
    /\ req[r].at = "acquire" /\ Live(r)
    /\ gate.cool >= req[r].left
    /\ Go(r, [req[r] EXCEPT !.at = "done"])
    /\ UNCHANGED << gate, fresh, site, used, quiet >>

GateRead(r) ==
    /\ req[r].at = "acquire" /\ Live(r)
    /\ Ready
    /\ req' = [req EXCEPT ![r].at = "claim", ![r].lease = LeaseTicks, ![r].pend = Spacing]
    /\ fresh' = fresh \cup {r}
    /\ UNCHANGED << gate, site, used, quiet >>

\* The commit of a new gate document; every other reader's version is old now.
Commit(g) == gate' = g /\ fresh' = {}

\* mutant: the claim is written without its precondition
GateClaimBlind(r, told) ==
    /\ req[r].at = "claim"
    /\ told => Live(r)
    /\ Commit([owner |-> r, lease |-> req[r].lease, cool |-> req[r].pend])
    /\ Go(r, [req[r] EXCEPT !.at = IF told THEN Spend(r) ELSE "done",
                            !.lease = 0, !.pend = 0])
    /\ UNCHANGED << site, used, quiet >>
\* The claim is written, and the request is told so or, when its answer is
\* lost, has no permit: nobody will release that lease.
GateClaim(r, told) ==
    /\ req[r].at = "claim" /\ r \in fresh
    /\ told => Live(r)
    /\ Commit([owner |-> r, lease |-> req[r].lease, cool |-> req[r].pend])
    /\ Go(r, [req[r] EXCEPT !.at = IF told THEN Spend(r) ELSE "done",
                            !.lease = 0, !.pend = 0])
    /\ UNCHANGED << site, used, quiet >>

GateConflict(r) ==
    /\ req[r].at = "claim" /\ r \notin fresh /\ Live(r)
    /\ req' = [req EXCEPT ![r].at = "acquire", ![r].lease = 0, ![r].pend = 0]
    /\ UNCHANGED << gate, fresh, site, used, quiet >>

(* ------------------------------ the quota ------------------------------ *)

\* The two counters are read in parallel; with the later one comes the
\* decision, and if it is ok the commit is sent.
ReadCounters(r, all, own) ==
    /\ req[r].at = "consume" /\ Live(r)
    /\ Go(r, [req[r] EXCEPT !.all = all, !.own = own, !.at =
         IF all = None \/ own = None THEN "consume"
         ELSE IF Decision(all, own) = "ok" THEN "charging" ELSE Finally(r)])
    /\ UNCHANGED << gate, fresh, site, used, quiet >>

ReadSite(r) == req[r].all = None /\ ReadCounters(r, site, req[r].own)
ReadVisitor(r) == req[r].own = None /\ ReadCounters(r, req[r].all, used[VisitorOf[r]])

\* mutant: the precondition of the site's document is left out
VisitorUnchanged(r) == req[r].own = used[VisitorOf[r]]
\* Neither document has changed since it was read.
Unchanged(r) == req[r].all = site /\ req[r].own = used[VisitorOf[r]]

Charge(r, told) ==
    /\ req[r].at = "charging" /\ Unchanged(r)
    /\ told => Live(r)
    /\ site' = req[r].all + 1
    /\ used' = [used EXCEPT ![VisitorOf[r]] = req[r].own + 1]
    /\ Go(r, [req[r] EXCEPT !.at = IF told THEN "capture" ELSE Finally(r),
                            !.charge = IF told THEN "paid" ELSE "lost"])
    /\ UNCHANGED << gate, fresh, quiet >>

Contended(r) ==
    /\ req[r].at = "charging" /\ ~Unchanged(r) /\ Live(r)
    /\ Go(r, [req[r] EXCEPT !.at = IF req[r].tries + 1 < QuotaAttempts
                                   THEN "consume" ELSE Finally(r),
                            !.tries = @ + 1, !.all = None, !.own = None])
    /\ UNCHANGED << gate, fresh, site, used, quiet >>

(* ------------------------- failure and giving up ----------------------- *)

\* A request that throws before its capture: a token, a read or a commit that
\* fails (and was not applied), the client gone, or the deadline past.
Throw(r) ==
    /\ req[r].at \in {"check", "acquire", "claim", "consume", "charging"}
    /\ Go(r, [req[r] EXCEPT !.at =
         IF @ \in {"consume", "charging"} THEN Finally(r) ELSE "done"])
    /\ fresh' = fresh \ {r}
    /\ UNCHANGED << gate, site, used, quiet >>
\* mutant: the poll of the gate never looks at the deadline
AbandonButPoll(r) == ~Live(r) /\ req[r].at # "acquire" /\ Throw(r)
Abandon(r) == ~Live(r) /\ Throw(r)

\* The instance is killed: what the request holds is gone, the lease stays.
Crash(r) ==
    /\ req[r].at \notin {"idle", "done"}
    /\ Go(r, [req[r] EXCEPT !.at = "done"])
    /\ fresh' = fresh \ {r}
    /\ UNCHANGED << gate, site, used, quiet >>

(* ----------------------------- the capture ----------------------------- *)

\* onRetryAfter: remembered, and written to the gate while the capture goes on
\* (at most once per capture here).
ObserveRetryAfter(r, wait) ==
    /\ req[r].at = "capture" /\ r \in Gated /\ req[r].note = "none"
    /\ req' = [req EXCEPT ![r].retry = Longer(@, wait), ![r].note = "reading"]
    /\ UNCHANGED << gate, fresh, site, used, quiet >>

\* The capture ends, at its deadline at the latest, and its result may name a
\* Retry-After of its own.
CaptureEnds(r, wait) ==
    /\ req[r].at = "capture" /\ (wait # 0 => r \in Gated)
    /\ Go(r, [req[r] EXCEPT !.at = Finally(r), !.retry = Longer(@, wait)])
    /\ UNCHANGED << gate, fresh, site, used, quiet >>

(* -------------------- writes by the owner of the lease ----------------- *)

\* updateOwned: read the gate, give up unless it is still ours. (Its 8 tries are
\* not counted: a conflict means that another owner has the gate, and the next
\* read ends it.)
NoteRead(r) ==
    /\ req[r].note = "reading"
    /\ req' = [req EXCEPT ![r].note = IF gate.owner = r THEN "writing" ELSE "settled"]
    /\ fresh' = IF gate.owner = r THEN fresh \cup {r} ELSE fresh
    /\ UNCHANGED << gate, site, used, quiet >>

NoteCommit(r) ==
    /\ req[r].note = "writing"
    /\ IF r \in fresh
       THEN /\ Commit([gate EXCEPT !.cool = Longer(@, req[r].retry)])
            /\ quiet' = Longer(quiet, req[r].retry)
            /\ req' = [req EXCEPT ![r].note = "settled"]
       ELSE /\ req' = [req EXCEPT ![r].note = "reading"]
            /\ UNCHANGED << gate, fresh, quiet >>
    /\ UNCHANGED << site, used >>

\* server.ts swallows it: release repeats the wait.
NoteFails(r) ==
    /\ req[r].note \in {"reading", "writing"}
    /\ req' = [req EXCEPT ![r].note = "settled"]
    /\ fresh' = fresh \ {r}
    /\ UNCHANGED << gate, site, used, quiet >>

ReleaseRead(r) ==
    /\ req[r].at = "settle" /\ req[r].note \in {"none", "settled"}
    /\ Go(r, [req[r] EXCEPT !.at = IF gate.owner = r THEN "releasing" ELSE "done",
                            !.pend = Spacing])
    /\ fresh' = IF gate.owner = r THEN fresh \cup {r} ELSE fresh
    /\ UNCHANGED << gate, site, used, quiet >>

\* What a release leaves: the longest of the waits there are.
Wait(r) == Longer(req[r].retry, req[r].pend)
\* mutant: a release gives up the gate and leaves its lease running
ReleaseKeepsLease(r) ==
    /\ req[r].at = "releasing"
    /\ IF r \in fresh
       THEN /\ Commit([gate EXCEPT !.owner = None, !.cool = Longer(@, Wait(r))])
            /\ quiet' = Longer(quiet, Wait(r))
            /\ Go(r, [req[r] EXCEPT !.at = "done"])
       ELSE /\ req' = [req EXCEPT ![r].at = "settle", ![r].pend = 0]
            /\ UNCHANGED << gate, fresh, quiet >>
    /\ UNCHANGED << site, used >>
\* mutant: a release leaves the spacing whatever the gate says
ReleaseSpaced(r) ==
    /\ req[r].at = "releasing"
    /\ IF r \in fresh
       THEN /\ Commit([owner |-> None, lease |-> 0, cool |-> req[r].pend])
            /\ quiet' = Longer(quiet, Wait(r))
            /\ Go(r, [req[r] EXCEPT !.at = "done"])
       ELSE /\ req' = [req EXCEPT ![r].at = "settle", ![r].pend = 0]
            /\ UNCHANGED << gate, fresh, quiet >>
    /\ UNCHANGED << site, used >>
ReleaseCommit(r) ==
    /\ req[r].at = "releasing"
    /\ IF r \in fresh
       THEN /\ Commit([owner |-> None, lease |-> 0, cool |-> Longer(gate.cool, Wait(r))])
            /\ quiet' = Longer(quiet, Wait(r))
            /\ Go(r, [req[r] EXCEPT !.at = "done"])
       ELSE /\ req' = [req EXCEPT ![r].at = "settle", ![r].pend = 0]
            /\ UNCHANGED << gate, fresh, quiet >>
    /\ UNCHANGED << site, used >>

ReleaseFails(r) ==
    /\ req[r].at \in {"settle", "releasing"} /\ req[r].note \in {"none", "settled"}
    /\ Go(r, [req[r] EXCEPT !.at = "done"])
    /\ fresh' = fresh \ {r}
    /\ UNCHANGED << gate, site, used, quiet >>

(* -------------------------------- time --------------------------------- *)

\* A capture is aborted at its deadline (createExecutionScope): time does not
\* pass over one.
Tick ==
    /\ \A r \in Requests : req[r].at = "capture" => req[r].left > 0
    /\ gate' = [gate EXCEPT !.lease = Less(@), !.cool = Less(@)]
    /\ quiet' = Less(quiet)
    /\ req' = [r \in Requests |->
         [req[r] EXCEPT !.left = Less(@), !.pend = Less(@), !.lease = Less(@), !.retry = Less(@)]]
    /\ UNCHANGED << fresh, site, used >>

(* ------------------------------------------------------------------------ *)

\* What the handler itself does next.
Work(r) ==
    \/ Check(r) \/ GateBusy(r) \/ GateRead(r) \/ GateClaim(r, TRUE) \/ GateConflict(r)
    \/ ReadSite(r) \/ ReadVisitor(r) \/ Charge(r, TRUE) \/ Contended(r)
    \/ Abandon(r)
    \/ \E wait \in {0} \cup RetryAfters : CaptureEnds(r, wait)
    \/ NoteRead(r) \/ NoteCommit(r) \/ ReleaseRead(r) \/ ReleaseCommit(r)

\* What happens to it.
Trouble(r) ==
    \/ Throw(r) \/ GateClaim(r, FALSE) \/ Charge(r, FALSE) \/ NoteFails(r) \/ ReleaseFails(r)
    \/ Crash(r)

Next ==
    \/ \E r \in Requests :
         Arrive(r) \/ Work(r) \/ Trouble(r) \/ \E wait \in RetryAfters : ObserveRetryAfter(r, wait)
    \/ Tick

Spec == Init /\ [][Next]_vars
FairSpec == Spec /\ WF_vars(Tick) /\ \A r \in Requests : WF_vars(Work(r))

------------------------------------------------------------------------------
\* Every anonymous capture was paid for, once, and a visitor pays for nothing
\* else but a commit whose answer was lost: neither a busy gate nor a retry
\* under contention spends an attempt, and no two instances take the same last
\* slot (server.ts: "so a busy gate does not spend an attempt and concurrent
\* limits hold").
Charged == {r \in Requests : req[r].charge # "none"}
EveryCaptureIsPaid ==
    /\ site = Cardinality(Charged) /\ site <= SiteLimit
    /\ \A v \in Visitors :
         /\ used[v] = Cardinality({r \in Charged : VisitorOf[r] = v})
         /\ used[v] <= VisitorLimit
    /\ \A r \in Requests \ Evaluations : req[r].captured <=> req[r].charge = "paid"

\* The gated origin never serves two captures at once, whatever becomes of the
\* leases' owners (amazonGate.ts: one durable gate across the instances).
OneCaptureAtTheOrigin ==
    \A r, q \in Gated : req[r].at = "capture" /\ req[q].at = "capture" => r = q

\* No capture of the gated origin starts inside a Retry-After or the spacing
\* that any owner has written, though later owners write the document too
\* (amazonGate.ts release: "retain spacing and the longest cooldown").
CooldownOutlivesTheLease ==
    [][\A r \in Gated : req[r].at # "capture" /\ req'[r].at = "capture"
         => quiet = 0]_vars

\* Whoever asks is answered, or its instance has died: nobody polls a gate or
\* retries a counter past the deadline, and no release waits for ever.
\* (One formula for all of them: a request is made once.)
Waiting == {r \in Requests : req[r].at \notin {"idle", "done"}}
EveryRequestEnds == (Waiting # {}) ~> (Waiting = {})
==============================================================================
