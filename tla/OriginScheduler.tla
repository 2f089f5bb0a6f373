---------------------------- MODULE OriginScheduler ----------------------------
(***************************************************************************)
(* The gate of one origin in packages/bench/src/subjects/                  *)
(* originScheduler.ts, which the HTTP lane, the browser lane and the       *)
(* sitemap source of a process share, and the fetches that pass it         *)
(* (resilientHttp.ts, browserLocal.ts): a fetch waits for one of a few     *)
(* permits, in the order of arrival; under it, it paces every request it   *)
(* makes; and a Retry-After holds back permits and requests alike.         *)
(*                                                                         *)
(* The class runs on one event loop, so each of its methods is one step,   *)
(* the pump it ends with included.  The fields hold what is left of their  *)
(* times, never below 0, and Tick takes one unit off each: the wall clock  *)
(* and the monotonic clock are taken to run alike.                         *)
(***************************************************************************)
EXTENDS Integers, Sequences, FiniteSets

CONSTANTS
  Fetches,             \* the fetches of the process
  PerHostConcurrency,  \* NetworkPolicy.perHostConcurrency
  PerHostMinDelay,     \* NetworkPolicy.perHostMinDelayMs
  TimerLimit,          \* the longest delay of setTimeout, 2^31 - 1 ms
  RetryAfters,         \* the waits the origin may ask for; 0 is a past date
  NoTimer              \* no timer is set

ASSUME SchedulerAssumption ==
  /\ IsFiniteSet(Fetches)
  /\ PerHostConcurrency \in Nat \ {0}
  /\ PerHostMinDelay \in Nat
  /\ TimerLimit \in Nat \ {0}
  /\ RetryAfters \subseteq Nat
  /\ NoTimer \notin Nat

VARIABLES
  origin,  \* the OriginState
  fetch    \* where each fetch is: [pc, permit, sleep]

vars == << origin, fetch >>

-----------------------------------------------------------------------------

Longer(a, b) == IF a >= b THEN a ELSE b
Shorter(a, b) == IF a <= b THEN a ELSE b

\* An operator can lower the ceiling, and nobody raise it beyond four.
Limit == Shorter(4, PerHostConcurrency)

OriginState ==
  [active     : Nat,             \* permits out
   startGap   : Nat,             \* left of the delay since lastStartedAt
   requestGap : Nat,             \* left of the delay since lastRequestAtMono
   cooldown   : Nat,             \* left of cooldownUntil
   waiters    : Seq(Fetches),
   timer      : Nat \cup {NoTimer}]

FetchState ==
  [pc     : {"idle", "waiting", "ready", "sleeping", "requesting"},
   permit : BOOLEAN,
   sleep  : Nat]

AtRest == [pc |-> "idle", permit |-> FALSE, sleep |-> 0]

Init ==
  /\ origin = [active |-> 0, startGap |-> 0, requestGap |-> 0, cooldown |-> 0,
               waiters |-> << >>, timer |-> NoTimer]
  /\ fetch = [f \in Fetches |-> AtRest]

-----------------------------------------------------------------------------
(* pump: the first waiters get the permits there are, one for each         *)
(* PerHostMinDelay; when only time holds back the next, a timer is set.    *)

StartWait(o) == Longer(o.cooldown, o.startGap)

\* A longer delay than setTimeout takes fires after one millisecond.
TimerOf(wait) == IF wait > TimerLimit THEN 1 ELSE wait

Grants(o) ==
  IF o.active >= Limit \/ StartWait(o) > 0 THEN 0
  ELSE Shorter(IF PerHostMinDelay = 0 THEN Limit - o.active ELSE 1, Len(o.waiters))

Granted(o) == {o.waiters[i] : i \in 1 .. Grants(o)}

\* Mutant: the timer is set when a waiter is held back by the cooldown alone.
CooldownTimer(o) ==
  IF o.waiters = << >> \/ o.active >= Limit \/ o.cooldown = 0 THEN NoTimer
  ELSE TimerOf(o.cooldown)

NextTimer(o) ==
  IF o.waiters = << >> \/ o.active >= Limit THEN NoTimer ELSE TimerOf(StartWait(o))

Pumped(o) ==
  LET n     == Grants(o)
      after == [o EXCEPT !.active = @ + n,
                         !.waiters = SubSeq(@, n + 1, Len(@)),
                         !.startGap = IF n > 0 THEN PerHostMinDelay ELSE @]
  IN  [after EXCEPT !.timer = NextTimer(after)]

Admit(fetches, admitted) ==
  [f \in Fetches |-> IF f \in admitted THEN [AtRest EXCEPT !.pc = "ready", !.permit = TRUE]
                     ELSE fetches[f]]

\* The origin becomes o, and pump runs.
Pump(o, fetches) ==
  /\ origin' = Pumped(o)
  /\ fetch' = Admit(fetches, Granted(o))

-----------------------------------------------------------------------------
(* The steps of a fetch.                                                   *)

\* Mutant: the newcomer goes to the front of the queue.
AcquireInFront(f) ==
  /\ fetch[f] = AtRest
  /\ Pump([origin EXCEPT !.waiters = << f >> \o @], [fetch EXCEPT ![f].pc = "waiting"])

Acquire(f) ==
  /\ fetch[f] = AtRest
  /\ Pump([origin EXCEPT !.waiters = Append(@, f)], [fetch EXCEPT ![f].pc = "waiting"])

\* A fetch whose permit is another origin's is redirected to this one.
Redirected(f) ==
  /\ fetch[f] = AtRest
  /\ fetch' = [fetch EXCEPT ![f].pc = "ready"]
  /\ UNCHANGED origin

RequestWait == Longer(origin.requestGap, origin.cooldown)

\* beforeRequest: at its start, and again whenever its sleep is over.
AtGate(f) ==
  \/ fetch[f].pc = "ready"
  \/ fetch[f].pc = "sleeping" /\ fetch[f].sleep = 0

\* Mutant: a fetch that has slept goes on.
RequestOnceSlept(f) ==
  /\ AtGate(f)
  /\ fetch[f].pc = "sleeping" \/ RequestWait = 0
  /\ origin' = [origin EXCEPT !.requestGap = PerHostMinDelay]
  /\ fetch' = [fetch EXCEPT ![f].pc = "requesting"]

Request(f) ==
  /\ AtGate(f)
  /\ RequestWait = 0
  /\ origin' = [origin EXCEPT !.requestGap = PerHostMinDelay]
  /\ fetch' = [fetch EXCEPT ![f].pc = "requesting"]

Sleep(f) ==
  /\ AtGate(f)
  /\ RequestWait > 0
  /\ fetch' = [fetch EXCEPT ![f].pc = "sleeping", ![f].sleep = RequestWait]
  /\ UNCHANGED origin

\* cooldown(origin, retryAt): an answer asked for a wait.
Cooled(wait) == [origin EXCEPT !.cooldown = Longer(@, wait)]

\* An answer, with a Retry-After or none; the fetch may ask again, for a retry
\* or a redirect.
Answer(f) ==
  /\ fetch[f].pc = "requesting"
  /\ fetch' = [fetch EXCEPT ![f].pc = "ready"]
  /\ UNCHANGED origin

AnswerRetryAfter(f, wait) ==
  /\ fetch[f].pc = "requesting"
  /\ Pump(Cooled(wait), [fetch EXCEPT ![f].pc = "ready"])

\* release, which counts once: the fetch is over.
Release(f) ==
  Pump([origin EXCEPT !.active = @ - 1], [fetch EXCEPT ![f] = AtRest])

\* Mutant: a permit is given back that the fetch does not hold.
FinishUnheld(f) ==
  /\ fetch[f].pc \in {"ready", "sleeping", "requesting"}
  /\ Release(f)

\* A fetch ends, or is aborted, past its wait for a permit.
Finish(f) ==
  /\ fetch[f].pc \in {"ready", "sleeping", "requesting"}
  /\ IF fetch[f].permit
     THEN Release(f)
     ELSE fetch' = [fetch EXCEPT ![f] = AtRest] /\ UNCHANGED origin

Spliced(s, i) == SubSeq(s, 1, i - 1) \o SubSeq(s, i + 1, Len(s))

\* Mutant: giving up a place in the queue frees a permit.
LeaveReleasing(f) ==
  /\ fetch[f].pc = "waiting"
  /\ \E i \in DOMAIN origin.waiters :
       /\ origin.waiters[i] = f
       /\ Pump([origin EXCEPT !.waiters = Spliced(@, i), !.active = Longer(@ - 1, 0)],
               [fetch EXCEPT ![f] = AtRest])

\* Aborted while it waits: its place in the queue is given up.
Leave(f) ==
  /\ fetch[f].pc = "waiting"
  /\ \E i \in DOMAIN origin.waiters :
       /\ origin.waiters[i] = f
       /\ Pump([origin EXCEPT !.waiters = Spliced(@, i)], [fetch EXCEPT ![f] = AtRest])

TimerFires ==
  /\ origin.timer = 0
  /\ Pump(origin, fetch)

Less(t) == IF t = NoTimer \/ t = 0 THEN t ELSE t - 1

Tick ==
  /\ origin' = [origin EXCEPT !.startGap = Less(@), !.requestGap = Less(@),
                              !.cooldown = Less(@), !.timer = Less(@)]
  /\ fetch' = [f \in Fetches |-> [fetch[f] EXCEPT !.sleep = Less(@)]]
  /\ origin' # origin \/ fetch' # fetch

-----------------------------------------------------------------------------

Next ==
  \/ \E f \in Fetches :
       \/ Acquire(f) \/ Redirected(f) \/ Request(f) \/ Sleep(f)
       \/ Answer(f) \/ \E wait \in RetryAfters : AnswerRetryAfter(f, wait)
       \/ Finish(f) \/ Leave(f)
  \/ TimerFires
  \/ Tick

Spec == Init /\ [][Next]_vars

\* Every fetch has a deadline or a timeout and releases its permit when it
\* is over; a timer that is due fires, and time passes.
FairSpec ==
  /\ Spec
  /\ \A f \in Fetches : WF_vars(Finish(f))
  /\ WF_vars(TimerFires)
  /\ WF_vars(Tick)

-----------------------------------------------------------------------------
(* Properties.                                                             *)

Holders == {f \in Fetches : fetch[f].permit}

TypeOK ==
  /\ origin \in OriginState
  /\ fetch \in [Fetches -> FetchState]

\* The permits out are the holders', never more than the ceiling, and the
\* queue is of the fetches that wait, each once: no abort, release or answer
\* leaks a permit, gives one twice or leaves a dead waiter in front.
PermitsAreCounted ==
  /\ origin.active = Cardinality(Holders)
  /\ origin.active <= Limit
  /\ \A f \in Holders : fetch[f].pc \in {"ready", "sleeping", "requesting"}
  /\ \A f \in Fetches :
       fetch[f].pc = "waiting" <=> \E i \in DOMAIN origin.waiters : origin.waiters[i] = f
  /\ \A i, j \in DOMAIN origin.waiters : origin.waiters[i] = origin.waiters[j] => i = j

\* Whoever waits is woken: every permit is out, so that a release pumps, or
\* the timer is set, and not for later than the origin is free.
NobodyIsStranded ==
  origin.waiters # << >> =>
    \/ origin.active = Limit
    \/ origin.timer # NoTimer /\ origin.timer <= Longer(1, StartWait(origin))

\* docs/batch-scrape.md: the minimum delay lies between starts, and queued
\* requests are held during a Retry-After, however many fetches wake at once;
\* a Retry-After is never cut short, also not by a shorter one.
StartsAreSpaced ==
  [][/\ \A f \in Fetches :
          /\ fetch'[f].permit /\ ~fetch[f].permit =>
               /\ StartWait(origin) = 0
               /\ \A g \in Fetches :
                    g # f /\ fetch'[g].permit /\ ~fetch[g].permit => PerHostMinDelay = 0
          /\ fetch'[f].pc = "requesting" /\ fetch[f].pc # "requesting" => RequestWait = 0
     /\ origin'.cooldown < origin.cooldown => Tick]_vars

\* docs/batch-scrape.md: queued cancellation and deadlines release their
\* place.  Every fetch that waits gets its permit or leaves, however many come
\* after it, unless the origin asks for waits for ever.
EveryWaiterIsServed ==
  <>[](origin.cooldown = 0) =>
    \A f \in Fetches : fetch[f].pc = "waiting" ~> fetch[f].pc # "waiting"

=============================================================================
