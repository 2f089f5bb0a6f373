------------------------------ MODULE Monitor ------------------------------
(***************************************************************************)
(* One Monitor of packages/runtime: the transactions of monitorStore.ts    *)
(* and the runners of monitorRunner.ts that claim its runs, capture the    *)
(* page and commit what changed.  Any number of processes share the        *)
(* control database, so a runner is a call of runConfiguredMonitor in any  *)
(* of them.  Other Monitors of the same origin are seen only through the   *)
(* origin's cooldown.                                                      *)
(*                                                                         *)
(* One action is one IMMEDIATE sqlite transaction, or one step of a runner *)
(* between two of them.  Every time column holds what is left of it,       *)
(* "column - now", never below 0; monitor.next alone tells a past          *)
(* next_run_at, -1, from one that is now, because the trigger key of a     *)
(* scheduled run is spelled with it.                                       *)
(***************************************************************************)
EXTENDS Integers, Sequences, FiniteSets

CONSTANTS
    Runners,          \* callers of runConfiguredMonitor, one call at a time each
    Pollers,          \* the ones that are monitor loops of a service
    Keys,             \* trigger keys of manual runs
    Fields,           \* what an assessment extracts from a page
    Sources,          \* hashes of raw bodies
    NoHash,           \* in Sources: the hash of a body is not known
    RulesOf,          \* ruleVersion and field rules of each revision
    VersionOf,        \* its ruleVersion alone
    Interval,         \* intervalMs
    LeaseTicks,       \* MonitorStore.leaseMs
    AttemptTicks,     \* MonitorStore.attemptTimeoutMs
    CallerDeadlines,  \* deadlines a caller may ask for; AttemptTicks is none
    RetryAfters,      \* the waits the source may ask for
    StartTimes,       \* createdAt of a new revision, as time left
    MaxRuns,          \* bound: monitor_runs rows
    MaxAttempts,      \* bound: attempts of one run
    MaxEpoch,         \* bound: control_epoch
    MaxRevision       \* bound: revisions

ASSUME MonitorAssumption ==
    /\ {Interval, LeaseTicks, AttemptTicks} \subseteq Nat \ {0}
    /\ {MaxRuns, MaxAttempts, MaxEpoch, MaxRevision} \subseteq Nat \ {0}
    /\ Pollers \subseteq Runners
    /\ CallerDeadlines \subseteq Nat \ {0}
    /\ RetryAfters \subseteq Nat \ {0}
    /\ StartTimes \subseteq Int
    /\ Fields # {} /\ NoHash \in Sources
    /\ {"scheduled", "due"} \cap Keys = {}

VARIABLES
    monitor,     \* the monitors row
    run,         \* monitor_runs
    attempts,    \* monitor_attempts of each run, in the order of their tokens
    snapshots,   \* monitor_snapshots; the last one is the baseline
    events,      \* monitor_events
    cooldown,    \* monitor_origin_cooldowns of the Monitor's origin
    runner       \* what each runConfiguredMonitor call holds

vars == <<monitor, run, attempts, snapshots, events, cooldown, runner>>
durable == <<monitor, run, attempts, snapshots, events, cooldown>>

Lower(a, b) == IF a <= b THEN a ELSE b
Higher(a, b) == IF a >= b THEN a ELSE b

RunIds == 1..MaxRuns
ActiveStates == {"queued", "running", "waiting_retry"}
EndStates == {"completed", "failed", "cancelled", "expired"}
Active == {r \in RunIds : run[r].state \in ActiveStates}
Ended == {r \in RunIds : run[r].state \in EndStates}
Fresh == {r \in RunIds : run[r].state = "none" /\ \A q \in RunIds : q < r => run[q].state # "none"}
Known(k) == {r \in RunIds : run[r].state # "none" /\ run[r].key = k}
baseline == Len(snapshots)

NoRun == [state |-> "none", key |-> "none", revision |-> 0, epoch |-> 0, token |-> 0,
          lease |-> 0, deadline |-> 0, next |-> 0, expected |-> 0]
NoFinding == [valid |-> FALSE, fields |-> "none", source |-> "none", wait |-> 0]
Idle == [phase |-> "idle", key |-> "none", revision |-> 0, run |-> 0, attempt |-> 0, token |-> 0,
         abort |-> "none", found |-> NoFinding]

MonitorRow == [enabled : BOOLEAN, epoch : Nat, revision : Nat, next : Int,
               spent : BOOLEAN, usedNow : BOOLEAN]
RunRow == [state : {"none"} \cup ActiveStates \cup EndStates,
           key : {"none", "scheduled"} \cup Keys, revision : Nat, epoch : Nat, token : Nat,
           lease : Nat, deadline : Nat, next : Nat, expected : Nat]
AttemptRow == [token : Nat,
               state : {"running", "interrupted", "succeeded", "cancelled", "failed"}]
SnapshotRow == [revision : Nat, rules : Nat, fields : Fields, source : Sources,
                run : RunIds, attempt : Nat]
EventRow == [run : RunIds, kind : {"initialized", "changed"}, from : Nat, to : Nat]
Finding == [valid : BOOLEAN, fields : Fields, source : Sources, wait : Nat]
RunnerState == [phase : {"idle", "ready", "capturing", "recorded"},
                key : {"none", "due"} \cup Keys, revision : Nat,
                run : {0} \cup RunIds, attempt : Nat, token : Nat,
                abort : {"none", "cancelled", "shutdown"}, found : Finding \cup {NoFinding}]

TypeOK ==
    /\ monitor \in MonitorRow
    /\ run \in [RunIds -> RunRow]
    /\ attempts \in [RunIds -> Seq(AttemptRow)]
    /\ snapshots \in Seq(SnapshotRow)
    /\ events \in Seq(EventRow)
    /\ cooldown \in Nat
    /\ runner \in [Runners -> RunnerState]

Init ==
    /\ monitor = [enabled |-> FALSE, epoch |-> 0, revision |-> 0, next |-> 0,
                  spent |-> FALSE, usedNow |-> FALSE]
    /\ run = [r \in RunIds |-> NoRun]
    /\ attempts = [r \in RunIds |-> <<>>]
    /\ snapshots = <<>>
    /\ events = <<>>
    /\ cooldown = 0
    /\ runner = [p \in Runners |-> Idle]

-----------------------------------------------------------------------------
(* A run is created, so its trigger key "scheduled:id:revision:next_run_at" *)
(* is taken, at a time no later than now; monitor.usedNow says that one of  *)
(* these keys names this very instant, monitor.spent that one names the     *)
(* next_run_at the Monitor has.                                             *)
NextAt(m, t) == [m EXCEPT !.next = t, !.spent = t = 0 /\ m.usedNow]

(* createOrGetRevision: the first revision creates the Monitor; a later one *)
(* is refused while a run is active.                                        *)
Configure(on, at) ==
    /\ Active = {}
    /\ monitor.revision < MaxRevision
    /\ monitor.epoch < MaxEpoch
    /\ monitor' = [enabled |-> IF monitor.revision = 0 THEN on ELSE monitor.enabled,
                   epoch |-> monitor.epoch + 1, revision |-> monitor.revision + 1,
                   next |-> at, spent |-> FALSE, usedNow |-> FALSE]
    /\ UNCHANGED <<run, attempts, snapshots, events, cooldown, runner>>

(* What every new run takes from the Monitor.                               *)
NewRun(k) == [NoRun EXCEPT !.key = k, !.revision = monitor.revision,
                           !.epoch = monitor.epoch, !.token = monitor.epoch,
                           !.expected = baseline]

(* enqueueRun: a known key, or an active run, is returned as it is.         *)
EnqueueRun(k) ==
    /\ monitor.enabled
    /\ Known(k) = {}
    /\ Active = {}
    /\ \E r \in Fresh : run' = [run EXCEPT ![r] = [NewRun(k) EXCEPT !.state = "queued"]]
    /\ monitor' = IF monitor.next > 0 THEN NextAt(monitor, 0) ELSE monitor
    /\ UNCHANGED <<attempts, snapshots, events, cooldown, runner>>

(* Mutant: the attempt takes the state of its run.                          *)
AttemptEndAsRun(s) == s

(* The states an attempt is left in when its run ends.                      *)
AttemptEnd(s) ==
    CASE s = "completed" -> "succeeded"
      [] s = "cancelled" -> "cancelled"
      [] OTHER -> "failed"

(* The running attempt of r, if it has one, is closed with s.               *)
Closed(r, s) ==
    [attempts EXCEPT ![r] = [i \in DOMAIN attempts[r] |->
        IF attempts[r][i].state = "running" THEN [attempts[r][i] EXCEPT !.state = s]
        ELSE attempts[r][i]]]

(* finishRun.  The columns lease_until, deadline_at and next_attempt_at of  *)
(* an ended run are read by nothing: they are 0 here.                       *)
EndRun(r, s) == [run[r] EXCEPT !.state = s, !.lease = 0, !.deadline = 0, !.next = 0]
FinishRun(r, s) ==
    /\ run' = [run EXCEPT ![r] = EndRun(r, s)]
    /\ attempts' = Closed(r, AttemptEnd(s))
    /\ monitor' = NextAt(monitor, Interval)

Cancel(r) ==
    /\ r \in Active
    /\ FinishRun(r, "cancelled")
    /\ UNCHANGED <<snapshots, events, cooldown, runner>>

(* Mutant: a paused Monitor keeps its active run.                           *)
SetEnabledOnly(on) ==
    /\ monitor.revision > 0
    /\ monitor.enabled # on
    /\ monitor.epoch < MaxEpoch
    /\ monitor' = NextAt([monitor EXCEPT !.enabled = on, !.epoch = @ + 1], cooldown)
    /\ UNCHANGED <<run, attempts, snapshots, events, cooldown, runner>>

(* setEnabled: pausing cancels the active run; either way the schedule      *)
(* starts anew, not before the origin's cooldown.                           *)
SetEnabled(on) ==
    /\ monitor.revision > 0
    /\ monitor.enabled # on
    /\ monitor.epoch < MaxEpoch
    /\ run' = [r \in RunIds |-> IF r \in Active /\ ~on THEN EndRun(r, "cancelled") ELSE run[r]]
    /\ attempts' = IF on \/ Active = {} THEN attempts
                   ELSE Closed(CHOOSE r \in Active : TRUE, "cancelled")
    /\ monitor' = NextAt([monitor EXCEPT !.enabled = on, !.epoch = @ + 1], cooldown)
    /\ UNCHANGED <<snapshots, events, cooldown, runner>>

(* noteRetryAfter or deferRun of another Monitor of the origin.             *)
CoolOrigin(wait) ==
    /\ wait > cooldown
    /\ cooldown' = wait
    /\ UNCHANGED <<monitor, run, attempts, snapshots, events, runner>>

-----------------------------------------------------------------------------
(* A monitor loop calls for a Monitor that is due, or whose runner died.    *)
SeenDue ==
    /\ monitor.enabled
    /\ monitor.next <= 0 \/ \E r \in RunIds : run[r].state = "running" /\ run[r].lease = 0

(* runConfiguredMonitor checks that the revision it was called with is the  *)
(* Monitor's, before it claims and in another transaction.  It claims what  *)
(* is due, or the run of its caller's key.                                  *)
Call(p, k) ==
    /\ runner[p] = Idle
    /\ monitor.revision > 0
    /\ p \in Pollers => k = "due" /\ SeenDue
    /\ runner' = [runner EXCEPT ![p] = [Idle EXCEPT !.phase = "ready", !.key = k,
                                                  !.revision = monitor.revision]]
    /\ UNCHANGED durable

(* Mutant: a run whose runner died is never due.                            *)
DueUnlessRunning ==
    IF Active = {} THEN monitor.next <= 0 /\ ~monitor.spent
    ELSE \A r \in Active : run[r].state # "running" /\ (run[r].state = "waiting_retry" => run[r].next = 0)

(* dueRun: the active run when its wait is over, or the scheduled run of    *)
(* next_run_at unless that one has already ended.                           *)
Due ==
    IF Active = {} THEN monitor.next <= 0 /\ ~monitor.spent
    ELSE \A r \in Active : run[r].state = "waiting_retry" => run[r].next = 0

(* claim asks dueRun, or startRun with a caller's key, which returns a run  *)
(* of that key that has ended.                                              *)
Wanted(k) == monitor.enabled /\ IF k = "due" THEN Due ELSE Known(k) \cap Ended = {}

(* The lease and deadline of a new attempt, cut to the caller's deadline.   *)
Deadline(d) == Lower(AttemptTicks, d)
Lease(d) == Lower(LeaseTicks, Deadline(d))

Holding(p, r, i, t) ==
    [runner EXCEPT ![p] = [@ EXCEPT !.phase = "capturing", !.run = r, !.attempt = i, !.token = t]]

(* The origin cools down, and nobody is at work on r.                       *)
HeldBack(r) == cooldown > 0 /\ (run[r].state = "waiting_retry" \/ run[r].lease = 0)

(* startRun, the active run: put off until the cooldown is over             *)
Postpone(p, r) ==
    LET at == Higher(cooldown, run[r].next) IN
    /\ HeldBack(r)
    /\ run' = [run EXCEPT ![r] = [@ EXCEPT !.state = "waiting_retry", !.lease = 0,
                                           !.deadline = 0, !.next = at]]
    /\ attempts' = Closed(r, "interrupted")
    /\ monitor' = NextAt(monitor, at)
    /\ runner' = [runner EXCEPT ![p] = Idle]

(* Mutant: the attempt of the lost runner stays open.                       *)
RetakenOpen(r) == Append(attempts[r], [token |-> run[r].token + 1, state |-> "running"])

(* or taken over, under the next fencing token.                             *)
Retaken(r) == Append(Closed(r, "interrupted")[r], [token |-> run[r].token + 1, state |-> "running"])

Recover(p, r, d) ==
    /\ ~HeldBack(r)
    /\ run[r].state = "waiting_retry" => run[r].next = 0
    /\ run[r].state = "running" => run[r].lease = 0
    /\ Len(attempts[r]) < MaxAttempts
    /\ run' = [run EXCEPT ![r] = [run[r] EXCEPT !.state = "running", !.token = @ + 1,
                                                !.lease = Lease(d), !.deadline = Deadline(d),
                                                !.next = 0]]
    /\ attempts' = [attempts EXCEPT ![r] = Retaken(r)]
    /\ runner' = Holding(p, r, Len(attempts[r]) + 1, run[r].token + 1)
    /\ UNCHANGED monitor

KeyOf(k) == IF k = "due" THEN "scheduled" ELSE k
KeyTaken(k) ==
    IF k = "due" THEN [monitor EXCEPT !.usedNow = @ \/ monitor.next = 0] ELSE monitor

(* startRun, no active run: a new one waits for the cooldown                *)
StartWaiting(p, k, r) ==
    /\ cooldown > 0
    /\ run' = [run EXCEPT ![r] = [NewRun(KeyOf(k)) EXCEPT !.state = "waiting_retry", !.next = cooldown]]
    /\ monitor' = NextAt(KeyTaken(k), cooldown)
    /\ runner' = [runner EXCEPT ![p] = Idle]
    /\ UNCHANGED attempts

(* or starts.                                                               *)
StartRunning(p, k, r, d) ==
    /\ cooldown = 0
    /\ run' = [run EXCEPT ![r] = [NewRun(KeyOf(k)) EXCEPT !.state = "running",
                                      !.lease = Lease(d), !.deadline = Deadline(d)]]
    /\ attempts' = [attempts EXCEPT ![r] = <<[token |-> monitor.epoch, state |-> "running"]>>]
    /\ monitor' = NextAt(KeyTaken(k), Interval)
    /\ runner' = Holding(p, r, 1, monitor.epoch)

Claim(p, d) ==
    LET k == runner[p].key IN
    /\ runner[p].phase = "ready"
    /\ Wanted(k)
    /\ \/ \E r \in Active : Postpone(p, r) \/ Recover(p, r, d)
       \/ Active = {} /\ \E r \in Fresh : StartWaiting(p, k, r) \/ StartRunning(p, k, r, d)
    /\ UNCHANGED <<snapshots, events, cooldown>>

(* claim returns null, or startRun throws: somebody is at work, the run     *)
(* waits, the key's run has ended, or the Monitor is paused.                *)
ClaimNothing(p) ==
    /\ runner[p].phase = "ready"
    /\ \/ ~Wanted(runner[p].key)
       \/ \E r \in Active : ~HeldBack(r) /\ \/ run[r].state = "running" /\ run[r].lease > 0
                                            \/ run[r].state = "waiting_retry" /\ run[r].next > 0
    /\ runner' = [runner EXCEPT ![p] = Idle]
    /\ UNCHANGED durable

-----------------------------------------------------------------------------
(* A runner owns its run by attempt and token; it may execute while the run *)
(* is also current and within its lease and deadline (assertExecution).     *)
Owns(p) ==
    LET w == runner[p] IN
    /\ w.run # 0
    /\ run[w.run].state = "running"
    /\ Len(attempts[w.run]) = w.attempt
    /\ run[w.run].token = w.token

(* Mutant: the lease of the run is checked, not whose it is.                *)
ExecutesUnfenced(p) ==
    LET w == runner[p] IN
    /\ w.run # 0
    /\ run[w.run].state = "running"
    /\ run[w.run].lease > 0 /\ run[w.run].deadline > 0

Executes(p) ==
    /\ Owns(p)
    /\ monitor.enabled
    /\ LET r == run[runner[p].run] IN
       r.epoch = monitor.epoch /\ r.revision = monitor.revision /\ r.lease > 0 /\ r.deadline > 0

Working(p) == runner[p].phase \in {"capturing", "recorded"}
Capturing(p) == runner[p].phase = "capturing"

(* The heartbeat renews the lease, or stops the capture.                    *)
Heartbeat(p) ==
    /\ Capturing(p)
    /\ IF Executes(p)
       THEN /\ run' = [run EXCEPT ![runner[p].run].lease = Lower(LeaseTicks, run[runner[p].run].deadline)]
            /\ UNCHANGED runner
       ELSE /\ runner[p].abort = "none"
            /\ runner' = [runner EXCEPT ![p].abort = "cancelled"]
            /\ UNCHANGED run
    /\ UNCHANGED <<monitor, attempts, snapshots, events, cooldown>>

(* The caller's signal: its request is gone, the run was cancelled or the   *)
(* Monitor paused from this process, or the service shuts down.             *)
Abort(p, reason) ==
    /\ Capturing(p)
    /\ runner[p].abort = "none"
    /\ runner' = [runner EXCEPT ![p].abort = reason]
    /\ UNCHANGED durable

(* noteRetryAfter, when the response arrives; the capture may wait and go   *)
(* on afterwards.                                                           *)
NoteRetryAfter(p, wait) ==
    /\ Capturing(p)
    /\ Executes(p)
    /\ wait > cooldown
    /\ cooldown' = wait
    /\ UNCHANGED <<monitor, run, attempts, snapshots, events, runner>>

(* The signal, or the deadline of the attempt.                              *)
Stopped(p) ==
    \/ runner[p].abort # "none"
    \/ Owns(p) /\ run[runner[p].run].deadline = 0

(* The capture has ended, the page is assessed and the observation          *)
(* recorded: recordObservation takes an assessment under the ruleVersion of *)
(* the run's revision only.                                                 *)
Record(p, found) ==
    /\ Capturing(p)
    /\ ~Stopped(p)
    /\ Executes(p)
    /\ VersionOf[runner[p].revision] = VersionOf[run[runner[p].run].revision]
    /\ runner' = [runner EXCEPT ![p].phase = "recorded", ![p].found = found]
    /\ UNCHANGED durable

(* Mutants: the due time of the scheduler is left alone; the deferred run   *)
(* does not release its attempt.                                            *)
DeferredUntil(wait) == NextAt(monitor, wait)
DeferredUnscheduled(wait) == monitor
Deferred(wait) == NextAt(monitor, wait)

(* deferRun: the source asked for a wait.                                   *)
Defer(p) ==
    LET w == runner[p] IN
    /\ w.found.wait > 0
    /\ cooldown' = Higher(cooldown, w.found.wait)
    /\ run' = [run EXCEPT ![w.run] = [@ EXCEPT !.state = "waiting_retry", !.lease = 0,
                                               !.deadline = 0, !.next = w.found.wait]]
    /\ attempts' = Closed(w.run, "failed")
    /\ monitor' = Deferred(w.found.wait)
    /\ UNCHANGED <<snapshots, events>>

(* What commit makes of valid fields: against the baseline's, and the       *)
(* revision it was made under.                                              *)
RulesChanged(r) == RulesOf[snapshots[baseline].revision] # RulesOf[run[r].revision]
Changed(r, found) ==
    baseline = 0 \/ RulesChanged(r) \/ snapshots[baseline].fields # found.fields
SameSource(found) ==
    snapshots[baseline].source # NoHash /\ snapshots[baseline].source = found.source

(* Mutant: a rule change over the same bytes is taken for W2L's own.        *)
AnnouncedUnlessSameSource(r, found) == baseline = 0 \/ ~SameSource(found)

(* Another reading of the same bytes under the same rules is no event.      *)
Announced(r, found) == baseline = 0 \/ RulesChanged(r) \/ ~SameSource(found)

Snapshot(p) ==
    LET w == runner[p] IN
    [revision |-> run[w.run].revision, rules |-> w.revision, fields |-> w.found.fields,
     source |-> w.found.source, run |-> w.run, attempt |-> w.attempt]
Event(r) ==
    [run |-> r, kind |-> IF baseline = 0 THEN "initialized" ELSE "changed",
     from |-> baseline, to |-> baseline + 1]

(* commit: the snapshot that becomes the baseline, its event and the end of *)
(* the run, or the end of the run alone.                                    *)
Commit(p) ==
    LET w == runner[p] IN
    /\ w.found.wait = 0
    /\ run[w.run].expected = baseline
    /\ FinishRun(w.run, "completed")
    /\ IF w.found.valid /\ Changed(w.run, w.found)
       THEN /\ snapshots' = Append(snapshots, Snapshot(p))
            /\ events' = IF Announced(w.run, w.found) THEN Append(events, Event(w.run)) ELSE events
       ELSE UNCHANGED <<snapshots, events>>
    /\ UNCHANGED cooldown

Conclude(p) ==
    /\ runner[p].phase = "recorded"
    /\ Executes(p)
    /\ Defer(p) \/ Commit(p)
    /\ runner' = [runner EXCEPT ![p] = Idle]

(* interrupt, at a shutdown: the run waits for the next process.            *)
Interrupt(r) ==
    /\ run' = [run EXCEPT ![r] = [@ EXCEPT !.state = "waiting_retry", !.lease = 0,
                                           !.deadline = 0, !.next = cooldown]]
    /\ attempts' = Closed(r, "interrupted")
    /\ monitor' = NextAt(monitor, cooldown)

(* A stopped runner ends its run, if it still owns it; timedOut is the time *)
(* budget of the capture itself.                                            *)
GiveUp(p, timedOut) ==
    LET r == runner[p].run IN
    /\ Working(p)
    /\ Stopped(p) \/ timedOut
    /\ timedOut => Capturing(p)
    /\ IF ~Owns(p) THEN UNCHANGED <<run, attempts, monitor>>
       ELSE IF runner[p].abort = "shutdown" THEN Interrupt(r)
       ELSE FinishRun(r, IF timedOut \/ run[r].deadline = 0 THEN "expired" ELSE "cancelled")
    /\ runner' = [runner EXCEPT ![p] = Idle]
    /\ UNCHANGED <<snapshots, events, cooldown>>

(* A runner that may not go on, and was not stopped, throws: a run it still *)
(* owns keeps its attempt until somebody takes it over.                     *)
Fail(p) ==
    /\ Working(p)
    /\ ~Stopped(p)
    /\ \/ ~Executes(p)
       \/ Capturing(p) /\ VersionOf[runner[p].revision] # VersionOf[run[runner[p].run].revision]
    /\ runner' = [runner EXCEPT ![p] = Idle]
    /\ UNCHANGED durable

(* The process dies with the run in its hands; before its claim it leaves   *)
(* no trace.                                                                *)
Crash(p) ==
    /\ Working(p)
    /\ runner' = [runner EXCEPT ![p] = Idle]
    /\ UNCHANGED durable

-----------------------------------------------------------------------------
Less(t) == IF t > 0 THEN t - 1 ELSE 0

Tick ==
    /\ monitor' = [monitor EXCEPT !.next = Higher(-1, @ - 1), !.usedNow = FALSE]
    /\ run' = [r \in RunIds |-> [run[r] EXCEPT !.lease = Less(@), !.deadline = Less(@),
                                               !.next = Less(@)]]
    /\ cooldown' = Less(cooldown)
    /\ runner' = [p \in Runners |-> [runner[p] EXCEPT !.found.wait = Less(@)]]
    /\ UNCHANGED <<attempts, snapshots, events>>

Findings == [valid : {TRUE}, fields : Fields, source : Sources, wait : {0}]
            \cup [valid : {FALSE}, fields : {CHOOSE f \in Fields : TRUE},
                  source : {NoHash}, wait : {0} \cup RetryAfters]

Calls == Keys \cup {"due"}
Start(p) == ClaimNothing(p) \/ \E d \in CallerDeadlines : Claim(p, d)
End(p) == Conclude(p) \/ GiveUp(p, FALSE) \/ Fail(p)

Next ==
    \/ \E on \in BOOLEAN, at \in StartTimes : Configure(on, at)
    \/ \E on \in BOOLEAN : SetEnabled(on)
    \/ \E k \in Keys : EnqueueRun(k)
    \/ \E r \in RunIds : Cancel(r)
    \/ \E wait \in RetryAfters : CoolOrigin(wait)
    \/ \E p \in Runners :
          \/ \E k \in Calls : Call(p, k)
          \/ Start(p)
          \/ Heartbeat(p) \/ \E wait \in RetryAfters : NoteRetryAfter(p, wait)
          \/ \E reason \in {"cancelled", "shutdown"} : Abort(p, reason)
          \/ \E found \in Findings : Record(p, found)
          \/ End(p) \/ GiveUp(p, TRUE) \/ Crash(p)
    \/ Tick

Spec == Init /\ [][Next]_vars

(* A monitor loop polls for as long as its service runs, and a call it made *)
(* returns: its deadline stops the capture.  The clock runs.                *)
Fairness ==
    /\ \A p \in Pollers : WF_vars(Call(p, "due"))
    /\ \A p \in Runners : WF_vars(Start(p)) /\ WF_vars(End(p))
    /\ WF_vars(Tick)

FairSpec == Spec /\ Fairness
-----------------------------------------------------------------------------
(* PROPERTIES                                                               *)

(* A Monitor has at most one active run, of its current control epoch and   *)
(* revision, while it is enabled, and measured against its current          *)
(* baseline: the "baseline conflict" of commit cannot happen, and nothing   *)
(* that was started under other settings is at work.                        *)
ActiveRunIsCurrent ==
    /\ Cardinality(Active) <= 1
    /\ \A r \in Active :
          /\ monitor.enabled
          /\ run[r].epoch = monitor.epoch /\ run[r].revision = monitor.revision
          /\ run[r].expected = baseline

(* An attempt is at work exactly when its run is, as its last one, and      *)
(* under its token, which grows with every attempt: two processes that      *)
(* claim, lose, defer, interrupt and take over never both hold one.         *)
OneAttemptAtWork ==
    \A r \in RunIds : LET a == attempts[r] IN
        /\ run[r].state = "running" => a # <<>> /\ a[Len(a)].token = run[r].token
        /\ \A i \in DOMAIN a :
              /\ a[i].state = "running" <=> run[r].state = "running" /\ i = Len(a)
              /\ i > 1 => a[i - 1].token < a[i].token

(* A snapshot is of a run that completed, by the attempt that completed it, *)
(* and is that run's only one: a runner that was cancelled, paused, timed   *)
(* out or replaced leaves nothing behind.  Its run was set against the      *)
(* snapshot before it, so no two runs built on one baseline.                *)
SnapshotsAreOfCompletedRuns ==
    \A v \in DOMAIN snapshots : LET s == snapshots[v] IN
        /\ run[s.run].state = "completed"
        /\ s.attempt = Len(attempts[s.run])
        /\ attempts[s.run][s.attempt].state = "succeeded"
        /\ run[s.run].expected = v - 1
        /\ \A u \in DOMAIN snapshots : snapshots[u].run = s.run => u = v

(* The events tell the history of the baseline: one for the first snapshot, *)
(* one for every later one unless it is the same bytes read anew under the  *)
(* same rules, in order, each from the snapshot before.                     *)
EventsTellTheChanges ==
    LET told == {events[i].to : i \in DOMAIN events}
        reread(v) == /\ snapshots[v].source = snapshots[v - 1].source
                     /\ snapshots[v].source # NoHash
                     /\ RulesOf[snapshots[v].revision] = RulesOf[snapshots[v - 1].revision]
    IN  /\ told = {v \in DOMAIN snapshots : v = 1 \/ ~reread(v)}
        /\ \A i \in DOMAIN events :
              /\ events[i].run = snapshots[events[i].to].run
              /\ events[i].from = events[i].to - 1
              /\ i > 1 => events[i - 1].to < events[i].to

(* The monitor loop looks at next_run_at alone, and at lost leases: a run   *)
(* that waits or is queued is never due before its Monitor is.              *)
SchedulerSeesTheRun ==
    \A r \in Active :
        /\ run[r].state = "queued" => monitor.next <= 0
        /\ run[r].state = "waiting_retry" => monitor.next <= run[r].next

(* Every run that was started ends, whatever processes crash, if the origin *)
(* stops asking for waits; but for the bound on attempts.                   *)
NoRunIsForgotten ==
    <>[](cooldown = 0) =>
        \A r \in RunIds :
            run[r].state \in ActiveStates ~>
                (run[r].state \in EndStates \/ Len(attempts[r]) = MaxAttempts)

(* The revision a runner captures and assesses with is the one of its run:  *)
(* monitorRunner.ts checks that before it claims, "stale monitor revision", *)
(* and monitorStore.ts again by its ruleVersion, "assessment rule mismatch".*)
RunnerHoldsItsRevision ==
    \A p \in Runners :
        runner[p].phase = "recorded" /\ Executes(p) =>
            runner[p].revision = run[runner[p].run].revision
=============================================================================
