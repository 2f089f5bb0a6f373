---------------------------- MODULE MonitorProofs ----------------------------
(* Proofs about Monitor, for every value of its constants: what its runs,   *)
(* attempts, snapshots, events and schedule keep to, whichever processes    *)
(* claim, lose, defer, interrupt and take over the runs.                    *)
EXTENDS Monitor, SequenceTheorems, FiniteSetTheorems, TLAPS

(* One active run, started under the settings and the baseline there are.   *)
RunsInv ==
    /\ \A r, q \in Active : r = q
    /\ \A r \in Active :
          /\ monitor.enabled
          /\ run[r].epoch = monitor.epoch /\ run[r].revision = monitor.revision
          /\ run[r].expected = baseline
    /\ \A r \in RunIds : run[r].state = "queued" => run[r].lease = 0

(* The attempts a of a run: the last one has the run's token, in whatever   *)
(* state the run is, so the next attempt's token is above all of them.      *)
Attempted(row, a) ==
    /\ row.state = "running" => a # <<>>
    /\ row.state = "none" => a = <<>>
    /\ a # <<>> => a[Len(a)].token = row.token
    /\ \A i \in DOMAIN a :
          /\ a[i].state = "running" <=> row.state = "running" /\ i = Len(a)
          /\ i > 1 => a[i - 1].token < a[i].token

AttemptsInv == \A r \in RunIds : Attempted(run[r], attempts[r])

RunPart == RunsInv /\ AttemptsInv /\ SchedulerSeesTheRun
HistoryPart == SnapshotsAreOfCompletedRuns /\ EventsTellTheChanges

(* What a runner is about to commit is a finding.                           *)
FoundInv == \A p \in Runners : runner[p].phase = "recorded" => runner[p].found \in Finding

IInv == TypeOK /\ RunPart /\ HistoryPart /\ FoundInv

(* What the attempts a of a run say is still said by b: what is closed is   *)
(* closed for good.                                                         *)
Settled(a, b) == Len(a) <= Len(b) /\ \A i \in DOMAIN a : a[i].state # "running" => b[i] = a[i]

(* What a step may do to the runs.                                          *)
RunsSettle ==
    \A r \in RunIds :
        /\ r \in Ended => run'[r].state = run[r].state /\ attempts'[r] = attempts[r]
        /\ Settled(attempts[r], attempts'[r])
QuietStarts == \A r \in RunIds : Len(attempts'[r]) > Len(attempts[r]) => cooldown = 0
Keeps == IInv' /\ RunsSettle /\ QuietStarts

(* A step of the one run r that is not ended: the others stand still.       *)
OneRun(r) ==
    /\ Active \subseteq {r} /\ r \notin Ended
    /\ \A q \in RunIds \ {r} : run'[q] = run[q] /\ attempts'[q] = attempts[q]
    /\ Attempted(run'[r], attempts'[r])
    /\ Settled(attempts[r], attempts'[r])
    /\ Len(attempts'[r]) > Len(attempts[r]) => cooldown = 0

(* What a row that is active has to agree with.                             *)
Current(row, m, b) ==
    /\ m.enabled /\ row.epoch = m.epoch /\ row.revision = m.revision /\ row.expected = b
    /\ row.state = "queued" => row.lease = 0 /\ m.next <= 0
    /\ row.state = "waiting_retry" => m.next <= row.next

-----------------------------------------------------------------------------
(* Closing, taking up and starting attempts                                 *)

Close(a, s) == [i \in DOMAIN a |-> IF a[i].state = "running" THEN [a[i] EXCEPT !.state = s] ELSE a[i]]
CloseStates == {"interrupted", "succeeded", "cancelled", "failed"}

\* The bounds of time are numbers.
LEMMA Bounds ==
    /\ Interval \in Nat /\ Interval > 0
    /\ LeaseTicks \in Nat /\ AttemptTicks \in Nat
    BY MonitorAssumption

(* The attempts of a run have a length, and its rows are attempts.          *)
LEMMA AttemptsSeq ==
    ASSUME NEW a \in Seq(AttemptRow)
    PROVE  /\ Len(a) \in Nat /\ DOMAIN a = 1 .. Len(a)
           /\ a \in [1 .. Len(a) -> AttemptRow]
           /\ a = <<>> <=> Len(a) = 0
           /\ \A i \in DOMAIN a : a[i] \in AttemptRow
<1>1. /\ Len(a) \in Nat /\ DOMAIN a = 1 .. Len(a) /\ a \in [1 .. Len(a) -> AttemptRow]
    BY LenProperties
<1>2. a # <<>> => Len(a) # 0
    BY EmptySeq
<1>3. Len(<<>>) = 0
    BY EmptySeq
<1>. QED BY <1>1, <1>2, <1>3

(* Closing the attempts of a run leaves tokens and length alone.            *)
LEMMA CloseFields ==
    ASSUME NEW row \in RunRow, NEW a \in Seq(AttemptRow), Attempted(row, a), NEW s \in CloseStates
    PROVE  /\ Close(a, s) \in Seq(AttemptRow)
           /\ Len(Close(a, s)) = Len(a)
           /\ \A i \in DOMAIN a : /\ Close(a, s)[i].token = a[i].token
                                  /\ Close(a, s)[i].state # "running"
           /\ row.state = "running" => Close(a, s)[Len(a)].state = s
           /\ Settled(a, Close(a, s))
<1>1. /\ Len(a) \in Nat /\ DOMAIN a = 1 .. Len(a) /\ a \in [1 .. Len(a) -> AttemptRow]
      /\ a = <<>> <=> Len(a) = 0 /\ \A i \in DOMAIN a : a[i] \in AttemptRow
    BY AttemptsSeq
<1>2. \A i \in DOMAIN a : /\ [a[i] EXCEPT !.state = s] \in AttemptRow
                          /\ [a[i] EXCEPT !.state = s].token = a[i].token
                          /\ [a[i] EXCEPT !.state = s].state = s
    BY <1>1 DEF AttemptRow, CloseStates
<1>3. \A i \in DOMAIN a : /\ Close(a, s)[i].token = a[i].token
                          /\ Close(a, s)[i].state # "running"
                          /\ a[i].state = "running" => Close(a, s)[i].state = s
    BY <1>2 DEF Close, CloseStates
<1>4. CASE row.state = "running"
    <2>1. Len(a) \in 1 .. Len(a)
        BY <1>1, <1>4 DEF Attempted
    <2>2. \A i \in DOMAIN a : a[i].state = "running" <=> i = Len(a)
        BY <1>4 DEF Attempted
    <2>3. Close(a, s) = [a EXCEPT ![Len(a)] = [a[Len(a)] EXCEPT !.state = s]]
        BY <1>1, <2>1, <2>2 DEF Close
    <2>4. Close(a, s) \in Seq(AttemptRow) /\ Len(Close(a, s)) = Len(a)
        BY <1>1, <1>2, <2>1, <2>3, ExceptSeq
    <2>5. Settled(a, Close(a, s))
        BY <1>1, <2>4 DEF Settled, Close
    <2>. QED BY <1>1, <1>3, <2>1, <2>2, <2>4, <2>5
<1>5. CASE row.state # "running"
    <2>1. \A i \in DOMAIN a : a[i].state # "running"
        BY <1>5 DEF Attempted
    <2>2. Close(a, s) = a
        BY <1>1, <2>1 DEF Close
    <2>3. Settled(a, Close(a, s))
        BY <1>1, <2>2 DEF Settled
    <2>. QED BY <1>3, <1>5, <2>2, <2>3
<1>. QED BY <1>4, <1>5

(* A run that stops working keeps its attempts, closed.                     *)
LEMMA CloseAttempted ==
    ASSUME NEW row \in RunRow, NEW a \in Seq(AttemptRow), Attempted(row, a), NEW s \in CloseStates,
           NEW row2 \in RunRow, row2.state \notin {"none", "running"}, row2.token = row.token
    PROVE  Attempted(row2, Close(a, s))
<1>1. /\ Len(a) \in Nat /\ DOMAIN a = 1 .. Len(a) /\ a = <<>> <=> Len(a) = 0
    BY AttemptsSeq
<1>2. /\ Close(a, s) \in Seq(AttemptRow)
      /\ Len(Close(a, s)) = Len(a)
      /\ \A i \in DOMAIN a : /\ Close(a, s)[i].token = a[i].token
                             /\ Close(a, s)[i].state # "running"
    BY CloseFields
<1>3. DOMAIN Close(a, s) = 1 .. Len(a) /\ (Close(a, s) = <<>> <=> Len(a) = 0)
    BY <1>2, AttemptsSeq
<1>4. Close(a, s) # <<>> => Close(a, s)[Len(a)].token = row.token
    BY <1>1, <1>2, <1>3 DEF Attempted
<1>5. \A i \in 1 .. Len(a) : i > 1 => Close(a, s)[i - 1].token < Close(a, s)[i].token
    <2>. SUFFICES ASSUME NEW i \in 1 .. Len(a), i > 1
                  PROVE  Close(a, s)[i - 1].token < Close(a, s)[i].token
        OBVIOUS
    <2>1. i - 1 \in 1 .. Len(a) /\ a[i - 1].token < a[i].token
        BY <1>1 DEF Attempted
    <2>. QED BY <1>1, <1>2, <2>1
<1>. QED BY <1>1, <1>2, <1>3, <1>4, <1>5 DEF Attempted

(* A run that is taken up again works under the next token.                 *)
LEMMA RetakeAttempted ==
    ASSUME NEW row \in RunRow, NEW a \in Seq(AttemptRow), Attempted(row, a),
           NEW row2 \in RunRow, row2.state = "running", row2.token = row.token + 1,
           NEW b, b = Append(Close(a, "interrupted"), [token |-> row.token + 1, state |-> "running"])
    PROVE  b \in Seq(AttemptRow) /\ Attempted(row2, b) /\ Settled(a, b)
<1>. DEFINE c == Close(a, "interrupted")
            e == [token |-> row.token + 1, state |-> "running"]
<1>1. /\ Len(a) \in Nat /\ DOMAIN a = 1 .. Len(a) /\ a = <<>> <=> Len(a) = 0
      /\ \A i \in DOMAIN a : a[i].token \in Nat
    BY AttemptsSeq DEF AttemptRow
<1>2. /\ c \in Seq(AttemptRow)
      /\ Len(c) = Len(a)
      /\ \A i \in DOMAIN a : c[i].token = a[i].token /\ c[i].state # "running"
      /\ Settled(a, c)
    BY CloseFields DEF CloseStates
<1>3. e \in AttemptRow /\ e.token = row.token + 1 /\ e.state = "running"
    BY DEF AttemptRow, RunRow
<1>. HIDE DEF c, e
<1>4. b = Append(c, e)
    BY DEF c, e
<1>5. /\ b \in Seq(AttemptRow) /\ b # <<>> /\ Len(b) = Len(a) + 1
      /\ \A i \in 1 .. Len(a) : b[i] = c[i]
      /\ b[Len(a) + 1] = e
    <2>1. /\ Append(c, e) \in Seq(AttemptRow) /\ Append(c, e) # <<>>
          /\ Len(Append(c, e)) = Len(c) + 1
          /\ \A i \in 1 .. Len(c) : Append(c, e)[i] = c[i]
          /\ Append(c, e)[Len(c) + 1] = e
        BY <1>2, <1>3, AppendProperties
    <2>. QED BY <1>2, <1>4, <2>1
<1>6. DOMAIN b = 1 .. Len(a) + 1
    BY <1>5, AttemptsSeq
<1>7. \A i \in DOMAIN b : b[i].state = "running" <=> i = Len(b)
    BY <1>1, <1>2, <1>3, <1>5, <1>6
<1>8. \A i \in DOMAIN b : i > 1 => b[i - 1].token < b[i].token
    <2>. SUFFICES ASSUME NEW i \in DOMAIN b, i > 1
                  PROVE  b[i - 1].token < b[i].token
        OBVIOUS
    <2>1. i - 1 \in 1 .. Len(a) /\ b[i - 1].token = a[i - 1].token
        BY <1>1, <1>2, <1>5, <1>6
    <2>2. CASE i \in 1 .. Len(a)
        <3>1. a[i - 1].token < a[i].token
            BY <1>1, <2>2 DEF Attempted
        <3>2. b[i].token = a[i].token
            BY <1>1, <1>2, <1>5, <2>2
        <3>. QED BY <2>1, <3>1, <3>2
    <2>3. CASE i = Len(a) + 1
        <3>1. a[i - 1].token = row.token
            BY <1>1, <2>1, <2>3 DEF Attempted
        <3>2. b[i].token = row.token + 1
            BY <1>3, <1>5, <2>3
        <3>3. row.token \in Nat
            BY DEF RunRow
        <3>4. b[i - 1].token = row.token
            BY <2>1, <3>1
        <3>. QED BY <3>2, <3>3, <3>4
    <2>. QED BY <1>1, <1>6, <2>2, <2>3
<1>9. b[Len(b)].token = row2.token
    BY <1>3, <1>5
<1>10. Settled(a, b)
    BY <1>1, <1>2, <1>5 DEF Settled
<1>. QED BY <1>5, <1>7, <1>8, <1>9, <1>10 DEF Attempted

(* A new run has no attempt, or the one it starts with.                     *)
LEMMA NewAttempted ==
    ASSUME NEW row \in RunRow
    PROVE  /\ row.state # "running" => Attempted(row, <<>>)
           /\ row.state = "running" =>
                 /\ <<[token |-> row.token, state |-> "running"]>> \in Seq(AttemptRow)
                 /\ Attempted(row, <<[token |-> row.token, state |-> "running"]>>)
<1>1. row.state # "running" => Attempted(row, <<>>)
    BY EmptySeq DEF Attempted
<1>2. ASSUME row.state = "running"
      PROVE  /\ <<[token |-> row.token, state |-> "running"]>> \in Seq(AttemptRow)
             /\ Attempted(row, <<[token |-> row.token, state |-> "running"]>>)
    <2>. DEFINE e == [token |-> row.token, state |-> "running"]
    <2>1. e \in AttemptRow /\ e.token = row.token /\ e.state = "running"
        BY DEF AttemptRow, RunRow
    <2>. HIDE DEF e
    <2>2. <<e>> \in Seq(AttemptRow) /\ Len(<<e>>) = 1 /\ <<e>>[1] = e /\ <<e>> # <<>>
        BY <2>1
    <2>3. DOMAIN <<e>> = 1 .. 1
        BY <2>2, LenProperties
    <2>4. Attempted(row, <<e>>)
        BY <1>2, <2>1, <2>2, <2>3 DEF Attempted
    <2>. QED BY <2>2, <2>4 DEF e
<1>. QED BY <1>1, <1>2

-----------------------------------------------------------------------------
(* A step of one run                                                        *)

(* The rows, attempts and runners as the type invariant has them.           *)
LEMMA Typed ==
    ASSUME TypeOK
    PROVE  /\ \A r \in RunIds : run[r] \in RunRow /\ attempts[r] \in Seq(AttemptRow)
           /\ monitor \in MonitorRow /\ cooldown \in Nat
           /\ \A p \in Runners : runner[p] \in RunnerState
           /\ baseline \in Nat
<1>1. baseline \in Nat
    BY LenProperties DEF TypeOK, baseline
<1>. QED BY <1>1 DEF TypeOK

(* A new time for the schedule leaves the settings alone.                   *)
LEMMA NextAtFields ==
    ASSUME NEW m \in MonitorRow, NEW t \in Int
    PROVE  /\ NextAt(m, t) \in MonitorRow
           /\ NextAt(m, t).enabled = m.enabled
           /\ NextAt(m, t).epoch = m.epoch
           /\ NextAt(m, t).revision = m.revision
           /\ NextAt(m, t).next = t
<1>1. (t = 0 /\ m.usedNow) \in BOOLEAN
    OBVIOUS
<1>. QED BY <1>1 DEF NextAt, MonitorRow

(* No run is active: what there is to say of them is of their attempts.     *)
LEMMA Inactive ==
    ASSUME TypeOK', AttemptsInv', Active' = {}
    PROVE  RunPart'
<1>1. \A r \in RunIds : run'[r].state # "queued"
    BY DEF Active, ActiveStates
<1>. QED BY <1>1 DEF RunPart, RunsInv, SchedulerSeesTheRun

(* The run a step is about is the only one that may be active after it.     *)
LEMMA OneRunKeeps ==
    ASSUME TypeOK, TypeOK', RunPart, NEW r \in RunIds, OneRun(r),
           run'[r].state \in ActiveStates => Current(run'[r], monitor', baseline')
    PROVE  RunPart'
<1>1. Active' \subseteq {r}
    BY DEF OneRun, Active
<1>2. AttemptsInv'
    BY DEF AttemptsInv, OneRun, RunPart
<1>3. \A q \in RunIds : run'[q].state = "queued" => q \in Active' /\ q = r
    BY <1>1 DEF Active, ActiveStates
<1>4. \A q \in Active' : q = r /\ run'[q].state \in ActiveStates
    BY <1>1 DEF Active
<1>5. RunsInv'
    BY <1>3, <1>4 DEF RunsInv, Current, ActiveStates
<1>6. SchedulerSeesTheRun'
    BY <1>4 DEF SchedulerSeesTheRun, Current
<1>. QED BY <1>2, <1>5, <1>6 DEF RunPart

(* The history is of completed runs, so a step of another one, or of none,  *)
(* leaves it as it is.                                                      *)
LEMMA HistoryStays ==
    ASSUME TypeOK, HistoryPart, UNCHANGED <<snapshots, events>>,
           \A q \in RunIds : run[q].state = "completed" =>
               /\ run'[q].state = "completed" /\ run'[q].expected = run[q].expected
               /\ attempts'[q] = attempts[q]
    PROVE  HistoryPart'
<1>1. \A v \in DOMAIN snapshots : snapshots[v].run \in RunIds
    <2>1. snapshots \in Seq(SnapshotRow)
        BY DEF TypeOK
    <2>2. DOMAIN snapshots = 1 .. Len(snapshots) /\ snapshots \in [1 .. Len(snapshots) -> SnapshotRow]
        BY <2>1, LenProperties
    <2>. QED BY <2>2 DEF SnapshotRow
<1>2. SnapshotsAreOfCompletedRuns'
    BY <1>1 DEF HistoryPart, SnapshotsAreOfCompletedRuns
<1>3. EventsTellTheChanges'
    BY DEF HistoryPart, EventsTellTheChanges
<1>. QED BY <1>2, <1>3 DEF HistoryPart

\* A step that changes one run, and not into a completed one, keeps the
\* history.
LEMMA OneRunHistory ==
    ASSUME TypeOK, HistoryPart, UNCHANGED <<snapshots, events>>, NEW r \in RunIds, OneRun(r)
    PROVE  HistoryPart'
<1>1. \A q \in RunIds : run[q].state = "completed" =>
          /\ run'[q].state = "completed" /\ run'[q].expected = run[q].expected
          /\ attempts'[q] = attempts[q]
    BY DEF OneRun, Ended, EndStates
<1>. QED BY <1>1, HistoryStays

(* A run that is active, or not there yet, is the only one a step is about. *)
LEMMA OneActive ==
    ASSUME TypeOK, RunPart, NEW r \in Active
    PROVE  /\ r \in RunIds /\ Active = {r} /\ r \notin Ended
           /\ monitor.enabled
           /\ Current(run[r], monitor, baseline)
           /\ Attempted(run[r], attempts[r])
<1>1. r \in RunIds /\ r \notin Ended
    BY DEF Active, Ended, ActiveStates, EndStates
<1>2. Active = {r}
    BY DEF RunPart, RunsInv
<1>. QED BY <1>1, <1>2 DEF RunPart, RunsInv, AttemptsInv, SchedulerSeesTheRun, Current, Active

\* A run about to begin has not ended and has no attempts.
LEMMA OneFresh ==
    ASSUME TypeOK, RunPart, NEW r \in Fresh, Active = {}
    PROVE  r \in RunIds /\ r \notin Ended /\ attempts[r] = <<>>
    BY DEF RunPart, AttemptsInv, Attempted, Fresh, Ended, EndStates

(* The attempts of one run are replaced.                                    *)
LEMMA SetAttempts ==
    ASSUME TypeOK, NEW r \in RunIds, NEW a \in Seq(AttemptRow), NEW row \in RunRow,
           Active \subseteq {r}, r \notin Ended, Attempted(row, a),
           Settled(attempts[r], a), Len(a) > Len(attempts[r]) => cooldown = 0,
           run' = [run EXCEPT ![r] = row], attempts' = [attempts EXCEPT ![r] = a]
    PROVE  /\ run' \in [RunIds -> RunRow] /\ run'[r] = row
           /\ attempts' \in [RunIds -> Seq(AttemptRow)] /\ attempts'[r] = a
           /\ OneRun(r)
<1>1. run' \in [RunIds -> RunRow] /\ run'[r] = row
    BY DEF TypeOK
<1>2. attempts' \in [RunIds -> Seq(AttemptRow)] /\ attempts'[r] = a
    BY DEF TypeOK
<1>3. \A q \in RunIds \ {r} : run'[q] = run[q] /\ attempts'[q] = attempts[q]
    BY DEF TypeOK
<1>. QED BY <1>1, <1>2, <1>3 DEF OneRun

(* Its attempts are left alone.                                             *)
LEMMA SameSettled ==
    ASSUME NEW a \in Seq(AttemptRow)
    PROVE  Settled(a, a) /\ ~(Len(a) > Len(a))
    BY AttemptsSeq DEF Settled

(* The first attempt of a run.                                              *)
LEMMA FirstSettled ==
    ASSUME NEW a \in Seq(AttemptRow)
    PROVE  Settled(<<>>, a)
<1>1. <<>> \in Seq(AttemptRow)
    BY EmptySeq
<1>2. Len(<<>>) = 0 /\ DOMAIN <<>> = 1 .. 0 /\ Len(a) \in Nat
    BY <1>1, EmptySeq, AttemptsSeq
<1>. QED BY <1>2 DEF Settled

(* A step of one run settles them all.                                      *)
LEMMA OneRunSettles ==
    ASSUME TypeOK, NEW r \in RunIds, OneRun(r)
    PROVE  RunsSettle /\ QuietStarts
<1>1. \A q \in RunIds : Settled(attempts[q], attempts[q]) /\ ~(Len(attempts[q]) > Len(attempts[q]))
    BY Typed, SameSettled
<1>. QED BY <1>1 DEF OneRun, RunsSettle, QuietStarts

(* So does one of none.                                                     *)
LEMMA NoRunSettles ==
    ASSUME TypeOK, \A r \in RunIds : run'[r].state = run[r].state /\ attempts'[r] = attempts[r]
    PROVE  RunsSettle /\ QuietStarts
<1>1. \A q \in RunIds : Settled(attempts[q], attempts[q]) /\ ~(Len(attempts[q]) > Len(attempts[q]))
    BY Typed, SameSettled
<1>. QED BY <1>1 DEF RunsSettle, QuietStarts

(* The run stops working: its attempt is closed.                            *)
LEMMA SetClosed ==
    ASSUME TypeOK, RunPart, NEW r \in Active, NEW s \in CloseStates, NEW row \in RunRow,
           row.state \notin {"none", "running"}, row.token = run[r].token,
           run' = [run EXCEPT ![r] = row], attempts' = Closed(r, s)
    PROVE  /\ run' \in [RunIds -> RunRow] /\ run'[r] = row
           /\ attempts' \in [RunIds -> Seq(AttemptRow)] /\ attempts'[r] = Close(attempts[r], s)
           /\ OneRun(r)
<1>1. /\ r \in RunIds /\ r \notin Ended /\ Active \subseteq {r}
      /\ Attempted(run[r], attempts[r])
      /\ run[r] \in RunRow /\ attempts[r] \in Seq(AttemptRow)
    BY OneActive, Typed
<1>2. PICK a : a = Close(attempts[r], s)
    OBVIOUS
<1>3. /\ a \in Seq(AttemptRow) /\ Attempted(row, a) /\ Settled(attempts[r], a)
      /\ ~(Len(a) > Len(attempts[r]))
    BY <1>1, <1>2, CloseFields, CloseAttempted, AttemptsSeq
<1>4. attempts' = [attempts EXCEPT ![r] = a]
    BY <1>2 DEF Closed, Close
<1>. QED BY <1>1, <1>2, <1>3, <1>4, SetAttempts

-----------------------------------------------------------------------------
(* The ways a run stops working                                             *)

\* An attempt's end follows the end of its run.
LEMMA AttemptEnds ==
    ASSUME NEW s \in EndStates
    PROVE  AttemptEnd(s) \in CloseStates
    BY Zenon DEF AttemptEnd, EndStates, CloseStates

(* The run ends: its row and attempt are closed, the schedule starts anew.  *)
LEMMA Finishing ==
    ASSUME TypeOK, RunPart, NEW r \in Active, NEW s \in EndStates, FinishRun(r, s)
    PROVE  /\ run' \in [RunIds -> RunRow] /\ attempts' \in [RunIds -> Seq(AttemptRow)]
           /\ monitor' \in MonitorRow
           /\ OneRun(r)
           /\ run'[r].state = s /\ run'[r].expected = run[r].expected
           /\ attempts'[r] = Close(attempts[r], AttemptEnd(s))
<1>1. r \in RunIds /\ run[r] \in RunRow /\ monitor \in MonitorRow /\ Interval \in Int
    BY OneActive, Typed, Bounds
<1>2. PICK row : row = EndRun(r, s)
    OBVIOUS
<1>3. /\ row \in RunRow /\ row.state = s /\ row.token = run[r].token
      /\ row.expected = run[r].expected
    BY <1>1, <1>2 DEF EndRun, RunRow
<1>4. s \notin {"none", "running"}
    BY DEF EndStates
<1>5. run' = [run EXCEPT ![r] = row] /\ attempts' = Closed(r, AttemptEnd(s))
    BY <1>2 DEF FinishRun
<1>6. PICK e \in CloseStates : e = AttemptEnd(s)
    BY AttemptEnds
<1>7. /\ run' \in [RunIds -> RunRow] /\ run'[r] = row
      /\ attempts' \in [RunIds -> Seq(AttemptRow)] /\ attempts'[r] = Close(attempts[r], e)
      /\ OneRun(r)
    BY <1>3, <1>4, <1>5, <1>6, SetClosed
<1>8. monitor' \in MonitorRow
    BY <1>1, NextAtFields DEF FinishRun
<1>. QED BY <1>3, <1>6, <1>7, <1>8

(* The run waits: the schedule is due no later than it is.                  *)
LEMMA Waiting ==
    ASSUME TypeOK, RunPart, NEW r \in Active, NEW s \in CloseStates, NEW at \in Nat,
           run' = [run EXCEPT ![r] = [@ EXCEPT !.state = "waiting_retry", !.lease = 0,
                                               !.deadline = 0, !.next = at]],
           attempts' = Closed(r, s), monitor' = NextAt(monitor, at), UNCHANGED snapshots
    PROVE  /\ run' \in [RunIds -> RunRow] /\ attempts' \in [RunIds -> Seq(AttemptRow)]
           /\ monitor' \in MonitorRow
           /\ OneRun(r)
           /\ Current(run'[r], monitor', baseline')
<1>1. /\ r \in RunIds /\ run[r] \in RunRow /\ monitor \in MonitorRow
      /\ monitor.enabled /\ Current(run[r], monitor, baseline)
    BY OneActive, Typed
<1>2. PICK row : row = [run[r] EXCEPT !.state = "waiting_retry", !.lease = 0,
                                      !.deadline = 0, !.next = at]
    OBVIOUS
<1>3. /\ row \in RunRow /\ row.state = "waiting_retry" /\ row.token = run[r].token
      /\ row.epoch = run[r].epoch /\ row.revision = run[r].revision
      /\ row.expected = run[r].expected /\ row.next = at
    BY <1>1, <1>2 DEF RunRow, ActiveStates
<1>4. run' = [run EXCEPT ![r] = row]
    BY <1>2
<1>5. /\ run' \in [RunIds -> RunRow] /\ run'[r] = row
      /\ attempts' \in [RunIds -> Seq(AttemptRow)]
      /\ OneRun(r)
    BY <1>3, <1>4, SetClosed
<1>6. /\ monitor' \in MonitorRow /\ monitor'.enabled = monitor.enabled
      /\ monitor'.epoch = monitor.epoch /\ monitor'.revision = monitor.revision
      /\ monitor'.next = at
    <2>1. at \in Int
        OBVIOUS
    <2>. QED BY <1>1, <2>1, NextAtFields
<1>7. baseline' = baseline
    BY DEF baseline
<1>8. Current(run'[r], monitor', baseline')
    BY <1>1, <1>3, <1>5, <1>6, <1>7 DEF Current
<1>. QED BY <1>5, <1>6, <1>8

(* What a claim puts into a runner, and a runner that has nothing.          *)
LEMMA RunnerRows ==
    ASSUME TypeOK, NEW p \in Runners
    PROVE  /\ Idle \in RunnerState
           /\ [runner EXCEPT ![p] = Idle] \in [Runners -> RunnerState]
           /\ \A r \in RunIds, i \in Nat, t \in Nat :
                 Holding(p, r, i, t) \in [Runners -> RunnerState]
<1>1. NoFinding \in Finding \cup {NoFinding}
    OBVIOUS
<1>2. Idle \in RunnerState
    BY <1>1 DEF Idle, RunnerState
<1>3. ASSUME NEW r \in RunIds, NEW i \in Nat, NEW t \in Nat
      PROVE  Holding(p, r, i, t) \in [Runners -> RunnerState]
    <2>1. runner[p] \in RunnerState
        BY DEF TypeOK
    <2>2. [runner[p] EXCEPT !.phase = "capturing", !.run = r, !.attempt = i, !.token = t] \in RunnerState
        BY <2>1 DEF RunnerState
    <2>. QED BY <2>2 DEF Holding, TypeOK
<1>. QED BY <1>2, <1>3 DEF TypeOK

(* A runner that is told to stop, called or finds something keeps to what   *)
(* it may commit.                                                           *)
LEMMA FoundStays ==
    ASSUME FoundInv, NEW p, UNCHANGED runner \/ runner' = [runner EXCEPT ![p] = Idle], TypeOK
    PROVE  FoundInv'
<1>1. Idle.phase # "recorded"
    BY DEF Idle
<1>. QED BY <1>1 DEF FoundInv, TypeOK

-----------------------------------------------------------------------------
(* The actions                                                              *)

\* The invariant holds before the first run.
LEMMA Initially ==
    ASSUME Init
    PROVE  IInv
<1>1. NoRun \in RunRow
    BY DEF NoRun, RunRow
<1>2. TypeOK
    <2>1. monitor \in MonitorRow
        BY DEF Init, MonitorRow
    <2>2. run \in [RunIds -> RunRow]
        BY <1>1 DEF Init
    <2>3. <<>> \in Seq(AttemptRow) /\ <<>> \in Seq(SnapshotRow) /\ <<>> \in Seq(EventRow)
        BY EmptySeq
    <2>4. /\ attempts \in [RunIds -> Seq(AttemptRow)]
          /\ snapshots \in Seq(SnapshotRow) /\ events \in Seq(EventRow)
        BY <2>3 DEF Init
    <2>5. Idle \in RunnerState
        BY DEF Idle, RunnerState
    <2>6. runner \in [Runners -> RunnerState] /\ cooldown \in Nat
        BY <2>5 DEF Init
    <2>. QED BY <2>1, <2>2, <2>4, <2>6 DEF TypeOK
<1>3. \A r \in RunIds : run[r] = NoRun /\ NoRun.state = "none" /\ attempts[r] = <<>>
    BY DEF Init, NoRun
<1>4. \A r \in RunIds : Attempted(run[r], attempts[r])
    BY <1>1, <1>3, NewAttempted
<1>5. Active = {} /\ \A r \in RunIds : run[r].state # "queued"
    BY <1>3 DEF Active, ActiveStates
<1>6. RunPart
    BY <1>4, <1>5 DEF RunPart, RunsInv, AttemptsInv, SchedulerSeesTheRun
<1>7. DOMAIN snapshots = {} /\ DOMAIN events = {}
    <2>1. <<>> \in Seq({}) /\ Len(<<>>) = 0
        BY EmptySeq
    <2>2. DOMAIN <<>> = 1 .. Len(<<>>)
        BY <2>1, LenProperties
    <2>. QED BY <2>1, <2>2 DEF Init
<1>8. HistoryPart
    BY <1>7 DEF HistoryPart, SnapshotsAreOfCompletedRuns, EventsTellTheChanges
<1>9. FoundInv
    BY DEF Init, FoundInv, Idle
<1>. QED BY <1>2, <1>6, <1>8, <1>9 DEF IInv

(* Runners and cooldowns come and go without the database's rows.           *)
LEMMA RowsStay ==
    ASSUME IInv, UNCHANGED <<monitor, run, attempts, snapshots, events>>,
           cooldown' \in Nat, runner' \in [Runners -> RunnerState], FoundInv'
    PROVE  Keeps
<1>1. TypeOK'
    BY DEF IInv, TypeOK
<1>2. RunPart'
    BY DEF IInv, RunPart, RunsInv, AttemptsInv, Attempted, SchedulerSeesTheRun, Active, baseline
<1>3. HistoryPart'
    BY HistoryStays DEF IInv
<1>4. RunsSettle /\ QuietStarts
    BY NoRunSettles DEF IInv
<1>. QED BY <1>1, <1>2, <1>3, <1>4 DEF IInv, Keeps

(* A runner changes without a row: what it holds next is a runner's state,  *)
(* and a finding if it may commit it.                                       *)
LEMMA RunnerAlone ==
    ASSUME IInv, NEW p \in Runners, NEW w \in RunnerState, UNCHANGED durable,
           runner' = [runner EXCEPT ![p] = w], w.phase = "recorded" => w.found \in Finding
    PROVE  Keeps
<1>1. runner' \in [Runners -> RunnerState] /\ cooldown' \in Nat
    BY DEF IInv, TypeOK, durable
<1>2. FoundInv'
    BY DEF IInv, FoundInv, TypeOK
<1>. QED BY <1>1, <1>2, RowsStay DEF durable

\* A call of the scheduler or of a person keeps the invariant.
LEMMA CallKeeps ==
    ASSUME IInv, NEW p \in Runners, NEW k \in Calls, Call(p, k)
    PROVE  Keeps
<1>1. PICK w : w = [Idle EXCEPT !.phase = "ready", !.key = k, !.revision = monitor.revision]
    OBVIOUS
<1>2. Idle \in RunnerState /\ monitor.revision \in Nat
    BY RunnerRows DEF IInv, TypeOK, MonitorRow
<1>3. w \in RunnerState /\ w.phase = "ready"
    BY <1>1, <1>2 DEF RunnerState, Calls
<1>4. runner' = [runner EXCEPT ![p] = w] /\ UNCHANGED durable
    BY <1>1 DEF Call
<1>. QED BY <1>3, <1>4, RunnerAlone

\* A runner that forgets its run (a crash, an error) keeps the invariant.
LEMMA RunnerDropped ==
    ASSUME IInv, NEW p \in Runners, UNCHANGED durable, runner' = [runner EXCEPT ![p] = Idle]
    PROVE  Keeps
<1>1. Idle \in RunnerState /\ Idle.phase = "idle"
    BY RunnerRows DEF IInv, Idle
<1>. QED BY <1>1, RunnerAlone

\* An abort keeps the invariant.
LEMMA AbortKeeps ==
    ASSUME IInv, NEW p \in Runners, NEW reason \in {"cancelled", "shutdown"}, Abort(p, reason)
    PROVE  Keeps
<1>1. PICK w : w = [runner[p] EXCEPT !.abort = reason]
    OBVIOUS
<1>2. runner[p] \in RunnerState /\ runner[p].phase = "capturing"
    BY DEF IInv, TypeOK, Abort, Capturing
<1>3. w \in RunnerState /\ w.phase = "capturing"
    BY <1>1, <1>2 DEF RunnerState
<1>4. runner' = [runner EXCEPT ![p] = w] /\ UNCHANGED durable
    BY <1>1 DEF Abort
<1>. QED BY <1>3, <1>4, RunnerAlone

(* What a capture may find is a finding.                                    *)
LEMMA FindingsAre ==
    Findings \subseteq Finding
<1>1. (CHOOSE f \in Fields : TRUE) \in Fields /\ NoHash \in Sources
    BY MonitorAssumption
<1>2. RetryAfters \subseteq Nat
    BY MonitorAssumption
<1>3. PICK f0 \in Fields : f0 = CHOOSE f \in Fields : TRUE
    BY <1>1
<1>4. {f0} \subseteq Fields /\ {NoHash} \subseteq Sources /\ {0} \cup RetryAfters \subseteq Nat
    BY <1>1, <1>2
<1>5. /\ [valid : {TRUE}, fields : Fields, source : Sources, wait : {0}] \subseteq Finding
      /\ [valid : {FALSE}, fields : {f0}, source : {NoHash}, wait : {0} \cup RetryAfters] \subseteq Finding
    BY <1>4 DEF Finding
<1>. QED BY <1>3, <1>5 DEF Findings

\* A finding that a runner holds but has not stored keeps the invariant.
LEMMA RecordKeeps ==
    ASSUME IInv, NEW p \in Runners, NEW found \in Findings, Record(p, found)
    PROVE  Keeps
<1>1. PICK w : w = [runner[p] EXCEPT !.phase = "recorded", !.found = found]
    OBVIOUS
<1>2. runner[p] \in RunnerState /\ found \in Finding
    BY FindingsAre DEF IInv, TypeOK
<1>3. w \in RunnerState /\ w.found \in Finding
    BY <1>1, <1>2 DEF RunnerState
<1>4. runner' = [runner EXCEPT ![p] = w] /\ UNCHANGED durable
    BY <1>1 DEF Record
<1>. QED BY <1>3, <1>4, RunnerAlone

\* A change of the origin's cooldown keeps the invariant.
LEMMA CoolingKeeps ==
    ASSUME IInv, NEW wait \in RetryAfters, cooldown' = wait,
           UNCHANGED <<monitor, run, attempts, snapshots, events, runner>>
    PROVE  Keeps
<1>1. cooldown' \in Nat
    BY MonitorAssumption
<1>2. runner' \in [Runners -> RunnerState] /\ FoundInv'
    BY DEF IInv, TypeOK, FoundInv
<1>. QED BY <1>1, <1>2, RowsStay

(* Nothing of the runs changes while none is active.                        *)
LEMMA ConfigureKeeps ==
    ASSUME IInv, NEW on \in BOOLEAN, NEW at \in StartTimes, Configure(on, at)
    PROVE  Keeps
<1>1. TypeOK'
    <2>1. at \in Int
        BY MonitorAssumption
    <2>2. monitor' \in MonitorRow
        BY <2>1 DEF Configure, IInv, TypeOK, MonitorRow
    <2>. QED BY <2>2 DEF Configure, IInv, TypeOK
<1>2. RunPart'
    <2>1. AttemptsInv' /\ Active' = {}
        BY DEF Configure, IInv, RunPart, AttemptsInv, Attempted, Active
    <2>. QED BY <1>1, <2>1, Inactive
<1>3. HistoryPart'
    BY HistoryStays DEF Configure, IInv
<1>4. FoundInv'
    BY DEF Configure, IInv, FoundInv
<1>5. RunsSettle /\ QuietStarts
    BY NoRunSettles DEF Configure, IInv
<1>. QED BY <1>1, <1>2, <1>3, <1>4, <1>5 DEF IInv, Keeps

(* A step of one run that writes no history and leaves the runners, or      *)
(* drops one.                                                               *)
LEMMA OneRunStep ==
    ASSUME IInv, NEW r \in RunIds, OneRun(r),
           run' \in [RunIds -> RunRow], attempts' \in [RunIds -> Seq(AttemptRow)],
           monitor' \in MonitorRow, cooldown' \in Nat,
           run'[r].state \in ActiveStates => Current(run'[r], monitor', baseline'),
           UNCHANGED <<snapshots, events>>, runner' \in [Runners -> RunnerState], FoundInv'
    PROVE  Keeps
<1>1. TypeOK'
    BY DEF IInv, TypeOK
<1>2. RunPart'
    BY <1>1, OneRunKeeps DEF IInv
<1>3. HistoryPart'
    BY OneRunHistory DEF IInv
<1>4. RunsSettle /\ QuietStarts
    BY OneRunSettles DEF IInv
<1>. QED BY <1>1, <1>2, <1>3, <1>4 DEF IInv, Keeps

\* The cancellation of the active run keeps the invariant.
LEMMA CancelKeeps ==
    ASSUME IInv, NEW r \in RunIds, Cancel(r)
    PROVE  Keeps
<1>1. r \in Active /\ "cancelled" \in EndStates /\ FinishRun(r, "cancelled")
    BY DEF Cancel, EndStates
<1>2. /\ run' \in [RunIds -> RunRow] /\ attempts' \in [RunIds -> Seq(AttemptRow)]
      /\ monitor' \in MonitorRow /\ OneRun(r) /\ run'[r].state = "cancelled"
    BY <1>1, Finishing DEF IInv
<1>3. run'[r].state \notin ActiveStates
    BY <1>2 DEF ActiveStates
<1>4. cooldown' \in Nat /\ runner' \in [Runners -> RunnerState] /\ FoundInv'
    BY DEF Cancel, IInv, TypeOK, FoundInv
<1>. QED BY <1>2, <1>3, <1>4, OneRunStep DEF Cancel

(* A pause finds at most one active run, and none when it was paused.       *)
LEMMA SetEnabledKeeps ==
    ASSUME IInv, NEW on \in BOOLEAN, SetEnabled(on)
    PROVE  Keeps
<1>1. monitor' \in MonitorRow
    <2>1. PICK m : m = [monitor EXCEPT !.enabled = on, !.epoch = @ + 1]
        OBVIOUS
    <2>2. m \in MonitorRow /\ cooldown \in Int
        <3>1. monitor \in MonitorRow /\ cooldown \in Nat
            BY DEF IInv, TypeOK
        <3>2. monitor.epoch + 1 \in Nat
            BY <3>1 DEF MonitorRow
        <3>3. m = [monitor EXCEPT !.enabled = on, !.epoch = monitor.epoch + 1]
            BY <2>1
        <3>4. m \in MonitorRow
            BY <3>1, <3>2, <3>3 DEF MonitorRow
        <3>. QED BY <3>1, <3>4
    <2>3. monitor' = NextAt(m, cooldown)
        BY <2>1 DEF SetEnabled
    <2>. QED BY <2>2, <2>3, NextAtFields
<1>2. cooldown' \in Nat /\ runner' \in [Runners -> RunnerState] /\ FoundInv'
    BY DEF SetEnabled, IInv, TypeOK, FoundInv
<1>3. CASE Active = {}
    <2>1. run' = run /\ attempts' = attempts
        BY <1>3 DEF SetEnabled, IInv, TypeOK
    <2>2. TypeOK'
        BY <1>1, <1>2, <2>1 DEF SetEnabled, IInv, TypeOK
    <2>3. AttemptsInv' /\ Active' = {}
        BY <1>3, <2>1 DEF IInv, RunPart, AttemptsInv, Attempted, Active
    <2>4. HistoryPart'
        BY <2>1, HistoryStays DEF SetEnabled, IInv
    <2>5. RunsSettle /\ QuietStarts
        BY <2>1, NoRunSettles DEF IInv
    <2>. QED BY <1>2, <2>2, <2>3, <2>4, <2>5, Inactive DEF IInv, Keeps
<1>4. CASE Active # {}
    <2>1. PICK r \in Active : Active = {r} /\ r \in RunIds /\ monitor.enabled
        BY <1>4, OneActive DEF IInv
    <2>2. ~on
        BY <2>1 DEF SetEnabled
    <2>3. (CHOOSE q \in Active : TRUE) = r
        BY <2>1
    <2>4. attempts' = Closed(r, "cancelled")
        BY <1>4, <2>2, <2>3 DEF SetEnabled
    <2>5. PICK row : row = EndRun(r, "cancelled")
        OBVIOUS
    <2>6. run' = [run EXCEPT ![r] = row]
        BY <2>1, <2>2, <2>5 DEF SetEnabled, IInv, TypeOK
    <2>7. row \in RunRow /\ row.state = "cancelled" /\ row.token = run[r].token
        BY <2>1, <2>5 DEF EndRun, RunRow, EndStates, IInv, TypeOK
    <2>8. /\ run' \in [RunIds -> RunRow] /\ run'[r] = row
          /\ attempts' \in [RunIds -> Seq(AttemptRow)] /\ OneRun(r)
        <3>1. "cancelled" \in CloseStates
            BY DEF CloseStates
        <3>. QED BY <2>4, <2>6, <2>7, <3>1, SetClosed DEF IInv
    <2>9. run'[r].state \notin ActiveStates
        BY <2>7, <2>8 DEF ActiveStates
    <2>. QED BY <1>1, <1>2, <2>1, <2>8, <2>9, OneRunStep DEF SetEnabled
<1>. QED BY <1>3, <1>4

(* What a new run takes from the Monitor is current.                        *)
LEMMA NewRunFields ==
    ASSUME TypeOK, NEW k \in {"none", "scheduled"} \cup Keys
    PROVE  /\ NewRun(k) \in RunRow
           /\ NewRun(k).revision = monitor.revision
           /\ NewRun(k).epoch = monitor.epoch
           /\ NewRun(k).token = monitor.epoch
           /\ NewRun(k).expected = baseline
           /\ NewRun(k).lease = 0
    BY Typed DEF NewRun, NoRun, RunRow, MonitorRow

\* A run put in the queue keeps the invariant.
LEMMA EnqueueRunKeeps ==
    ASSUME IInv, NEW k \in Keys, EnqueueRun(k)
    PROVE  Keeps
<1>1. PICK r \in Fresh : run' = [run EXCEPT ![r] = [NewRun(k) EXCEPT !.state = "queued"]]
    BY DEF EnqueueRun
<1>2. r \in RunIds /\ r \notin Ended /\ attempts[r] = <<>> /\ Active = {}
    BY OneFresh DEF EnqueueRun, IInv
<1>3. PICK row : row = [NewRun(k) EXCEPT !.state = "queued"]
    OBVIOUS
<1>4. /\ row \in RunRow /\ row.state = "queued" /\ row.revision = monitor.revision
      /\ row.epoch = monitor.epoch /\ row.expected = baseline /\ row.lease = 0
    BY <1>3, NewRunFields DEF RunRow, ActiveStates, IInv
<1>5. /\ Attempted(row, <<>>) /\ <<>> \in Seq(AttemptRow)
      /\ Settled(attempts[r], <<>>) /\ ~(Len(<<>>) > Len(attempts[r]))
    BY <1>2, <1>4, NewAttempted, EmptySeq, SameSettled
<1>6. attempts' = [attempts EXCEPT ![r] = <<>>]
    BY <1>2 DEF EnqueueRun, IInv, TypeOK
<1>7. /\ run' \in [RunIds -> RunRow] /\ run'[r] = row
      /\ attempts' \in [RunIds -> Seq(AttemptRow)] /\ OneRun(r)
    BY <1>1, <1>2, <1>3, <1>4, <1>5, <1>6, SetAttempts DEF IInv
<1>8. /\ monitor' \in MonitorRow /\ monitor'.enabled /\ monitor'.epoch = monitor.epoch
      /\ monitor'.revision = monitor.revision /\ monitor'.next <= 0
    <2>1. monitor \in MonitorRow /\ monitor.enabled /\ 0 \in Int
        BY DEF EnqueueRun, IInv, TypeOK
    <2>2. CASE monitor.next > 0
        BY <2>1, <2>2, NextAtFields DEF EnqueueRun
    <2>3. CASE ~(monitor.next > 0)
        BY <2>1, <2>3 DEF EnqueueRun, MonitorRow
    <2>. QED BY <2>2, <2>3
<1>9. Current(run'[r], monitor', baseline')
    BY <1>4, <1>7, <1>8 DEF Current, EnqueueRun, baseline
<1>10. cooldown' \in Nat /\ runner' \in [Runners -> RunnerState] /\ FoundInv'
    BY DEF EnqueueRun, IInv, TypeOK, FoundInv
<1>. QED BY <1>2, <1>7, <1>8, <1>9, <1>10, OneRunStep DEF EnqueueRun

-----------------------------------------------------------------------------
(* Claims                                                                   *)

\* A deadline and its lease are numbers.
LEMMA LeaseBounds ==
    ASSUME NEW d \in CallerDeadlines
    PROVE  Deadline(d) \in Nat /\ Lease(d) \in Nat
    BY MonitorAssumption, Bounds DEF Deadline, Lease, Lower

\* A run put off until its origin has cooled keeps the invariant.
LEMMA PostponeKeeps ==
    ASSUME IInv, NEW p \in Runners, NEW r \in Active, Postpone(p, r),
           UNCHANGED <<snapshots, events, cooldown>>
    PROVE  Keeps
<1>1. r \in RunIds /\ run[r] \in RunRow /\ cooldown \in Nat
    BY OneActive, Typed DEF IInv
<1>2. PICK at : at = Higher(cooldown, run[r].next)
    OBVIOUS
<1>3. at \in Nat
    BY <1>1, <1>2 DEF Higher, RunRow
<1>4. /\ run' \in [RunIds -> RunRow] /\ attempts' \in [RunIds -> Seq(AttemptRow)]
      /\ monitor' \in MonitorRow /\ OneRun(r) /\ Current(run'[r], monitor', baseline')
    <2>1. /\ run' = [run EXCEPT ![r] = [@ EXCEPT !.state = "waiting_retry", !.lease = 0,
                                                 !.deadline = 0, !.next = at]]
          /\ attempts' = Closed(r, "interrupted") /\ monitor' = NextAt(monitor, at)
        BY <1>2 DEF Postpone
    <2>2. "interrupted" \in CloseStates
        BY DEF CloseStates
    <2>. QED BY <1>3, <2>1, <2>2, Waiting DEF IInv
<1>5. /\ runner' \in [Runners -> RunnerState] /\ FoundInv' /\ cooldown' \in Nat
    BY <1>1, RunnerRows, FoundStays DEF Postpone, IInv
<1>. QED BY <1>1, <1>4, <1>5, OneRunStep

(* A runner that starts to capture has nothing to commit yet.               *)
LEMMA HoldingFound ==
    ASSUME IInv, NEW p \in Runners, NEW r \in RunIds, NEW i \in Nat, NEW t \in Nat,
           runner' = Holding(p, r, i, t)
    PROVE  runner' \in [Runners -> RunnerState] /\ FoundInv'
<1>1. runner' \in [Runners -> RunnerState]
    BY RunnerRows DEF IInv
<1>2. \A q \in Runners : runner'[q].phase = "recorded" => q # p /\ runner'[q] = runner[q]
    BY DEF Holding, IInv, TypeOK, RunnerState
<1>. QED BY <1>1, <1>2 DEF IInv, FoundInv

\* A run taken over, with the attempt it interrupts and the one it opens, keeps
\* the invariant.
LEMMA RecoverKeeps ==
    ASSUME IInv, NEW p \in Runners, NEW r \in Active, NEW d \in CallerDeadlines, Recover(p, r, d),
           UNCHANGED <<snapshots, events, cooldown>>
    PROVE  Keeps
<1>1. /\ r \in RunIds /\ r \notin Ended /\ Active = {r} /\ run[r] \in RunRow
      /\ attempts[r] \in Seq(AttemptRow) /\ Current(run[r], monitor, baseline)
      /\ Attempted(run[r], attempts[r])
    BY OneActive, Typed DEF IInv
<1>2. PICK row : row = [run[r] EXCEPT !.state = "running", !.token = run[r].token + 1,
                                      !.lease = Lease(d), !.deadline = Deadline(d), !.next = 0]
    OBVIOUS
<1>3. /\ row \in RunRow /\ row.state = "running" /\ row.token = run[r].token + 1
      /\ row.epoch = run[r].epoch /\ row.revision = run[r].revision
      /\ row.expected = run[r].expected
    <2>1. run[r].token + 1 \in Nat
        BY <1>1 DEF RunRow
    <2>. QED BY <1>1, <1>2, <2>1, LeaseBounds DEF RunRow, ActiveStates
<1>4. run' = [run EXCEPT ![r] = row]
    BY <1>2 DEF Recover
<1>5. PICK b : b = Append(Close(attempts[r], "interrupted"),
                          [token |-> run[r].token + 1, state |-> "running"])
    OBVIOUS
<1>6. b \in Seq(AttemptRow) /\ Attempted(row, b) /\ Settled(attempts[r], b)
    BY <1>1, <1>3, <1>5, RetakeAttempted
<1>7. attempts' = [attempts EXCEPT ![r] = b]
    BY <1>1, <1>5 DEF Recover, Retaken, Closed, Close, IInv, TypeOK
<1>8. /\ run' \in [RunIds -> RunRow] /\ run'[r] = row
      /\ attempts' \in [RunIds -> Seq(AttemptRow)] /\ OneRun(r)
    <2>1. cooldown = 0
        BY <1>1 DEF Recover, HeldBack, Current, IInv, TypeOK, RunRow, Active, ActiveStates
    <2>. QED BY <1>1, <1>3, <1>4, <1>6, <1>7, <2>1, SetAttempts DEF IInv
<1>9. Current(run'[r], monitor', baseline')
    BY <1>1, <1>3, <1>8 DEF Current, Recover, baseline
<1>10. runner' \in [Runners -> RunnerState] /\ FoundInv'
    <2>1. Len(attempts[r]) + 1 \in Nat /\ run[r].token + 1 \in Nat
        BY <1>1, AttemptsSeq DEF RunRow
    <2>. QED BY <1>1, <2>1, HoldingFound DEF Recover
<1>11. monitor' \in MonitorRow /\ cooldown' \in Nat
    BY DEF Recover, IInv, TypeOK
<1>. QED BY <1>1, <1>8, <1>9, <1>10, <1>11, OneRunStep

(* The key of a new run, and what it takes of the Monitor.                  *)
LEMMA KeyTakenFields ==
    ASSUME TypeOK, NEW k \in {"none"} \cup Calls
    PROVE  /\ KeyOf(k) \in {"none", "scheduled"} \cup Keys
           /\ KeyTaken(k) \in MonitorRow
           /\ KeyTaken(k).enabled = monitor.enabled
           /\ KeyTaken(k).epoch = monitor.epoch
           /\ KeyTaken(k).revision = monitor.revision
<1>1. KeyOf(k) \in {"none", "scheduled"} \cup Keys
    BY DEF KeyOf, Calls
<1>2. monitor \in MonitorRow /\ (monitor.usedNow \/ monitor.next = 0) \in BOOLEAN
    BY DEF TypeOK
<1>. QED BY <1>1, <1>2 DEF KeyTaken, MonitorRow

\* A run that begins by waiting for its origin keeps the invariant.
LEMMA StartWaitingKeeps ==
    ASSUME IInv, NEW p \in Runners, NEW k \in {"none"} \cup Calls, NEW r \in Fresh, Active = {}, monitor.enabled,
           StartWaiting(p, k, r), UNCHANGED <<snapshots, events, cooldown>>
    PROVE  Keeps
<1>1. r \in RunIds /\ r \notin Ended /\ attempts[r] = <<>> /\ cooldown \in Nat
    BY OneFresh DEF IInv, TypeOK
<1>2. PICK row : row = [NewRun(KeyOf(k)) EXCEPT !.state = "waiting_retry", !.next = cooldown]
    OBVIOUS
<1>3. /\ row \in RunRow /\ row.state = "waiting_retry" /\ row.revision = monitor.revision
      /\ row.epoch = monitor.epoch /\ row.expected = baseline /\ row.next = cooldown
    <2>1. PICK new \in RunRow : /\ new = NewRun(KeyOf(k)) /\ new.revision = monitor.revision
                                /\ new.epoch = monitor.epoch /\ new.expected = baseline
        BY NewRunFields, KeyTakenFields DEF IInv
    <2>2. row = [new EXCEPT !.state = "waiting_retry", !.next = cooldown]
        BY <1>2, <2>1
    <2>. QED BY <1>1, <2>1, <2>2 DEF RunRow, ActiveStates
<1>4. /\ Attempted(row, <<>>) /\ <<>> \in Seq(AttemptRow)
      /\ Settled(attempts[r], <<>>) /\ ~(Len(<<>>) > Len(attempts[r]))
    BY <1>1, <1>3, NewAttempted, EmptySeq, SameSettled
<1>5. attempts' = [attempts EXCEPT ![r] = <<>>]
    BY <1>1 DEF StartWaiting, IInv, TypeOK
<1>6. /\ run' \in [RunIds -> RunRow] /\ run'[r] = row
      /\ attempts' \in [RunIds -> Seq(AttemptRow)] /\ OneRun(r)
    BY <1>1, <1>2, <1>3, <1>4, <1>5, SetAttempts DEF IInv, StartWaiting
<1>7. /\ monitor' \in MonitorRow /\ monitor'.enabled /\ monitor'.epoch = monitor.epoch
      /\ monitor'.revision = monitor.revision /\ monitor'.next = cooldown
    <2>1. PICK m \in MonitorRow : /\ m = KeyTaken(k) /\ m.enabled = monitor.enabled
                                  /\ m.epoch = monitor.epoch /\ m.revision = monitor.revision
        BY KeyTakenFields DEF IInv
    <2>2. monitor' = NextAt(m, cooldown) /\ cooldown \in Int
        BY <1>1, <2>1 DEF StartWaiting
    <2>. QED BY <2>1, <2>2, NextAtFields
<1>8. Current(run'[r], monitor', baseline')
    BY <1>1, <1>3, <1>6, <1>7 DEF Current, baseline
<1>9. runner' \in [Runners -> RunnerState] /\ FoundInv' /\ cooldown' \in Nat
    BY <1>1, RunnerRows, FoundStays DEF StartWaiting, IInv
<1>. QED BY <1>1, <1>6, <1>7, <1>8, <1>9, OneRunStep

\* A run that begins at once keeps the invariant.
LEMMA StartRunningKeeps ==
    ASSUME IInv, NEW p \in Runners, NEW k \in {"none"} \cup Calls, NEW r \in Fresh, NEW d \in CallerDeadlines,
           Active = {}, monitor.enabled,
           StartRunning(p, k, r, d), UNCHANGED <<snapshots, events, cooldown>>
    PROVE  Keeps
<1>1. r \in RunIds /\ r \notin Ended /\ monitor.epoch \in Nat
    BY OneFresh DEF IInv, TypeOK, MonitorRow
<1>2. PICK row : row = [NewRun(KeyOf(k)) EXCEPT !.state = "running",
                                                !.lease = Lease(d), !.deadline = Deadline(d)]
    OBVIOUS
<1>3. /\ row \in RunRow /\ row.state = "running" /\ row.revision = monitor.revision
      /\ row.epoch = monitor.epoch /\ row.expected = baseline /\ row.token = monitor.epoch
    <2>1. PICK new \in RunRow : /\ new = NewRun(KeyOf(k)) /\ new.revision = monitor.revision
                                /\ new.epoch = monitor.epoch /\ new.expected = baseline
                                /\ new.token = monitor.epoch
        BY NewRunFields, KeyTakenFields DEF IInv
    <2>2. row = [new EXCEPT !.state = "running", !.lease = Lease(d), !.deadline = Deadline(d)]
        BY <1>2, <2>1
    <2>. QED BY <2>1, <2>2, LeaseBounds DEF RunRow, ActiveStates
<1>4. PICK a : a = <<[token |-> monitor.epoch, state |-> "running"]>>
    OBVIOUS
<1>5. a \in Seq(AttemptRow) /\ Attempted(row, a)
    BY <1>3, <1>4, NewAttempted
<1>6. /\ run' \in [RunIds -> RunRow] /\ run'[r] = row
      /\ attempts' \in [RunIds -> Seq(AttemptRow)] /\ OneRun(r)
    <2>1. Settled(attempts[r], a) /\ cooldown = 0
        BY <1>5, OneFresh, FirstSettled DEF IInv, StartRunning
    <2>. QED BY <1>1, <1>2, <1>3, <1>4, <1>5, <2>1, SetAttempts DEF IInv, StartRunning
<1>7. /\ monitor' \in MonitorRow /\ monitor'.enabled /\ monitor'.epoch = monitor.epoch
      /\ monitor'.revision = monitor.revision
    <2>1. PICK m \in MonitorRow : /\ m = KeyTaken(k) /\ m.enabled = monitor.enabled
                                  /\ m.epoch = monitor.epoch /\ m.revision = monitor.revision
        BY KeyTakenFields DEF IInv
    <2>2. monitor' = NextAt(m, Interval) /\ Interval \in Int
        BY <2>1, Bounds DEF StartRunning
    <2>. QED BY <2>1, <2>2, NextAtFields
<1>8. Current(run'[r], monitor', baseline')
    BY <1>3, <1>6, <1>7 DEF Current, baseline
<1>9. runner' \in [Runners -> RunnerState] /\ FoundInv'
    BY <1>1, HoldingFound DEF StartRunning
<1>10. cooldown' \in Nat
    BY DEF IInv, TypeOK
<1>. QED BY <1>1, <1>6, <1>7, <1>8, <1>9, <1>10, OneRunStep

\* A claim from the queue keeps the invariant.
LEMMA ClaimKeeps ==
    ASSUME IInv, NEW p \in Runners, NEW d \in CallerDeadlines, Claim(p, d)
    PROVE  Keeps
<1>1. monitor.enabled /\ UNCHANGED <<snapshots, events, cooldown>>
    BY DEF Claim, Wanted
<1>2. CASE \E r \in Active : Postpone(p, r) \/ Recover(p, r, d)
    BY <1>1, <1>2, PostponeKeeps, RecoverKeeps
<1>3. CASE /\ Active = {}
           /\ \E r \in Fresh : StartWaiting(p, runner[p].key, r) \/ StartRunning(p, runner[p].key, r, d)
    <2>1. runner[p] \in RunnerState
        BY DEF IInv, TypeOK
    <2>2. PICK k \in {"none"} \cup Calls, r \in Fresh :
              k = runner[p].key /\ (StartWaiting(p, k, r) \/ StartRunning(p, k, r, d))
        BY <1>3, <2>1 DEF RunnerState, Calls
    <2>. QED BY <1>1, <1>3, <2>2, StartWaitingKeeps, StartRunningKeeps
<1>. QED BY <1>2, <1>3 DEF Claim

-----------------------------------------------------------------------------
(* The run a runner owns                                                    *)

\* A runner that owns its run owns the active one.
LEMMA Owned ==
    ASSUME IInv, NEW p \in Runners, Owns(p)
    PROVE  /\ runner[p].run \in RunIds /\ runner[p].run \in Active
           /\ run[runner[p].run].state = "running"
           /\ Len(attempts[runner[p].run]) = runner[p].attempt
<1>1. runner[p] \in RunnerState
    BY DEF IInv, TypeOK
<1>2. runner[p].run \in RunIds
    BY <1>1 DEF Owns, RunnerState
<1>. QED BY <1>2 DEF Owns, Active, ActiveStates

(* The heartbeat of the owner renews a lease; it touches nothing else.      *)
LEMMA HeartbeatKeeps ==
    ASSUME IInv, NEW p \in Runners, Heartbeat(p)
    PROVE  Keeps
<1>1. CASE Executes(p)
    <2>1. PICK r \in Active : /\ r = runner[p].run /\ r \in RunIds /\ run[r].state = "running"
                              /\ run' = [run EXCEPT ![r].lease = Lower(LeaseTicks, run[r].deadline)]
        BY <1>1, Owned DEF Executes, Heartbeat
    <2>2. /\ r \notin Ended /\ Active = {r} /\ run[r] \in RunRow /\ attempts[r] \in Seq(AttemptRow)
          /\ Current(run[r], monitor, baseline) /\ Attempted(run[r], attempts[r])
        BY OneActive, Typed DEF IInv
    <2>3. PICK n : n = Lower(LeaseTicks, run[r].deadline)
        OBVIOUS
    <2>4. n \in Nat
        BY <2>2, <2>3, Bounds DEF Lower, RunRow
    <2>5. PICK row : row = [run[r] EXCEPT !.lease = n]
        OBVIOUS
    <2>6. /\ row \in RunRow /\ row.state = "running" /\ row.token = run[r].token
          /\ row.epoch = run[r].epoch /\ row.revision = run[r].revision
          /\ row.expected = run[r].expected
        BY <2>1, <2>2, <2>4, <2>5 DEF RunRow
    <2>7. Attempted(row, attempts[r])
        BY <2>1, <2>2, <2>6 DEF Attempted
    <2>8. run' = [run EXCEPT ![r] = row] /\ attempts' = [attempts EXCEPT ![r] = attempts[r]]
        BY <2>1, <2>3, <2>5 DEF Heartbeat, IInv, TypeOK
    <2>9. /\ run' \in [RunIds -> RunRow] /\ run'[r] = row
          /\ attempts' \in [RunIds -> Seq(AttemptRow)] /\ OneRun(r)
        BY <2>1, <2>2, <2>6, <2>7, <2>8, SetAttempts, SameSettled DEF IInv
    <2>10. Current(run'[r], monitor', baseline')
        BY <2>2, <2>6, <2>9 DEF Current, Heartbeat, baseline
    <2>11. /\ monitor' \in MonitorRow /\ cooldown' \in Nat
           /\ runner' \in [Runners -> RunnerState] /\ FoundInv'
        BY <1>1 DEF Heartbeat, IInv, TypeOK, FoundInv
    <2>. QED BY <2>1, <2>9, <2>10, <2>11, OneRunStep DEF Heartbeat
<1>2. CASE ~Executes(p)
    <2>1. PICK w : w = [runner[p] EXCEPT !.abort = "cancelled"]
        OBVIOUS
    <2>2. runner[p] \in RunnerState /\ runner[p].phase = "capturing"
        BY DEF IInv, TypeOK, Heartbeat, Capturing
    <2>3. w \in RunnerState /\ w.phase = "capturing"
        BY <2>1, <2>2 DEF RunnerState
    <2>4. runner' = [runner EXCEPT ![p] = w] /\ UNCHANGED durable
        BY <1>2, <2>1 DEF Heartbeat, durable
    <2>. QED BY <2>3, <2>4, RunnerAlone
<1>. QED BY <1>1, <1>2

(* A runner goes idle whatever it did.                                      *)
LEMMA GoesIdle ==
    ASSUME IInv, NEW p \in Runners, runner' = [runner EXCEPT ![p] = Idle]
    PROVE  runner' \in [Runners -> RunnerState] /\ FoundInv'
    BY RunnerRows, FoundStays DEF IInv

\* An interrupted attempt keeps the invariant.
LEMMA InterruptKeeps ==
    ASSUME IInv, NEW p \in Runners, NEW r \in Active, Interrupt(r),
           runner' = [runner EXCEPT ![p] = Idle], UNCHANGED <<snapshots, events, cooldown>>
    PROVE  Keeps
<1>1. r \in RunIds /\ cooldown \in Nat /\ "interrupted" \in CloseStates
    BY OneActive DEF IInv, TypeOK, CloseStates
<1>2. /\ run' \in [RunIds -> RunRow] /\ attempts' \in [RunIds -> Seq(AttemptRow)]
      /\ monitor' \in MonitorRow /\ OneRun(r) /\ Current(run'[r], monitor', baseline')
    BY <1>1, Waiting DEF IInv, Interrupt
<1>. QED BY <1>1, <1>2, GoesIdle, OneRunStep

\* The end of a run without a snapshot keeps the invariant.
LEMMA FinishKeeps ==
    ASSUME IInv, NEW p \in Runners, NEW r \in Active, NEW s \in EndStates, FinishRun(r, s),
           runner' = [runner EXCEPT ![p] = Idle], UNCHANGED <<snapshots, events, cooldown>>
    PROVE  Keeps
<1>1. r \in RunIds /\ cooldown' \in Nat
    BY OneActive DEF IInv, TypeOK
<1>2. /\ run' \in [RunIds -> RunRow] /\ attempts' \in [RunIds -> Seq(AttemptRow)]
      /\ monitor' \in MonitorRow /\ OneRun(r) /\ run'[r].state = s
    BY Finishing DEF IInv
<1>3. run'[r].state \notin ActiveStates
    BY <1>2 DEF ActiveStates, EndStates
<1>. QED BY <1>1, <1>2, <1>3, GoesIdle, OneRunStep

\* A runner that gives up keeps the invariant.
LEMMA GiveUpKeeps ==
    ASSUME IInv, NEW p \in Runners, NEW timedOut \in BOOLEAN, GiveUp(p, timedOut)
    PROVE  Keeps
<1>1. runner' = [runner EXCEPT ![p] = Idle] /\ UNCHANGED <<snapshots, events, cooldown>>
    BY DEF GiveUp
<1>2. CASE ~Owns(p)
    <2>1. UNCHANGED <<run, attempts, monitor>>
        BY <1>2 DEF GiveUp
    <2>. QED BY <1>1, <2>1, RunnerDropped DEF durable
<1>3. CASE Owns(p) /\ runner[p].abort = "shutdown"
    <2>1. PICK r \in Active : r = runner[p].run /\ Interrupt(r)
        BY <1>3, Owned DEF GiveUp
    <2>. QED BY <1>1, <2>1, InterruptKeeps
<1>4. CASE Owns(p) /\ runner[p].abort # "shutdown"
    <2>1. PICK r \in Active, s \in EndStates : FinishRun(r, s)
        <3>1. PICK r \in Active : r = runner[p].run
            BY <1>4, Owned
        <3>2. PICK s : s = IF timedOut \/ run[r].deadline = 0 THEN "expired" ELSE "cancelled"
            OBVIOUS
        <3>3. s \in EndStates
            BY <3>2 DEF EndStates
        <3>4. FinishRun(r, s)
            BY <1>4, <3>1, <3>2 DEF GiveUp
        <3>. QED BY <3>3, <3>4
    <2>. QED BY <1>1, <2>1, FinishKeeps
<1>. QED BY <1>2, <1>3, <1>4

(* The source asked for a wait: it is what the run found.                   *)
LEMMA DeferKeeps ==
    ASSUME IInv, NEW p \in Runners, runner[p].phase = "recorded", Executes(p), Defer(p),
           runner' = [runner EXCEPT ![p] = Idle]
    PROVE  Keeps
<1>1. PICK r \in Active : r = runner[p].run /\ r \in RunIds
    BY Owned DEF Executes
<1>2. runner[p].found \in Finding
    BY DEF IInv, FoundInv
<1>3. PICK at \in Nat : at = runner[p].found.wait
    BY <1>2 DEF Finding
<1>4. cooldown' \in Nat
    BY <1>3 DEF Defer, Higher, IInv, TypeOK
<1>5. /\ run' \in [RunIds -> RunRow] /\ attempts' \in [RunIds -> Seq(AttemptRow)]
      /\ monitor' \in MonitorRow /\ OneRun(r) /\ Current(run'[r], monitor', baseline')
    <2>1. /\ run' = [run EXCEPT ![r] = [@ EXCEPT !.state = "waiting_retry", !.lease = 0,
                                                 !.deadline = 0, !.next = at]]
          /\ attempts' = Closed(r, "failed") /\ monitor' = NextAt(monitor, at)
          /\ UNCHANGED snapshots
        BY <1>1, <1>3 DEF Defer, Deferred
    <2>2. "failed" \in CloseStates
        BY DEF CloseStates
    <2>. QED BY <2>1, <2>2, Waiting DEF IInv
<1>. QED BY <1>1, <1>4, <1>5, GoesIdle, OneRunStep DEF Defer

-----------------------------------------------------------------------------
(* The history                                                              *)

(* The page w was the same bytes as u, read anew under the same rules.      *)
Reread(u, w) ==
    /\ w.source = u.source /\ w.source # NoHash
    /\ RulesOf[w.revision] = RulesOf[u.revision]

(* What EventsTellTheChanges says of snapshots s and events e, one by one.  *)
Told(s, e) ==
    /\ \A i \in DOMAIN e : /\ e[i].to \in DOMAIN s
                           /\ e[i].to = 1 \/ ~Reread(s[e[i].to - 1], s[e[i].to])
                           /\ e[i].run = s[e[i].to].run
                           /\ e[i].from = e[i].to - 1
                           /\ i > 1 => e[i - 1].to < e[i].to
    /\ \A v \in DOMAIN s : v = 1 \/ ~Reread(s[v - 1], s[v]) => \E i \in DOMAIN e : e[i].to = v

\* EventsTellTheChanges as a relation of the two histories alone.
LEMMA ToldIsTold ==
    EventsTellTheChanges <=> Told(snapshots, events)
<1>. DEFINE told == {events[i].to : i \in DOMAIN events}
            new == {v \in DOMAIN snapshots : v = 1 \/ ~Reread(snapshots[v - 1], snapshots[v])}
            each == \A i \in DOMAIN events :
                        /\ events[i].run = snapshots[events[i].to].run
                        /\ events[i].from = events[i].to - 1
                        /\ i > 1 => events[i - 1].to < events[i].to
<1>1. EventsTellTheChanges <=> told = new /\ each
    BY DEF EventsTellTheChanges, Reread
<1>2. Told(snapshots, events) <=> told \subseteq new /\ new \subseteq told /\ each
    BY DEF Told
<1>. QED BY <1>1, <1>2

(* A snapshot more, told by one event if it is not a rereading.             *)
LEMMA ToldGrows ==
    ASSUME NEW s \in Seq(SnapshotRow), NEW e \in Seq(EventRow), Told(s, e),
           NEW sn \in SnapshotRow, NEW ev \in EventRow,
           ev.to = Len(s) + 1, ev.from = Len(s), ev.run = sn.run,
           NEW e2, e2 = e \/ e2 = Append(e, ev),
           e2 = Append(e, ev) <=> Len(s) = 0 \/ ~Reread(s[Len(s)], sn)
    PROVE  Told(Append(s, sn), e2)
<1>. DEFINE s2 == Append(s, sn)
<1>1. /\ Len(s) \in Nat /\ DOMAIN s = 1 .. Len(s)
      /\ Len(e) \in Nat /\ DOMAIN e = 1 .. Len(e) /\ e \in [1 .. Len(e) -> EventRow]
    BY LenProperties
<1>2. /\ s2 \in Seq(SnapshotRow) /\ Len(s2) = Len(s) + 1
      /\ \A v \in DOMAIN s : s2[v] = s[v]
      /\ s2[Len(s) + 1] = sn
    BY <1>1, AppendProperties
<1>3. DOMAIN s2 = 1 .. Len(s) + 1
    BY <1>2, LenProperties
<1>. HIDE DEF s2
<1>4. \A i \in DOMAIN e : e[i].to \in DOMAIN s /\ e[i].to \in DOMAIN s2
    BY <1>1, <1>3 DEF Told
<1>5. \A i \in DOMAIN e : /\ e[i].to = 1 \/ ~Reread(s2[e[i].to - 1], s2[e[i].to])
                          /\ e[i].run = s2[e[i].to].run
    <2>. SUFFICES ASSUME NEW i \in DOMAIN e
                  PROVE  /\ e[i].to = 1 \/ ~Reread(s2[e[i].to - 1], s2[e[i].to])
                         /\ e[i].run = s2[e[i].to].run
        OBVIOUS
    <2>1. e[i].run = s2[e[i].to].run
        BY <1>2, <1>4 DEF Told
    <2>2. CASE e[i].to # 1
        <3>1. e[i].to - 1 \in DOMAIN s /\ e[i].to \in DOMAIN s
            BY <1>1, <1>4, <2>2
        <3>2. s2[e[i].to - 1] = s[e[i].to - 1] /\ s2[e[i].to] = s[e[i].to]
            BY <1>2, <3>1
        <3>3. ~Reread(s[e[i].to - 1], s[e[i].to])
            BY <2>2 DEF Told
        <3>. QED BY <2>1, <3>2, <3>3
    <2>. QED BY <2>1, <2>2
<1>6. \A v \in DOMAIN s : v = 1 \/ ~Reread(s2[v - 1], s2[v]) => \E i \in DOMAIN e : e[i].to = v
    <2>. SUFFICES ASSUME NEW v \in DOMAIN s, v = 1 \/ ~Reread(s2[v - 1], s2[v])
                  PROVE  \E i \in DOMAIN e : e[i].to = v
        OBVIOUS
    <2>1. v # 1 => s2[v - 1] = s[v - 1] /\ s2[v] = s[v]
        BY <1>1, <1>2
    <2>. QED BY <2>1 DEF Told
<1>7. Len(s) + 1 = 1 \/ ~Reread(s2[Len(s) + 1 - 1], s2[Len(s) + 1])
          <=> Len(s) = 0 \/ ~Reread(s[Len(s)], sn)
    <2>1. CASE Len(s) = 0
        BY <2>1
    <2>2. CASE Len(s) # 0
        <3>1. Len(s) \in DOMAIN s /\ Len(s) + 1 - 1 = Len(s)
            BY <1>1, <2>2
        <3>2. s2[Len(s) + 1 - 1] = s[Len(s)] /\ s2[Len(s) + 1] = sn
            BY <1>2, <3>1
        <3>. QED BY <1>1, <2>2, <3>2
    <2>. QED BY <2>1, <2>2
<1>8. CASE Len(s) = 0 \/ ~Reread(s[Len(s)], sn)
    <2>1. e2 = Append(e, ev)
        BY <1>8
    <2>2. /\ Append(e, ev) \in Seq(EventRow) /\ Len(Append(e, ev)) = Len(e) + 1
          /\ \A i \in 1 .. Len(e) : Append(e, ev)[i] = e[i]
          /\ Append(e, ev)[Len(e) + 1] = ev
        BY AppendProperties
    <2>3. DOMAIN e2 = 1 .. Len(e) + 1
        BY <2>1, <2>2, LenProperties
    <2>4. \A i \in DOMAIN e : e2[i] = e[i]
        BY <1>1, <2>1, <2>2
    <2>5. e2[Len(e) + 1] = ev
        BY <2>1, <2>2
    <2>6. \A i \in DOMAIN e2 : i \in DOMAIN e \/ i = Len(e) + 1
        BY <1>1, <2>3
    <2>7. Len(s) + 1 \in DOMAIN s2
        BY <1>1, <1>3
    <2>8. \A i \in DOMAIN e : i > 1 => e2[i - 1] = e[i - 1] /\ e[i - 1].to < e[i].to
        BY <1>1, <2>4 DEF Told
    <2>9. Len(e) + 1 > 1 => e2[Len(e) + 1 - 1].to < ev.to
        <3>. SUFFICES ASSUME Len(e) + 1 > 1
                      PROVE  e2[Len(e) + 1 - 1].to < ev.to
            OBVIOUS
        <3>1. Len(e) \in DOMAIN e /\ Len(e) + 1 - 1 = Len(e)
            BY <1>1
        <3>2. e2[Len(e) + 1 - 1] = e[Len(e)] /\ e[Len(e)].to \in 1 .. Len(s)
            BY <1>1, <1>4, <2>4, <3>1
        <3>. QED BY <1>1, <3>2
    <2>10. \A i \in DOMAIN e2 : /\ e2[i].to \in DOMAIN s2
                                /\ e2[i].to = 1 \/ ~Reread(s2[e2[i].to - 1], s2[e2[i].to])
                                /\ e2[i].run = s2[e2[i].to].run
                                /\ e2[i].from = e2[i].to - 1
                                /\ i > 1 => e2[i - 1].to < e2[i].to
        <3>. SUFFICES ASSUME NEW i \in DOMAIN e2
                      PROVE  /\ e2[i].to \in DOMAIN s2
                             /\ e2[i].to = 1 \/ ~Reread(s2[e2[i].to - 1], s2[e2[i].to])
                             /\ e2[i].run = s2[e2[i].to].run
                             /\ e2[i].from = e2[i].to - 1
                             /\ i > 1 => e2[i - 1].to < e2[i].to
            OBVIOUS
        <3>1. CASE i \in DOMAIN e
            <4>1. e2[i] = e[i] /\ e[i].from = e[i].to - 1
                BY <2>4, <3>1 DEF Told
            <4>2. i > 1 => e2[i - 1].to < e2[i].to
                BY <2>8, <3>1, <4>1
            <4>. QED BY <1>4, <1>5, <3>1, <4>1, <4>2
        <3>2. CASE i = Len(e) + 1
            <4>1. e2[i] = ev /\ ev.from = ev.to - 1 /\ ev.run = s2[ev.to].run
                BY <1>1, <1>2, <2>5, <3>2
            <4>2. ev.to = 1 \/ ~Reread(s2[ev.to - 1], s2[ev.to])
                BY <1>7, <1>8
            <4>. QED BY <2>7, <2>9, <3>2, <4>1, <4>2
        <3>. QED BY <2>6, <3>1, <3>2
    <2>11. \A v \in DOMAIN s2 : v = 1 \/ ~Reread(s2[v - 1], s2[v]) => \E i \in DOMAIN e2 : e2[i].to = v
        <3>. SUFFICES ASSUME NEW v \in DOMAIN s2, v = 1 \/ ~Reread(s2[v - 1], s2[v])
                      PROVE  \E i \in DOMAIN e2 : e2[i].to = v
            OBVIOUS
        <3>1. CASE v \in DOMAIN s
            <4>1. PICK i \in DOMAIN e : e[i].to = v
                BY <1>6, <3>1
            <4>2. i \in DOMAIN e2 /\ e2[i].to = v
                BY <1>1, <2>3, <2>4, <4>1
            <4>. QED BY <4>2
        <3>2. CASE v = Len(s) + 1
            <4>1. Len(e) + 1 \in DOMAIN e2 /\ e2[Len(e) + 1].to = v
                BY <1>1, <2>3, <2>5, <3>2
            <4>. QED BY <4>1
        <3>. QED BY <1>1, <1>3, <3>1, <3>2
    <2>12. Told(s2, e2)
        BY <2>10, <2>11 DEF Told
    <2>. QED BY <2>12 DEF s2
<1>9. CASE ~(Len(s) = 0 \/ ~Reread(s[Len(s)], sn))
    <2>1. e2 = e
        BY <1>9
    <2>2. \A v \in DOMAIN s2 : v = 1 \/ ~Reread(s2[v - 1], s2[v]) => v \in DOMAIN s
        BY <1>1, <1>3, <1>7, <1>9
    <2>3. \A i \in DOMAIN e : e[i].from = e[i].to - 1 /\ (i > 1 => e[i - 1].to < e[i].to)
        BY DEF Told
    <2>4. Told(s2, e)
        BY <1>4, <1>5, <1>6, <2>2, <2>3 DEF Told
    <2>. QED BY <2>1, <2>4 DEF s2
<1>. QED BY <1>8, <1>9

(* The last snapshot is of the run that completed now, the others of runs   *)
(* that were complete before.                                               *)
LEMMA SnapshotGrows ==
    ASSUME TypeOK, SnapshotsAreOfCompletedRuns, NEW r \in RunIds, OneRun(r),
           run[r].state # "completed", run'[r].state = "completed",
           NEW sn \in SnapshotRow, sn.run = r, sn.attempt = Len(attempts'[r]),
           attempts'[r][sn.attempt].state = "succeeded", run'[r].expected = Len(snapshots),
           snapshots' = Append(snapshots, sn)
    PROVE  SnapshotsAreOfCompletedRuns'
<1>1. snapshots \in Seq(SnapshotRow)
    BY DEF TypeOK
<1>2. /\ Len(snapshots) \in Nat /\ DOMAIN snapshots = 1 .. Len(snapshots)
      /\ \A v \in DOMAIN snapshots : snapshots[v].run \in RunIds
    <2>1. /\ Len(snapshots) \in Nat /\ DOMAIN snapshots = 1 .. Len(snapshots)
          /\ snapshots \in [1 .. Len(snapshots) -> SnapshotRow]
        BY <1>1, LenProperties
    <2>. QED BY <2>1 DEF SnapshotRow
<1>3. /\ snapshots' \in Seq(SnapshotRow) /\ Len(snapshots') = Len(snapshots) + 1
      /\ \A v \in DOMAIN snapshots : snapshots'[v] = snapshots[v]
      /\ snapshots'[Len(snapshots) + 1] = sn
    BY <1>1, <1>2, AppendProperties
<1>4. DOMAIN snapshots' = 1 .. Len(snapshots) + 1
    BY <1>3, LenProperties
<1>5. \A v \in DOMAIN snapshots :
          LET s == snapshots[v] IN
          /\ s.run # r /\ run'[s.run].state = "completed"
          /\ s.attempt = Len(attempts'[s.run])
          /\ attempts'[s.run][s.attempt].state = "succeeded" /\ run'[s.run].expected = v - 1
          /\ \A u \in DOMAIN snapshots : snapshots[u].run = s.run => u = v
    <2>. SUFFICES ASSUME NEW v \in DOMAIN snapshots
                  PROVE  /\ snapshots[v].run # r /\ run'[snapshots[v].run].state = "completed"
                         /\ snapshots[v].attempt = Len(attempts'[snapshots[v].run])
                         /\ attempts'[snapshots[v].run][snapshots[v].attempt].state = "succeeded"
                         /\ run'[snapshots[v].run].expected = v - 1
                         /\ \A u \in DOMAIN snapshots : snapshots[u].run = snapshots[v].run => u = v
        OBVIOUS
    <2>1. snapshots[v].run # r
        BY DEF SnapshotsAreOfCompletedRuns
    <2>2. run'[snapshots[v].run] = run[snapshots[v].run] /\ attempts'[snapshots[v].run] = attempts[snapshots[v].run]
        BY <1>2, <2>1 DEF OneRun
    <2>. QED BY <2>1, <2>2 DEF SnapshotsAreOfCompletedRuns
<1>6. \A v \in DOMAIN snapshots' : v \in DOMAIN snapshots \/ v = Len(snapshots) + 1
    BY <1>2, <1>4
<1>. SUFFICES ASSUME NEW v \in DOMAIN snapshots'
              PROVE  /\ run'[snapshots'[v].run].state = "completed"
                     /\ snapshots'[v].attempt = Len(attempts'[snapshots'[v].run])
                     /\ attempts'[snapshots'[v].run][snapshots'[v].attempt].state = "succeeded"
                     /\ run'[snapshots'[v].run].expected = v - 1
                     /\ \A u \in DOMAIN snapshots' : snapshots'[u].run = snapshots'[v].run => u = v
    BY DEF SnapshotsAreOfCompletedRuns
<1>7. CASE v \in DOMAIN snapshots
    <2>1. snapshots'[v] = snapshots[v] /\ snapshots[v].run # r
        BY <1>3, <1>5, <1>7
    <2>2. \A u \in DOMAIN snapshots' : snapshots'[u].run = snapshots'[v].run => u = v
        BY <1>3, <1>5, <1>6, <1>7, <2>1
    <2>. QED BY <1>5, <1>7, <2>1, <2>2
<1>8. CASE v = Len(snapshots) + 1
    <2>1. snapshots'[v] = sn
        BY <1>3, <1>8
    <2>2. \A u \in DOMAIN snapshots' : snapshots'[u].run = snapshots'[v].run => u = v
        BY <1>3, <1>5, <1>6, <1>8, <2>1
    <2>. QED BY <2>1, <2>2
<1>. QED BY <1>6, <1>7, <1>8

(* The run completes and its snapshot is the baseline.                      *)
LEMMA CommitKeeps ==
    ASSUME IInv, NEW p \in Runners, runner[p].phase = "recorded", Executes(p), Commit(p),
           runner' = [runner EXCEPT ![p] = Idle]
    PROVE  Keeps
<1>1. PICK r \in Active : /\ r = runner[p].run /\ r \in RunIds /\ run[r].state = "running"
                          /\ Len(attempts[r]) = runner[p].attempt
    BY Owned DEF Executes
<1>2. PICK found \in Finding : found = runner[p].found
    BY DEF IInv, FoundInv
<1>3. FinishRun(r, "completed") /\ "completed" \in EndStates /\ UNCHANGED cooldown
    BY <1>1 DEF Commit, EndStates
<1>4. CASE ~(found.valid /\ Changed(r, found))
    <2>1. UNCHANGED <<snapshots, events>>
        BY <1>1, <1>2, <1>4 DEF Commit
    <2>. QED BY <1>3, <2>1, FinishKeeps
<1>5. CASE found.valid /\ Changed(r, found)
    <2>1. PICK sn : sn = Snapshot(p)
        OBVIOUS
    <2>2. snapshots' = Append(snapshots, sn)
        BY <1>1, <1>2, <1>5, <2>1 DEF Commit
    <2>3. /\ run' \in [RunIds -> RunRow] /\ attempts' \in [RunIds -> Seq(AttemptRow)]
          /\ monitor' \in MonitorRow /\ OneRun(r) /\ run'[r].state = "completed"
          /\ run'[r].expected = run[r].expected
          /\ attempts'[r] = Close(attempts[r], AttemptEnd("completed"))
        BY <1>3, Finishing DEF IInv
    <2>4. AttemptEnd("completed") = "succeeded"
        BY Zenon DEF AttemptEnd
    <2>5. /\ run[r] \in RunRow /\ attempts[r] \in Seq(AttemptRow) /\ Attempted(run[r], attempts[r])
          /\ Len(attempts[r]) \in Nat /\ "succeeded" \in CloseStates
        BY OneActive, Typed, AttemptsSeq DEF IInv, CloseStates
    <2>6. /\ Len(attempts'[r]) = Len(attempts[r])
          /\ attempts'[r][Len(attempts[r])].state = "succeeded"
        BY <1>1, <2>3, <2>4, <2>5, CloseFields
    <2>7. runner[p] \in RunnerState
        BY DEF IInv, TypeOK
    <2>8. /\ sn \in SnapshotRow /\ sn.run = r /\ sn.attempt = Len(attempts[r])
          /\ sn.source = found.source /\ sn.revision = run[r].revision
        BY <1>1, <1>2, <2>1, <2>5, <2>7 DEF Snapshot, SnapshotRow, RunRow, Finding, RunnerState
    <2>8a. run[r].expected = Len(snapshots)
        BY DEF IInv, RunPart, RunsInv, baseline
    <2>9. SnapshotsAreOfCompletedRuns'
        BY <1>1, <2>2, <2>3, <2>6, <2>8, <2>8a, SnapshotGrows DEF IInv, HistoryPart
    <2>10. snapshots \in Seq(SnapshotRow) /\ events \in Seq(EventRow) /\ baseline \in Nat
        BY Typed DEF IInv, TypeOK
    <2>11. PICK ev : ev = Event(r)
        OBVIOUS
    <2>12. ev \in EventRow /\ ev.to = baseline + 1 /\ ev.from = baseline /\ ev.run = sn.run
        BY <1>1, <2>8, <2>10, <2>11 DEF Event, EventRow
    <2>13. Announced(r, found) <=> baseline = 0 \/ ~Reread(snapshots[baseline], sn)
        BY <2>8 DEF Announced, RulesChanged, SameSource, Reread
    <2>14. PICK e2 : e2 = events'
        OBVIOUS
    <2>15. e2 = IF Announced(r, found) THEN Append(events, ev) ELSE events
        BY <1>1, <1>2, <1>5, <2>11, <2>14 DEF Commit
    <2>16. Append(events, ev) \in Seq(EventRow) /\ Append(events, ev) # events
        <3>1. Append(events, ev) \in Seq(EventRow) /\ Len(Append(events, ev)) = Len(events) + 1
            BY <2>10, <2>12, AppendProperties
        <3>2. Len(events) \in Nat
            BY <2>10, LenProperties
        <3>. QED BY <3>1, <3>2
    <2>17. e2 = Append(events, ev) <=> Len(snapshots) = 0 \/ ~Reread(snapshots[Len(snapshots)], sn)
        BY <2>13, <2>15, <2>16 DEF baseline
    <2>18. Told(snapshots, events)
        BY ToldIsTold DEF IInv, HistoryPart
    <2>19. Told(Append(snapshots, sn), e2)
        <3>1. ev.to = Len(snapshots) + 1 /\ ev.from = Len(snapshots)
            BY <2>12 DEF baseline
        <3>2. e2 = events \/ e2 = Append(events, ev)
            BY <2>15
        <3>3. PICK s \in Seq(SnapshotRow) : s = snapshots
            BY <2>10
        <3>4. PICK e \in Seq(EventRow) : e = events
            BY <2>10
        <3>5. /\ Told(s, e) /\ ev.to = Len(s) + 1 /\ ev.from = Len(s)
              /\ e2 = e \/ e2 = Append(e, ev)
              /\ e2 = Append(e, ev) <=> Len(s) = 0 \/ ~Reread(s[Len(s)], sn)
            BY <2>17, <2>18, <3>1, <3>2, <3>3, <3>4
        <3>6. Told(Append(s, sn), e2)
            BY <2>8, <2>12, <3>5, ToldGrows
        <3>. QED BY <3>3, <3>6
    <2>20. Told(snapshots, events)'
        BY <2>2, <2>14, <2>19
    <2>21. EventsTellTheChanges'
        BY <2>20, ToldIsTold, PTL
    <2>22. runner' \in [Runners -> RunnerState] /\ FoundInv'
        BY GoesIdle
    <2>23. TypeOK'
        <3>1. snapshots' \in Seq(SnapshotRow)
            BY <2>2, <2>8, <2>10, AppendProperties
        <3>2. events' \in Seq(EventRow)
            BY <2>10, <2>14, <2>15, <2>16
        <3>. QED BY <1>3, <2>3, <2>22, <3>1, <3>2 DEF IInv, TypeOK
    <2>24. RunPart'
        <3>1. run'[r].state \notin ActiveStates
            BY <2>3 DEF ActiveStates
        <3>. QED BY <1>1, <2>3, <2>23, <3>1, OneRunKeeps DEF IInv
    <2>25. RunsSettle /\ QuietStarts
        BY <1>1, <2>3, OneRunSettles DEF IInv
    <2>. QED BY <2>9, <2>21, <2>22, <2>23, <2>24, <2>25 DEF IInv, HistoryPart, Keeps
<1>. QED BY <1>4, <1>5

-----------------------------------------------------------------------------
(* Time, and the steps together                                             *)

\* The clock counts down to zero.
LEMMA LessFields ==
    ASSUME NEW t \in Nat
    PROVE  Less(t) \in Nat /\ (t = 0 => Less(t) = 0) /\ (t > 0 => Less(t) = t - 1)
    BY DEF Less

(* Every timer runs together, so no wait outlasts what looks for its end.   *)
LEMMA TickKeeps ==
    ASSUME IInv, Tick
    PROVE  Keeps
<1>1. \A r \in RunIds : run[r] \in RunRow /\ attempts[r] \in Seq(AttemptRow)
    BY Typed DEF IInv
<1>2. \A r \in RunIds : run'[r] = [run[r] EXCEPT !.lease = Less(run[r].lease),
                                                 !.deadline = Less(run[r].deadline),
                                                 !.next = Less(run[r].next)]
    BY DEF Tick
<1>3. \A r \in RunIds :
          /\ run'[r] \in RunRow /\ run'[r].state = run[r].state /\ run'[r].token = run[r].token
          /\ run'[r].epoch = run[r].epoch /\ run'[r].revision = run[r].revision
          /\ run'[r].expected = run[r].expected
          /\ run'[r].lease = Less(run[r].lease) /\ run'[r].next = Less(run[r].next)
    <2>. SUFFICES ASSUME NEW r \in RunIds
                  PROVE  /\ run'[r] \in RunRow /\ run'[r].state = run[r].state
                         /\ run'[r].token = run[r].token
                         /\ run'[r].epoch = run[r].epoch /\ run'[r].revision = run[r].revision
                         /\ run'[r].expected = run[r].expected
                         /\ run'[r].lease = Less(run[r].lease) /\ run'[r].next = Less(run[r].next)
        OBVIOUS
    <2>1. /\ Less(run[r].lease) \in Nat /\ Less(run[r].deadline) \in Nat /\ Less(run[r].next) \in Nat
        BY <1>1, LessFields DEF RunRow
    <2>. QED BY <1>1, <1>2, <2>1 DEF RunRow
<1>4. /\ monitor' = [monitor EXCEPT !.next = Higher(-1, monitor.next - 1), !.usedNow = FALSE]
      /\ monitor \in MonitorRow
    BY DEF Tick, IInv, TypeOK
<1>5. /\ monitor' \in MonitorRow /\ monitor'.enabled = monitor.enabled
      /\ monitor'.epoch = monitor.epoch /\ monitor'.revision = monitor.revision
      /\ monitor'.next = Higher(-1, monitor.next - 1)
    <2>1. Higher(-1, monitor.next - 1) \in Int
        BY <1>4 DEF MonitorRow, Higher
    <2>. QED BY <1>4, <2>1 DEF MonitorRow
<1>6. \A p \in Runners : /\ runner'[p] \in RunnerState /\ runner'[p].phase = runner[p].phase
                         /\ runner[p].found \in Finding => runner'[p].found \in Finding
    <2>. SUFFICES ASSUME NEW p \in Runners
                  PROVE  /\ runner'[p] \in RunnerState /\ runner'[p].phase = runner[p].phase
                         /\ runner[p].found \in Finding => runner'[p].found \in Finding
        OBVIOUS
    <2>1. PICK found : found = [runner[p].found EXCEPT !.wait = Less(runner[p].found.wait)]
        OBVIOUS
    <2>2. runner[p] \in RunnerState /\ runner[p].found \in Finding \cup {NoFinding}
        BY DEF IInv, TypeOK, RunnerState
    <2>3. runner[p].found \in Finding => found \in Finding
        <3>1. runner[p].found \in Finding => Less(runner[p].found.wait) \in Nat
            BY LessFields DEF Finding
        <3>. QED BY <2>1, <3>1 DEF Finding
    <2>4. runner[p].found = NoFinding => found = NoFinding
        <3>1. NoFinding.wait = 0 /\ Less(0) = 0
            BY LessFields DEF NoFinding
        <3>. QED BY <2>1, <3>1 DEF NoFinding
    <2>5. runner'[p] = [runner[p] EXCEPT !.found = found]
        BY <2>1, <2>2 DEF Tick, RunnerState
    <2>. QED BY <2>2, <2>3, <2>4, <2>5 DEF RunnerState
<1>7. TypeOK'
    <2>1. run' \in [RunIds -> RunRow]
        BY <1>3 DEF Tick
    <2>2. runner' \in [Runners -> RunnerState]
        BY <1>6 DEF Tick
    <2>3. cooldown' \in Nat
        BY LessFields DEF Tick, IInv, TypeOK
    <2>4. UNCHANGED <<attempts, snapshots, events>>
        BY DEF Tick
    <2>. QED BY <1>5, <2>1, <2>2, <2>3, <2>4 DEF IInv, TypeOK
<1>8. Active' = Active /\ baseline' = baseline /\ attempts' = attempts
    BY <1>3 DEF Active, baseline, Tick
<1>9. RunsInv'
    <2>1. \A r \in RunIds : run'[r].state = "queued" => run'[r].lease = 0
        BY <1>1, <1>3, LessFields DEF IInv, RunPart, RunsInv, RunRow
    <2>2. \A r \in Active : r \in RunIds
        BY DEF Active
    <2>. QED BY <1>3, <1>5, <1>8, <2>1, <2>2 DEF IInv, RunPart, RunsInv
<1>10. AttemptsInv'
    BY <1>3, <1>8 DEF IInv, RunPart, AttemptsInv, Attempted
<1>11. SchedulerSeesTheRun'
    <2>. SUFFICES ASSUME NEW r \in Active
                  PROVE  /\ run'[r].state = "queued" => monitor'.next <= 0
                         /\ run'[r].state = "waiting_retry" => monitor'.next <= run'[r].next
        BY <1>8 DEF SchedulerSeesTheRun
    <2>1. r \in RunIds /\ run[r].next \in Nat /\ monitor.next \in Int
        BY <1>1, <1>4 DEF Active, RunRow, MonitorRow
    <2>2. /\ run[r].state = "queued" => monitor.next <= 0
          /\ run[r].state = "waiting_retry" => monitor.next <= run[r].next
        BY DEF IInv, RunPart, SchedulerSeesTheRun
    <2>3. run'[r].state = run[r].state /\ run'[r].next = Less(run[r].next)
        BY <1>3, <2>1
    <2>4. monitor.next <= 0 => monitor'.next <= 0
        BY <1>5, <2>1 DEF Higher
    <2>5. monitor.next <= run[r].next => monitor'.next <= Less(run[r].next)
        BY <1>5, <2>1 DEF Higher, Less
    <2>. QED BY <2>2, <2>3, <2>4, <2>5
<1>12. HistoryPart'
    <2>1. UNCHANGED <<snapshots, events>>
        BY DEF Tick
    <2>. QED BY <1>3, <1>8, <2>1, HistoryStays DEF IInv
<1>13. FoundInv'
    BY <1>6 DEF IInv, FoundInv
<1>14. RunsSettle /\ QuietStarts
    BY <1>3, <1>8, NoRunSettles DEF IInv
<1>. QED BY <1>7, <1>9, <1>10, <1>11, <1>12, <1>13, <1>14 DEF IInv, RunPart, Keeps

\* A stutter keeps the invariant.
LEMMA StutterKeeps ==
    ASSUME IInv, UNCHANGED vars
    PROVE  Keeps
<1>1. /\ UNCHANGED <<monitor, run, attempts, snapshots, events>>
      /\ cooldown' \in Nat /\ runner' \in [Runners -> RunnerState] /\ FoundInv'
    BY DEF vars, IInv, TypeOK, FoundInv
<1>. QED BY <1>1, RowsStay

\* Every step keeps the invariant.
LEMMA NextKeeps ==
    ASSUME IInv, [Next]_vars
    PROVE  Keeps
<1>1. ASSUME NEW on \in BOOLEAN, NEW at \in StartTimes, Configure(on, at) PROVE Keeps
    BY <1>1, ConfigureKeeps
<1>2. ASSUME NEW on \in BOOLEAN, SetEnabled(on) PROVE Keeps
    BY <1>2, SetEnabledKeeps
<1>3. ASSUME NEW k \in Keys, EnqueueRun(k) PROVE Keeps
    BY <1>3, EnqueueRunKeeps
<1>4. ASSUME NEW r \in RunIds, Cancel(r) PROVE Keeps
    BY <1>4, CancelKeeps
<1>5. ASSUME NEW wait \in RetryAfters, CoolOrigin(wait) PROVE Keeps
    BY <1>5, CoolingKeeps DEF CoolOrigin
<1>6. ASSUME NEW p \in Runners, NEW k \in Calls, Call(p, k) PROVE Keeps
    BY <1>6, CallKeeps
<1>7. ASSUME NEW p \in Runners, Start(p) PROVE Keeps
    <2>1. CASE ClaimNothing(p)
        BY <2>1, RunnerDropped DEF ClaimNothing
    <2>2. CASE \E d \in CallerDeadlines : Claim(p, d)
        BY <2>2, ClaimKeeps
    <2>. QED BY <1>7, <2>1, <2>2 DEF Start
<1>8. ASSUME NEW p \in Runners, Heartbeat(p) PROVE Keeps
    BY <1>8, HeartbeatKeeps
<1>9. ASSUME NEW p \in Runners, NEW wait \in RetryAfters, NoteRetryAfter(p, wait) PROVE Keeps
    BY <1>9, CoolingKeeps DEF NoteRetryAfter
<1>10. ASSUME NEW p \in Runners, NEW reason \in {"cancelled", "shutdown"}, Abort(p, reason) PROVE Keeps
    BY <1>10, AbortKeeps
<1>11. ASSUME NEW p \in Runners, NEW found \in Findings, Record(p, found) PROVE Keeps
    BY <1>11, RecordKeeps
<1>12. ASSUME NEW p \in Runners, Conclude(p) PROVE Keeps
    BY <1>12, DeferKeeps, CommitKeeps DEF Conclude
<1>13. ASSUME NEW p \in Runners, NEW timedOut \in BOOLEAN, GiveUp(p, timedOut) PROVE Keeps
    BY <1>13, GiveUpKeeps
<1>14. ASSUME NEW p \in Runners, Fail(p) \/ Crash(p) PROVE Keeps
    BY <1>14, RunnerDropped DEF Fail, Crash
<1>15. CASE Tick
    BY <1>15, TickKeeps
<1>16. CASE UNCHANGED vars
    BY <1>16, StutterKeeps
<1>. QED
    BY <1>1, <1>2, <1>3, <1>4, <1>5, <1>6, <1>7, <1>8, <1>9, <1>10, <1>11, <1>12, <1>13,
       <1>14, <1>15, <1>16 DEF Next, End

-----------------------------------------------------------------------------
(* What follows                                                             *)

(* What ended stays as it ended, and an attempt that is closed is closed    *)
(* for good.                                                                *)
SettledForGood == [][RunsSettle]_vars

(* No attempt starts while the origin cools down.                           *)
NoStartInACooldown == [][QuietStarts]_vars

(* One active run under the current settings, one attempt at its end, a     *)
(* schedule that sees it, and a history of completed runs: the invariant of *)
(* all the transactions of monitorStore.ts, in any order, from any number   *)
(* of processes that die at any of their steps.                             *)
THEOREM Invariance == Spec => []IInv
<1>1. IInv /\ [Next]_vars => IInv'
    BY NextKeeps DEF Keeps
<1>. QED BY Initially, <1>1, PTL DEF Spec

(* Type correctness of the Monitor's rows and of its runners.               *)
THEOREM MonitorTypeCorrect == Spec => []TypeOK
<1>1. IInv => TypeOK
    BY DEF IInv
<1>. QED BY <1>1, Invariance, PTL

(* The partial unique index of active runs is never what stops a process:   *)
(* a Monitor has one active run at most, of its epoch, its revision and its *)
(* baseline, while it is enabled, so commit finds no "baseline conflict".   *)
THEOREM CurrencySafety == Spec => []ActiveRunIsCurrent
<1>1. IInv => ActiveRunIsCurrent
    <2>. SUFFICES ASSUME IInv PROVE ActiveRunIsCurrent
        OBVIOUS
    <2>1. Cardinality(Active) <= 1
        <3>1. CASE Active = {}
            BY <3>1, FS_EmptySet
        <3>2. CASE Active # {}
            <4>1. PICK r : Active = {r}
                BY <3>2, OneActive DEF IInv
            <4>. QED BY <4>1, FS_Singleton
        <3>. QED BY <3>1, <3>2
    <2>. QED BY <2>1 DEF IInv, RunPart, RunsInv, ActiveRunIsCurrent
<1>. QED BY <1>1, Invariance, PTL

(* Two processes never both hold an attempt of a run: an attempt is at work *)
(* when its run is, as its last one and under its token, which is above     *)
(* every earlier one's.                                                     *)
THEOREM FencingSafety == Spec => []OneAttemptAtWork
<1>1. IInv => OneAttemptAtWork
    BY DEF IInv, RunPart, AttemptsInv, Attempted, OneAttemptAtWork
<1>. QED BY <1>1, Invariance, PTL

(* commit alone writes a snapshot, for the run and the attempt it completes,*)
(* once, against the snapshot before it: what was cancelled, paused,        *)
(* expired or replaced leaves none.                                         *)
THEOREM SnapshotSafety == Spec => []SnapshotsAreOfCompletedRuns
<1>1. IInv => SnapshotsAreOfCompletedRuns
    BY DEF IInv, HistoryPart
<1>. QED BY <1>1, Invariance, PTL

(* The events are the history of the baseline, in order and without a gap,  *)
(* whatever the rules, the fields and the sources of its pages are.         *)
THEOREM EventSafety == Spec => []EventsTellTheChanges
<1>1. IInv => EventsTellTheChanges
    BY DEF IInv, HistoryPart
<1>. QED BY <1>1, Invariance, PTL

(* A run that waits, or is queued, is due no earlier than its Monitor: the  *)
(* monitor loop, which reads next_run_at alone, does not overlook it.       *)
THEOREM ScheduleSafety == Spec => []SchedulerSeesTheRun
<1>1. IInv => SchedulerSeesTheRun
    BY DEF IInv, RunPart
<1>. QED BY <1>1, Invariance, PTL

(* A late runner, a takeover, a pause or a second finishRun rewrites        *)
(* neither a run that ended nor an attempt that is closed.                  *)
THEOREM Settlement == Spec => SettledForGood
<1>1. IInv /\ [Next]_vars => RunsSettle
    BY NextKeeps DEF Keeps
<1>. QED BY <1>1, Invariance, PTL DEF Spec, SettledForGood

(* startRun begins no attempt of a scheduled run, a manual one, a retry or  *)
(* a takeover while the Monitor's origin cools down, and every attempt is   *)
(* begun by it.                                                             *)
THEOREM CooldownSafety == Spec => NoStartInACooldown
<1>1. IInv /\ [Next]_vars => QuietStarts
    BY NextKeeps DEF Keeps
<1>. QED BY <1>1, Invariance, PTL DEF Spec, NoStartInACooldown
=============================================================================
