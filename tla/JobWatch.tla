------------------------------ MODULE JobWatch ------------------------------
(***************************************************************************)
(* One watch of a crawl or a batch: the job's process, which records steps  *)
(* and hands each to the in-process hub (engine.ts, jobEvents.ts), the      *)
(* stream a connection opens on it (jobStream.ts), and the SDK's watcher,   *)
(* which tries a WebSocket, then server-sent events, then polls, and goes   *)
(* on each time from the cursor of the last document (watcher.ts).          *)
(*                                                                         *)
(* A cursor is a step's position: its createdAt in milliseconds, then its   *)
(* id, which is random. Reports (catchup, snapshot) are left out: they      *)
(* carry no document, and the watcher only displays them.                   *)
(***************************************************************************)
EXTENDS Integers, Sequences, FiniteSets, SequencesExt

CONSTANTS
    Ids,           \* step ids, numbers in their order as strings
    Failed,        \* ids of the steps the errors route lists
    Kinds,         \* subset of {"crawl", "batch"}
    MaxClock,
    MaxStarts,     \* starts of the process
    ReplayLimit,   \* JOB_STREAM_REPLAY_LIMIT
    ListLimit,     \* limit of a poll's listing
    QueueLimit,    \* JOB_STREAM_QUEUE_LIMIT
    WireLimit,     \* frames under way on a connection
    FailureLimit   \* POLL_FAILURE_LIMIT

ASSUME WatchAssumption ==
    /\ Ids \subseteq Nat \ {0} /\ IsFiniteSet(Ids) /\ Failed \subseteq Ids
    /\ Kinds \subseteq {"crawl", "batch"}
    /\ {MaxClock, MaxStarts, ReplayLimit, ListLimit, QueueLimit, WireLimit, FailureLimit}
         \subseteq Nat \ {0}

VARIABLES
    clock,
    job,      \* its row and its latest attempt, and whether its process is up
    steps,    \* the step table, in the order it was written
    pending,  \* steps and end that are written and not yet handed to the hub
    stream,   \* the subscriber behind the connection
    wire,     \* frames sent and not yet received
    watch     \* the watcher

vars == << clock, job, steps, pending, stream, wire, watch >>

Start == [at |-> 0, id |-> 0]   \* before every step
Before(s, t) == s.at < t.at \/ (s.at = t.at /\ s.id < t.id)
Pos(s) == [at |-> s.at, id |-> s.id]

\* The end of a job on the hub, and the frame that tells it.
End == [id |-> 0, at |-> 0, attempt |-> 0]
Overflow == [id |-> 0, at |-> 0, attempt |-> 1]
Step == [id : Ids, at : 1..MaxClock, attempt : 1..MaxStarts]

NoStream == [phase |-> "none", queue |-> << >>, over |-> FALSE, seen |-> {},
             cursor |-> Start, page |-> << >>, more |-> FALSE, ended |-> FALSE]

Lists(kind) == IF kind = "batch" THEN << "items" >> ELSE << "pages", "errors" >>

TypeOK ==
    /\ clock \in 1..MaxClock
    /\ job \in [kind : Kinds, status : {"running", "ended"}, attempt : 1..MaxStarts,
                starts : 1..MaxStarts, up : BOOLEAN]
    /\ steps \in Seq(Step) /\ Len(steps) <= Cardinality(Ids)
    /\ pending \in Seq(Step \cup {End})
    /\ stream.phase \in {"none", "report", "list", "page", "live", "closed"}
    /\ stream.queue \in Seq(Step \cup {End}) /\ Len(stream.queue) <= QueueLimit
    /\ stream.seen \subseteq Ids /\ stream.page \in Seq(Step)
    /\ Len(stream.page) <= ReplayLimit
    /\ wire \in Seq(Step \cup {End, Overflow}) /\ Len(wire) <= WireLimit
    /\ watch.on \in {"websocket", "sse", "poll"} /\ watch.got \subseteq Ids
    /\ watch.list \in 0..2 /\ watch.failures \in 0..FailureLimit
    /\ watch.outcome \in {"none", "done", "error"}

Init ==
    /\ clock = 1 /\ steps = << >> /\ pending = << >> /\ wire = << >>
    /\ job \in [kind : Kinds, status : {"running"}, attempt : {1}, starts : {1}, up : {TRUE}]
    /\ stream = NoStream
    /\ watch = [on |-> "websocket", got |-> {}, cursor |-> Start, outcome |-> "none",
                list |-> 0, at |-> << Start, Start >>, ended |-> FALSE, failures |-> 0]

Watching == watch.outcome = "none"

(* ------------------------------- the job ------------------------------- *)

\* Milliseconds in which nothing was written are not counted.
Tick ==
    /\ clock < MaxClock /\ \E k \in DOMAIN steps : steps[k].at = clock
    /\ clock' = clock + 1
    /\ UNCHANGED << job, steps, pending, stream, wire, watch >>

\* putStep, under a random id and the clock's millisecond; onStep follows
\* after awaits on synchronous SQLite calls, which keep the order.
Record(i) ==
    /\ job.up /\ job.status = "running"
    /\ \A k \in DOMAIN steps : steps[k].id # i
    /\ LET s == [id |-> i, at |-> clock, attempt |-> job.attempt] IN
         steps' = Append(steps, s) /\ pending' = Append(pending, s)
    /\ UNCHANGED << clock, job, stream, wire, watch >>

\* The row is terminal: the run's last write, or a cancellation. finishJob
\* emits the end behind the steps.
EndJob ==
    /\ job.up /\ job.status = "running"
    /\ job' = [job EXCEPT !.status = "ended"]
    /\ pending' = Append(pending, End)
    /\ UNCHANGED << clock, steps, stream, wire, watch >>

\* mutant: the queue grows without a limit
HeardUnbounded(event) ==
    IF stream.phase \in {"none", "closed"} THEN stream
    ELSE [stream EXCEPT !.queue = Append(@, event)]

\* mutant: the stream subscribes once it has replayed
HeardLive(event) ==
    IF stream.phase # "live" THEN stream
    ELSE IF Len(stream.queue) >= QueueLimit THEN [stream EXCEPT !.over = TRUE]
    ELSE [stream EXCEPT !.queue = Append(@, event)]

\* The listener only queues; a full queue is remembered and nothing dropped
\* in silence.
Heard(event) ==
    IF stream.phase \in {"none", "closed"} THEN stream
    ELSE IF Len(stream.queue) >= QueueLimit THEN [stream EXCEPT !.over = TRUE]
    ELSE [stream EXCEPT !.queue = Append(@, event)]

Emit ==
    /\ pending # << >>
    /\ stream' = Heard(Head(pending))
    /\ pending' = Tail(pending)
    /\ UNCHANGED << clock, job, steps, wire, watch >>

\* A connection is cut: what it had not delivered is lost from some frame on.
Lost(n) ==
    /\ wire' = SubSeq(wire, 1, n)
    /\ stream' = IF stream.phase = "none" THEN NoStream ELSE [NoStream EXCEPT !.phase = "closed"]

Crash(n) ==
    /\ job.up /\ job.starts < MaxStarts
    /\ job' = [job EXCEPT !.up = FALSE]
    /\ pending' = << >>
    /\ Lost(n)
    /\ UNCHANGED << clock, steps, watch >>

\* resumeOnStart: an unfinished job goes on in a new attempt.
Restart ==
    /\ ~job.up
    /\ job' = [job EXCEPT !.up = TRUE, !.starts = @ + 1,
                          !.attempt = IF job.status = "running" THEN @ + 1 ELSE @]
    /\ UNCHANGED << clock, steps, pending, stream, wire, watch >>

(* ------------------------------ the listing ---------------------------- *)

\* A crawl's routes list its latest attempt, a batch's and a stream's all.
Listed(list, s) ==
    list \in {"pages", "errors"} =>
        s.attempt = job.attempt /\ (s.id \in Failed <=> list = "errors")

Rows == {steps[k] : k \in DOMAIN steps}

\* listStepsPage: the steps after the cursor, up to limit of them in order of
\* position, and whether there are more.
Found(list, cursor) ==
    {s \in Rows : Listed(list, s) /\ Before(cursor, s)}
Page(list, cursor, limit) ==
    LET found == Found(list, cursor)
        size  == Cardinality(found)
    IN  [i \in 1..(IF size > limit THEN limit ELSE size) |->
           CHOOSE s \in found : Cardinality({t \in found : Before(t, s)}) = i - 1]
HasMore(list, cursor, limit) == Cardinality(Found(list, cursor)) > limit

(* ------------------------------- the stream ---------------------------- *)

Room == Len(wire) < WireLimit

ReadReport ==
    /\ stream.phase = "report"
    /\ stream' = [stream EXCEPT !.phase = "list", !.ended = job.status = "ended"]
    /\ UNCHANGED << clock, job, steps, pending, wire, watch >>

ReadPage ==
    /\ stream.phase = "list"
    /\ LET page == Page("all", stream.cursor, ReplayLimit) IN
         stream' = [stream EXCEPT !.phase = "page", !.page = page,
                                  !.more = HasMore("all", stream.cursor, ReplayLimit),
                                  !.cursor = IF page = << >> THEN @ ELSE Pos(Last(page))]
    /\ UNCHANGED << clock, job, steps, pending, wire, watch >>

\* A document is sent once on one stream.
Sent(s) ==
    IF s.id \in stream.seen THEN UNCHANGED wire ELSE Room /\ wire' = Append(wire, s)

Replay ==
    /\ stream.phase = "page" /\ stream.page # << >>
    /\ Sent(Head(stream.page))
    /\ stream' = [stream EXCEPT !.page = Tail(@), !.seen = @ \cup {Head(stream.page).id}]
    /\ UNCHANGED << clock, job, steps, pending, watch >>

\* The generator returns, and the connection ends behind its last frame.
Finish(frame) ==
    /\ Room /\ wire' = Append(wire, frame)
    /\ stream' = [NoStream EXCEPT !.phase = "closed"]

PageRead ==
    /\ stream.phase = "page" /\ stream.page = << >>
    /\ \/ stream.more /\ stream' = [stream EXCEPT !.phase = "list"] /\ UNCHANGED wire
       \/ ~stream.more /\ stream.ended /\ Finish(End)
       \/ /\ ~stream.more /\ ~stream.ended
          /\ stream' = [stream EXCEPT !.phase = "live"] /\ UNCHANGED wire
    /\ UNCHANGED << clock, job, steps, pending, watch >>

Live ==
    /\ stream.phase = "live"
    /\ \/ stream.over /\ Finish(Overflow)
       \/ ~stream.over /\ stream.queue # << >> /\ Head(stream.queue) = End /\ Finish(End)
       \/ /\ ~stream.over /\ stream.queue # << >> /\ Head(stream.queue) # End
          /\ Sent(Head(stream.queue))
          /\ stream' = [stream EXCEPT !.queue = Tail(@), !.seen = @ \cup {Head(stream.queue).id}]
    /\ UNCHANGED << clock, job, steps, pending, watch >>

StreamStep == ReadReport \/ ReadPage \/ Replay \/ PageRead \/ Live

(* ------------------------------ the watcher ---------------------------- *)

\* The listener is subscribed before anything is read.
Open ==
    /\ Watching /\ watch.on # "poll" /\ stream.phase = "none" /\ job.up
    /\ stream' = [NoStream EXCEPT !.phase = "report", !.cursor = watch.cursor]
    /\ UNCHANGED << clock, job, steps, pending, wire, watch >>

\* One level further; what polls starts every listing at the last document.
Fallback ==
    watch' = [watch EXCEPT !.on = IF @ = "websocket" THEN "sse" ELSE "poll",
                           !.at = IF watch.on = "sse" THEN << watch.cursor, watch.cursor >> ELSE @]

\* No WebSocket, no such route, a refused handshake, a process that is down.
OpenFails ==
    /\ Watching /\ watch.on # "poll" /\ stream.phase = "none"
    /\ Fallback
    /\ UNCHANGED << clock, job, steps, pending, stream, wire >>

Cut(n) ==
    /\ stream.phase \notin {"none", "closed"}
    /\ Lost(n)
    /\ UNCHANGED << clock, job, steps, pending, watch >>

\* A frame; a document moves the cursor unless it was delivered before.
Receive ==
    /\ Watching /\ wire # << >>
    /\ wire' = Tail(wire)
    /\ LET frame == Head(wire) IN
         \/ frame = End /\ watch' = [watch EXCEPT !.outcome = "done"]
         \/ frame = Overflow /\ watch' = [watch EXCEPT !.outcome = "error"]
         \/ frame.id \in watch.got /\ UNCHANGED watch
         \/ /\ frame.id \in Ids \ watch.got
            /\ watch' = [watch EXCEPT !.got = @ \cup {frame.id}, !.cursor = Pos(frame)]
    /\ UNCHANGED << clock, job, steps, pending, stream >>

Closed ==
    /\ Watching /\ stream.phase = "closed" /\ wire = << >>
    /\ stream' = NoStream
    /\ Fallback
    /\ UNCHANGED << clock, job, steps, pending, wire >>

\* A poll reads the report first and the listings to their ends after it.
PollReport ==
    /\ Watching /\ watch.on = "poll" /\ watch.list = 0 /\ job.up
    /\ watch' = [watch EXCEPT !.list = 1, !.ended = job.status = "ended"]
    /\ UNCHANGED << clock, job, steps, pending, stream, wire >>

\* mutant: the poll reads the report behind its listings
LastPollAfter(last) == last /\ job.status = "ended"

\* The poll whose report, read before its listings, was of an ended job.
LastPoll(last) == last /\ watch.ended

PollPage ==
    /\ Watching /\ watch.on = "poll" /\ watch.list # 0 /\ job.up
    /\ LET list == Lists(job.kind)[watch.list]
           from == watch.at[watch.list]
           page == Page(list, from, ListLimit)
           more == HasMore(list, from, ListLimit)
           last == ~more /\ watch.list = Len(Lists(job.kind))
       IN watch' = [watch EXCEPT
            !.got = @ \cup {page[k].id : k \in DOMAIN page},
            !.at[watch.list] = IF page = << >> THEN @ ELSE Pos(Last(page)),
            !.list = IF more THEN @ ELSE IF last THEN 0 ELSE @ + 1,
            !.failures = IF last THEN 0 ELSE @,
            !.outcome = IF LastPoll(last) THEN "done" ELSE @]
    /\ UNCHANGED << clock, job, steps, pending, stream, wire >>

PollFails ==
    /\ Watching /\ watch.on = "poll"
    /\ watch' = [watch EXCEPT !.list = 0, !.failures = @ + 1,
                              !.outcome = IF watch.failures + 1 >= FailureLimit THEN "error" ELSE @]
    /\ UNCHANGED << clock, job, steps, pending, stream, wire >>

WatchStep == Open \/ Receive \/ Closed \/ PollReport \/ PollPage

Next ==
    \/ Tick \/ EndJob \/ Emit \/ Restart
    \/ \E i \in Ids : Record(i)
    \/ \E n \in 0..Len(wire) : Crash(n) \/ Cut(n)
    \/ StreamStep \/ WatchStep \/ OpenFails \/ PollFails

Spec == Init /\ [][Next]_vars
FairSpec ==
    Spec /\ WF_vars(Emit) /\ WF_vars(Restart) /\ WF_vars(StreamStep) /\ WF_vars(WatchStep)

------------------------------------------------------------------------------
Recorded == {steps[k].id : k \in DOMAIN steps}

\* A step whose position is before that of a document recorded earlier, in
\* the same millisecond: a cursor on that document is past it.
Overtaken(k) ==
    \E j \in 1..(k - 1) : steps[j].at = steps[k].at /\ steps[k].id < steps[j].id

\* A watch that is told the end has every page the job recorded, through
\* whatever connections, cuts, restarts and polls it came (watcher.ts); only a
\* page overtaken within its millisecond, or of an attempt that a crawl's
\* listings do not show, may be missing.
DocumentsComplete ==
    watch.outcome = "done" =>
      /\ job.status = "ended"
      /\ \A k \in DOMAIN steps :
           \/ steps[k].id \in watch.got
           \/ Overtaken(k)
           \/ job.kind = "crawl" /\ watch.on = "poll" /\ steps[k].attempt # job.attempt

\* What the watcher's doc says: `data` accumulates every document, each once.
EveryDocument ==
    watch.outcome = "done" /\ job.kind = "batch" => watch.got = Recorded

\* A watch of a job that has ended comes to its own end: the end of the job is
\* never between the report a stream opened with and the hub it listens to.
WatchEnds == (job.status = "ended") ~> ~Watching
==============================================================================
