-------------------------------- MODULE Crawl --------------------------------
(***************************************************************************)
(* The life of one job of the API engine, a crawl or a batch: the engine   *)
(* launches it, cancels it, appends to it, shuts down and starts again     *)
(* (packages/api/src/engine.ts); each launch is one attempt, which the     *)
(* orchestrator runs with several workers over one frontier                *)
(* (packages/runtime/src/orchestrator.ts) and ends with the task's row;    *)
(* and every page and every end is an event for the job's webhook          *)
(* (packages/api/src/jobWebhooks.ts).                                      *)
(*                                                                         *)
(* Grain.  Everything runs on one event loop and the checkpoint is a       *)
(* synchronous SQLite file, so a run of awaits on nothing but the          *)
(* checkpoint is drained before the loop takes the next request, timer or  *)
(* response.  Such a run is one action, or several where another worker, a *)
(* crash or a write of another process can come between; Drained says that *)
(* no such run is under way.  A write that was decided by an earlier read  *)
(* of the task's row is a step of its own: what it will write is run.next. *)
(***************************************************************************)
EXTENDS Frontier

CONSTANTS
  Kind,         \* "crawl" or "batch"
  Given,        \* the crawl's seed << u >>, or the batch's URLs
  Extra,        \* URLs a batch may be appended, one call each, in order
  Workers,      \* the workers of a run
  MaxPages,     \* the task's page budget, None when it has none
  Body,         \* [Urls -> hashes of what the pages answer]
  RobotsDelay,  \* [Hosts -> Nat]: the Crawl-delay of each host's robots.txt
  Outcomes,     \* what scraping a page may come to
  HasTimeBudget,\* whether the task has a wall-time budget
  MaxTime,      \* bound on the clock
  MaxStops,     \* bound on crashes and shutdowns
  MaxResumes,   \* bound on resume requests
  MaxCancels,   \* bound on cancellations
  MaxFaults     \* bound on failed checkpoint writes

ASSUME CrawlAssumption ==
  /\ Kind \in {"crawl", "batch"}
  /\ Given \in Seq(Urls) /\ Given # << >>
  /\ Extra \in Seq(Urls)
  /\ Kind = "batch" => MaxDepth = 0
  /\ IsFiniteSet(Workers) /\ Workers # {}
  /\ MaxPages \in Nat \cup {None}
  /\ None \notin {"pages", "time", "pending", "running", "paused",
                  "completed", "failed", "cancelled"}
  /\ DOMAIN Body = Urls
  /\ RobotsDelay \in [Hosts -> Nat]
  /\ Outcomes \subseteq {"content", "failed", "cached", "threw"}
  /\ HasTimeBudget \in BOOLEAN
  /\ {MaxTime, MaxStops, MaxResumes, MaxCancels, MaxFaults} \subseteq Nat

VARIABLES
  task,      \* the task's row: [status, urls]
  attempts,  \* its attempts' rows: [status, budget], the latest last
  steps,     \* its steps' rows, in the order written
  events,    \* the event ids enqueued for the job's webhook
  process,   \* the API process: "up", "closing" or "down"
  run,       \* the attempt this process runs
  frontier,  \* its frontier
  worker,    \* its workers
  now,       \* the clock
  spent      \* the bounds used up: [stops, resumes, cancels, faults]

store == << task, attempts, steps >>
memory == << run, frontier, worker >>
vars == << store, events, process, memory, now, spent >>

-----------------------------------------------------------------------------
(* What the rows and the memory hold.                                      *)

Unfinished == {"pending", "running", "paused"}
Terminal == {"completed", "failed", "cancelled"}

\* content: the result is a page's content; a duplicate's is not.
StepRow == [url : Urls, depth : 0 .. MaxDepth, attempt : Nat, content : BOOLEAN]

PageEvent(i) == << "page", i >>
TerminalEvent(status, attempt) == << "terminal", status, Max({1, attempt}) >>

FetchedUrls(rows) == {rows[i].url : i \in DOMAIN rows}

\* phase: "none" when the task is not in flight, "submitted" at its launch,
\* "opening" once the row was read and "opened" once it says running, "working"
\* while a worker may run, "ending" once the outcome is decided, "ended" once
\* the row has it.  next: the status that was decided on and is to be written.
\* told: the hosts whose Crawl-delay an answer has told (a ghost).
NoRun ==
  [phase    |-> "none", next     |-> None, aborts |-> {}, seeded |-> 0,
   taskUrls |-> {},     seenHash |-> {},   told   |-> {}, budget |-> None]

NoItem == [pc |-> "done", item |-> None, content |-> FALSE, until |-> 0]
Resting == [w \in Workers |-> NoItem]

Latest == Len(attempts)
InFlight == run.phase # "none"
Stopped == run.aborts # {}

\* Dequeued pages that are not released yet, and the places they take.
Busy == {w \in Workers : worker[w].pc \in {"scraping", "answered", "recorded"}}
SlotsTaken == [h \in Hosts |-> Cardinality({w \in Busy : HostOf[worker[w].item.url] = h})]
NewPagesReserved == {w \in Busy : worker[w].item.url \notin run.taskUrls}

Drained ==
  /\ run.phase \in {"none", "working"}
  /\ run.next = None
  /\ \A w \in Workers : worker[w].pc \notin {"answered", "recorded"}

\* The run works, and no request is between its read and its write of the row.
Turn == run.phase = "working" /\ run.next = None

\* wakeWorkers: the parked workers go round their loop again.
Woken(workers) ==
  [w \in Workers |-> IF workers[w].pc = "parked" THEN [workers[w] EXCEPT !.pc = "top"]
                     ELSE workers[w]]

-----------------------------------------------------------------------------
(* Opening an attempt.  The webhook is offered the steps already there, the *)
(* row is read and written, attempts left open are interrupted, and a new   *)
(* one gets a frontier.  A first launch is no resume, but has no steps yet. *)

ContentSteps == Kept(steps, {s \in ToSet(steps) : s.content})

\* Mutant: the pages read are queued again, their links are not.
ResumedPages == FoldLeft(LAMBDA f, s : Offer(f, s.url, s.depth), EmptyFrontier, ContentSteps)

ResumedCrawl ==
  LET pages == FoldLeft(LAMBDA f, s : Offer(f, s.url, s.depth), EmptyFrontier, ContentSteps)
  IN  FoldLeft(LAMBDA f, s : OfferAll(f, Links[s.url], s.depth + 1), pages, ContentSteps)

RestoredFrontier ==
  CASE Kind = "batch" -> SeedBatchUrls(EmptyFrontier, task.urls, FetchedUrls(steps))
    [] Kind = "crawl" /\ ContentSteps # << >> -> ResumedCrawl
    [] OTHER -> Offer(EmptyFrontier, task.urls[1], 0)

Interrupted(rows) ==
  [i \in DOMAIN rows |-> IF rows[i].status = "running" THEN [rows[i] EXCEPT !.status = "interrupted"]
                         ELSE rows[i]]

\* Mutant: only the pages with content are offered to the webhook again.
ReconciledContent == {PageEvent(i) : i \in {j \in DOMAIN steps : steps[j].content}}

ReconciledPages == {PageEvent(i) : i \in DOMAIN steps}

\* The latest attempt is closed if it is still open.
Closed(rows, status) ==
  [i \in DOMAIN rows |-> IF i = Len(rows) /\ rows[i].status = "running"
                         THEN [rows[i] EXCEPT !.status = status] ELSE rows[i]]

\* The end of a job is an event of its latest attempt.
FinishJob(status) == events \cup {TerminalEvent(status, Latest)}

Submitted == [NoRun EXCEPT !.phase = "submitted"]

Init ==
  /\ task = [status |-> "pending", urls |-> Given]
  /\ attempts = << >>
  /\ steps = << >>
  /\ events = {}
  /\ process = "up"
  /\ run = Submitted
  /\ frontier = EmptyFrontier
  /\ worker = Resting
  /\ now = 0
  /\ spent = [stops |-> 0, resumes |-> 0, cancels |-> 0, faults |-> 0]

Open ==
  /\ run.phase = "submitted"
  /\ task.status # "cancelled"
  /\ run' = [run EXCEPT !.phase = "opening", !.next = "running"]
  /\ events' = events \cup ReconciledPages
  /\ UNCHANGED << store, process, frontier, worker, now, spent >>

\* A task cancelled since is not run: the launch ends in its error handler.
RefuseToOpen ==
  /\ run.phase = "submitted"
  /\ task.status = "cancelled"
  /\ attempts' = Closed(attempts, "failed")
  /\ events' = FinishJob(task.status) \cup ReconciledPages
  /\ run' = NoRun
  /\ UNCHANGED << task, steps, process, frontier, worker, now, spent >>

OpenTask ==
  /\ run.phase = "opening"
  /\ attempts' = Interrupted(attempts)
  /\ task' = [task EXCEPT !.status = run.next]
  /\ run' = [run EXCEPT !.phase = "opened", !.next = None]
  /\ UNCHANGED << steps, events, process, frontier, worker, now, spent >>

OpenAttempt ==
  /\ run.phase = "opened"
  /\ attempts' = Append(attempts, [status |-> "running", budget |-> None])
  /\ frontier' = RestoredFrontier
  /\ run' = [NoRun EXCEPT !.phase    = "working",
                          !.taskUrls = FetchedUrls(steps),
                          !.seeded   = Len(task.urls),
                          !.aborts   = IF process = "closing" THEN {"shutdown"} ELSE {}]
  /\ worker' = [w \in Workers |-> [NoItem EXCEPT !.pc = "top"]]
  /\ UNCHANGED << task, steps, events, process, now, spent >>

-----------------------------------------------------------------------------
(* A worker's loop, from its top to the page it takes.                     *)

\* Mutant: pages under way take no place in the budget.
AdmittedUnreserved ==
  IF MaxPages = None \/ Cardinality(run.taskUrls) < MaxPages THEN Urls ELSE run.taskUrls

\* The page budget counts the task's distinct URLs, those under way included.
Admitted ==
  IF \/ MaxPages = None
     \/ Cardinality(run.taskUrls) + Cardinality(NewPagesReserved) < MaxPages
  THEN Urls
  ELSE run.taskUrls

\* seedAppended: the URLs the batch got since the frontier was last fed.
HasAppended == Kind = "batch" /\ Len(task.urls) > run.seeded
Fed ==
  IF HasAppended
  THEN SeedBatchUrls(frontier, SubSeq(task.urls, run.seeded + 1, Len(task.urls)), run.taskUrls)
  ELSE frontier
FedWorkers == IF HasAppended THEN Woken(worker) ELSE worker

Look == Dequeue(Fed, now, SlotsTaken, Admitted)

\* The worker is at the top of its loop and nothing has stopped the run.
AtTop(w) ==
  /\ Turn
  /\ worker[w].pc = "top"
  /\ ~Stopped
  /\ task.status # "cancelled"

\* What a look at the queue leaves behind, whatever the worker does next.
Looked(w, to) ==
  /\ worker' = [FedWorkers EXCEPT ![w] = to]
  /\ frontier' = Look.frontier
  /\ run' = [run EXCEPT !.seeded = Max({@, Len(task.urls)}),
                        !.budget = IF Look.refused THEN "pages" ELSE @]
  /\ UNCHANGED << store, events, process, now, spent >>

TakePage(w) ==
  /\ AtTop(w)
  /\ Look.item # None
  /\ Looked(w, [NoItem EXCEPT !.pc = "scraping", !.item = Look.item])

WaitForHost(w) ==
  /\ AtTop(w)
  /\ Look.item = None
  /\ Look.nextReadyAt # None
  /\ Looked(w, [NoItem EXCEPT !.pc = "waiting", !.until = Look.nextReadyAt])

Park(w) ==
  /\ AtTop(w)
  /\ Look.item = None
  /\ Look.nextReadyAt = None
  /\ Busy # {}
  /\ Looked(w, [NoItem EXCEPT !.pc = "parked"])

Leave(w) ==
  /\ AtTop(w)
  /\ Look.item = None
  /\ Look.nextReadyAt = None
  /\ Busy = {}
  /\ Looked(w, NoItem)

HostReady(w) ==
  /\ Turn
  /\ worker[w].pc = "waiting"
  /\ now >= worker[w].until \/ Stopped
  /\ worker' = [worker EXCEPT ![w] = [NoItem EXCEPT !.pc = "top"]]
  /\ UNCHANGED << store, events, process, run, frontier, now, spent >>

\* A worker that finds the run stopped ends; the page it had is dropped.
Quit(w) ==
  /\ Turn
  /\ worker[w].pc \in {"top", "scraping", "answered"}
  /\ Stopped
  /\ worker' = [worker EXCEPT ![w] = NoItem]
  /\ UNCHANGED << store, events, process, run, frontier, now, spent >>

\* So does one that finds the row cancelled by another process, and it stops
\* the run for the others.
NoticeCancel(w) ==
  /\ Turn
  /\ worker[w].pc \in {"top", "scraping"}
  /\ ~Stopped
  /\ task.status = "cancelled"
  /\ run' = [run EXCEPT !.aborts = @ \cup {"cancel"}]
  /\ worker' = [Woken(worker) EXCEPT ![w] = NoItem]
  /\ UNCHANGED << store, events, process, frontier, now, spent >>

-----------------------------------------------------------------------------
(* The page is scraped and recorded.                                       *)

\* What an answer may tell of the Crawl-delay: it is read from the trace of the
\* answer, where robots.txt is missing when the page threw, failed before its
\* robots.txt was read, or was fetched for us by a vendor.
Tells(h, outcome) == IF outcome = "threw" THEN {0} ELSE {0, RobotsDelay[h]}

\* A stored result of the cache tells nothing, and not that the host was asked.
Reported(f, h, outcome, delay) ==
  IF outcome = "cached" THEN f ELSE SetCrawlDelay(f, h, delay)

\* The scrape has come to an end, and the row is read before it is recorded.
Answer(w, outcome) ==
  LET h == HostOf[worker[w].item.url]
  IN  /\ Turn
      /\ worker[w].pc = "scraping"
      /\ ~Stopped
      /\ task.status # "cancelled"
      /\ \E delay \in Tells(h, outcome) :
           /\ frontier' = Reported(frontier, h, outcome, delay)
           /\ run' = [run EXCEPT !.told = IF outcome # "cached" /\ delay > 0
                                          THEN @ \cup {h} ELSE @]
      /\ worker' = [worker EXCEPT ![w].pc = "answered",
                                  ![w].content = outcome \in {"content", "cached"}]
      /\ UNCHANGED << store, events, process, now, spent >>

\* A crawl keeps a body once per attempt.
IsCopy(u) == Kind = "crawl" /\ \E v \in run.seenHash : Body[v] = Body[u]

\* The row is not read again: a cancellation that came since is not seen.
Record(w) ==
  LET item    == worker[w].item
      u       == item.url
      content == worker[w].content /\ ~IsCopy(u)
  IN  /\ Turn
      /\ worker[w].pc = "answered"
      /\ ~Stopped
      /\ steps' = Append(steps, [url |-> u, depth |-> item.depth, attempt |-> Latest,
                                 content |-> content])
      /\ frontier' = IF content THEN OfferAll(frontier, Links[u], item.depth + 1) ELSE frontier
      /\ run' = [run EXCEPT !.seenHash = IF content /\ Kind = "crawl" THEN @ \cup {u} ELSE @]
      /\ worker' = [worker EXCEPT ![w].pc = "recorded"]
      /\ UNCHANGED << task, attempts, events, process, now, spent >>

Written(w) ==
  CHOOSE i \in DOMAIN steps :
    steps[i].url = worker[w].item.url /\ steps[i].attempt = Latest

\* Mutant: the parked workers are not woken.
ReleasedUnwoken(w) == [worker EXCEPT ![w] = [NoItem EXCEPT !.pc = "top"]]

\* The worker lets its page go, and the others look at the queue again.
Released(w) == [Woken(worker) EXCEPT ![w] = [NoItem EXCEPT !.pc = "top"]]

\* Past the write: the page counts, the attempt is written with its meters, the
\* page's event goes out and its places are free.
Settle(w) ==
  /\ Turn
  /\ worker[w].pc = "recorded"
  /\ run' = [run EXCEPT !.taskUrls = @ \cup {worker[w].item.url}]
  /\ attempts' = [attempts EXCEPT ![Latest] = [status |-> "running", budget |-> run.budget]]
  /\ events' = events \cup {PageEvent(Written(w))}
  /\ worker' = Released(w)
  /\ UNCHANGED << task, steps, process, frontier, now, spent >>

\* The checkpoint refuses the step: the run fails.
StepFails(w) ==
  /\ Turn
  /\ worker[w].pc = "answered"
  /\ ~Stopped
  /\ spent.faults < MaxFaults
  /\ run' = [run EXCEPT !.aborts = @ \cup {"failed"}]
  /\ worker' = [Woken(worker) EXCEPT ![w] = NoItem]
  /\ spent' = [spent EXCEPT !.faults = @ + 1]
  /\ UNCHANGED << store, events, process, frontier, now >>

-----------------------------------------------------------------------------
(* What stops a run, and the poll that hears of it from the row.           *)

Aborting(reason) ==
  /\ run' = [run EXCEPT !.aborts = @ \cup {reason}]
  /\ worker' = Woken(worker)

Poll ==
  /\ Turn /\ ~Stopped /\ Drained
  /\ \/ /\ task.status = "cancelled"
        /\ Aborting("cancel")
        /\ UNCHANGED frontier
     \/ /\ task.status # "cancelled" /\ HasAppended
        /\ frontier' = Fed
        /\ run' = [run EXCEPT !.seeded = Len(task.urls)]
        /\ worker' = FedWorkers
  /\ UNCHANGED << store, events, process, now, spent >>

TimeUp ==
  /\ HasTimeBudget
  /\ Turn /\ ~Stopped /\ Drained
  /\ run' = [run EXCEPT !.aborts = {"time"}, !.budget = "time"]
  /\ worker' = Woken(worker)
  /\ UNCHANGED << store, events, process, frontier, now, spent >>

-----------------------------------------------------------------------------
(* The end of a run.                                                       *)

\* Mutant: the row is not read again before the last write.
OutcomeUnread ==
  IF "cancel" \in run.aborts THEN "cancelled"
  ELSE IF "shutdown" \in run.aborts THEN "paused"
  ELSE IF "failed" \in run.aborts THEN "failed"
  ELSE "completed"

Outcome ==
  IF "cancel" \in run.aborts \/ task.status = "cancelled" THEN "cancelled"
  ELSE IF "shutdown" \in run.aborts THEN "paused"
  ELSE IF "failed" \in run.aborts THEN "failed"
  ELSE "completed"

\* The workers are done: the row is read, and the attempt has its outcome.
Decide ==
  /\ Turn
  /\ \A w \in Workers : worker[w].pc = "done"
  /\ attempts' = [attempts EXCEPT ![Latest] =
                    [status |-> IF Outcome = "paused" THEN "interrupted" ELSE Outcome,
                     budget |-> run.budget]]
  /\ run' = [run EXCEPT !.phase = "ending", !.next = Outcome]
  /\ UNCHANGED << task, steps, events, process, frontier, worker, now, spent >>

\* The row gets the outcome, whatever its status is by now.
Finish ==
  /\ run.phase = "ending"
  /\ task' = [task EXCEPT !.status = run.next]
  /\ run' = [run EXCEPT !.phase = "ended", !.next = None]
  /\ UNCHANGED << attempts, steps, events, process, frontier, worker, now, spent >>

\* Mutant: only the URLs the run was given are counted.
GivenWithoutStep ==
  /\ Kind = "batch"
  /\ task.status = "completed"
  /\ attempts[Latest].budget = None
  /\ Cardinality(FetchedUrls(steps)) < run.seeded

\* URLs appended after the workers had stopped: the batch runs again.
AppendedWithoutStep ==
  /\ Kind = "batch"
  /\ task.status = "completed"
  /\ attempts[Latest].budget = None
  /\ Cardinality(FetchedUrls(steps)) < Len(task.urls)

Relaunch ==
  /\ run.phase = "ended"
  /\ AppendedWithoutStep
  /\ run' = Submitted
  /\ frontier' = EmptyFrontier
  /\ UNCHANGED << store, events, process, worker, now, spent >>

EndJob ==
  /\ run.phase = "ended"
  /\ ~AppendedWithoutStep
  /\ events' = IF task.status \in Terminal THEN FinishJob(task.status) ELSE events
  /\ run' = NoRun
  /\ frontier' = EmptyFrontier
  /\ UNCHANGED << store, process, worker, now, spent >>

-----------------------------------------------------------------------------
(* Requests.                                                               *)

\* Cancelled by the process that may run the job, or by another one, which
\* reaches the rows alone, and at any time.
Cancel(here) ==
  /\ task.status \in Unfinished
  /\ here => process # "down" /\ Drained
  /\ spent.cancels < MaxCancels
  /\ spent' = [spent EXCEPT !.cancels = @ + 1]
  /\ task' = [task EXCEPT !.status = "cancelled"]
  /\ attempts' = Closed(attempts, "cancelled")
  /\ IF here /\ InFlight
     THEN Aborting("cancel") /\ UNCHANGED events
     ELSE events' = FinishJob("cancelled") /\ UNCHANGED << run, worker >>
  /\ UNCHANGED << steps, process, frontier, now >>

\* An append or a resume reads the row, and refuses or decides.
AskToAppend ==
  /\ Kind = "batch"
  /\ process # "down" /\ Drained
  /\ task.status \notin {"cancelled", "failed"}
  /\ Len(task.urls) < Len(Given) + Len(Extra)
  /\ run' = [run EXCEPT !.next = IF task.status = "completed" THEN "pending" ELSE task.status]
  /\ UNCHANGED << store, events, process, frontier, worker, now, spent >>

AskToResume ==
  /\ Kind = "crawl"
  /\ process # "down" /\ Drained /\ ~InFlight
  /\ task.status \notin {"completed", "cancelled"}
  /\ spent.resumes < MaxResumes
  /\ run' = [run EXCEPT !.next = "pending"]
  /\ spent' = [spent EXCEPT !.resumes = @ + 1]
  /\ UNCHANGED << store, events, process, frontier, worker, now >>

\* And writes what it decided: the URLs of an append go to the end of the list.
\* A job no run is working on is launched.
AnswerRequest ==
  /\ run.phase \in {"none", "working"} /\ run.next # None
  /\ task' = [status |-> run.next,
              urls   |-> IF Kind = "batch"
                         THEN Append(task.urls, Extra[Len(task.urls) - Len(Given) + 1])
                         ELSE task.urls]
  /\ run' = IF InFlight THEN [run EXCEPT !.next = None] ELSE Submitted
  /\ UNCHANGED << attempts, steps, events, process, frontier, worker, now, spent >>

-----------------------------------------------------------------------------
(* The process stops, is lost, and starts again.                           *)

Shutdown ==
  /\ process = "up" /\ Drained
  /\ spent.stops < MaxStops
  /\ process' = "closing"
  /\ IF InFlight THEN Aborting("shutdown") ELSE UNCHANGED << run, worker >>
  /\ spent' = [spent EXCEPT !.stops = @ + 1]
  /\ UNCHANGED << store, events, frontier, now >>

Exit ==
  /\ process = "closing" /\ Drained /\ ~InFlight
  /\ process' = "down"
  /\ UNCHANGED << store, events, memory, now, spent >>

Crash ==
  /\ process # "down"
  /\ spent.stops < MaxStops
  /\ process' = "down"
  /\ run' = NoRun
  /\ frontier' = EmptyFrontier
  /\ worker' = Resting
  /\ spent' = [spent EXCEPT !.stops = @ + 1]
  /\ UNCHANGED << store, events, now >>

Restart ==
  /\ process = "down"
  /\ process' = "up"
  /\ IF task.status \in Unfinished
     THEN run' = Submitted /\ UNCHANGED events
     ELSE events' = FinishJob(task.status) \cup ReconciledPages /\ UNCHANGED run
  /\ UNCHANGED << store, frontier, worker, now, spent >>

Tick ==
  /\ now < MaxTime
  /\ Drained
  /\ now' = now + 1
  /\ UNCHANGED << store, events, process, memory, spent >>

-----------------------------------------------------------------------------

WorkerStep(w) ==
  \/ TakePage(w) \/ WaitForHost(w) \/ Park(w) \/ Leave(w)
  \/ HostReady(w) \/ Quit(w) \/ NoticeCancel(w)
  \/ \E o \in Outcomes : Answer(w, o)
  \/ Record(w) \/ Settle(w)

JobStep ==
  \/ Open \/ RefuseToOpen \/ OpenTask \/ OpenAttempt
  \/ Decide \/ Finish \/ Relaunch \/ EndJob
  \/ AnswerRequest \/ Poll

Next ==
  \/ \E w \in Workers : WorkerStep(w) \/ StepFails(w)
  \/ JobStep
  \/ TimeUp
  \/ \E here \in BOOLEAN : Cancel(here)
  \/ AskToAppend \/ AskToResume
  \/ Shutdown \/ Exit \/ Crash \/ Restart
  \/ Tick

Spec == Init /\ [][Next]_vars

\* A scrape ends (it has a deadline), the event loop runs what is ready, the
\* poll's timer fires, and a process that stopped is started again.
FairSpec ==
  /\ Spec
  /\ \A w \in Workers : WF_vars(WorkerStep(w))
  /\ WF_vars(JobStep)
  /\ WF_vars(Exit)
  /\ WF_vars(Restart)

-----------------------------------------------------------------------------
(* Properties.                                                             *)

WorkerState ==
  [pc      : {"top", "scraping", "answered", "recorded", "waiting", "parked", "done"},
   item    : Item \cup {None},
   content : BOOLEAN,
   until   : Nat]

\* The rows, the run's memory and the bounds have the shape the code gives
\* them; a page under way is held by one worker and lies within the depth.
TypeOK ==
  /\ task \in [status : Unfinished \cup Terminal, urls : Seq(Urls)]
  /\ attempts \in Seq([status : {"running", "interrupted"} \cup Terminal,
                        budget : {"pages", "time", None}])
  /\ steps \in Seq(StepRow)
  /\ process \in {"up", "closing", "down"}
  /\ run.phase \in {"none", "submitted", "opening", "opened", "working", "ending", "ended"}
  /\ run.next \in {"pending", "running", "paused", None} \cup Terminal
  /\ run.taskUrls \subseteq Urls /\ run.seenHash \subseteq Urls /\ run.told \subseteq Hosts
  /\ run.aborts \subseteq {"cancel", "shutdown", "time", "failed"}
  /\ frontier \in Frontiers
  /\ worker \in [Workers -> WorkerState]
  /\ \A v, w \in Busy : worker[v].item.url = worker[w].item.url => v = w

\* The task never records more distinct URLs than its page budget, however
\* many workers took pages at once and however often it was resumed.
PagesWithinBudget ==
  MaxPages # None => Cardinality(FetchedUrls(steps)) <= MaxPages

\* A page is fetched once in an attempt of a crawl, and once in the life of a
\* batch: no append, relaunch or restart fetches a URL that has its step. And
\* workers of a crawl that read one body at the same time keep one copy of it.
NoPageTwice ==
  \A i, j \in DOMAIN steps :
    /\ i # j /\ KeyOf[steps[i].url] = KeyOf[steps[j].url]
       => Kind = "crawl" /\ steps[i].attempt # steps[j].attempt
    /\ Kind = "crawl" /\ i # j /\ steps[i].attempt = steps[j].attempt
       /\ steps[i].content /\ steps[j].content
       => Body[steps[i].url] # Body[steps[j].url]

AtRest == process = "up" /\ ~InFlight
CompletedInFull ==
  AtRest /\ task.status = "completed" /\ attempts[Latest].budget = None

\* A crawl that completes with no budget cut has answered, in its last
\* attempt, for the seed and for every page it ever read and every link of
\* those pages: none was lost between two workers, nor over a restart.
CrawlLeavesNoLink ==
  Kind = "crawl" /\ CompletedInFull =>
    LET last == {KeyOf[steps[i].url] : i \in {j \in DOMAIN steps : steps[j].attempt = Latest}}
        owed(s) == {s.url} \cup (IF s.depth < MaxDepth THEN ToSet(Links[s.url]) ELSE {})
    IN  /\ KeyOf[Given[1]] \in last
        /\ \A s \in ToSet(ContentSteps) : {KeyOf[u] : u \in owed(s)} \subseteq last

\* A run that hands over a completed batch no budget cut leaves no URL without
\* its step, also when one was appended while its workers were ending.
RunLeavesNoUrl ==
  [][/\ Kind = "batch"
     /\ run.phase = "ended" /\ run'.phase = "none" /\ process' # "down"
     /\ task.status = "completed" /\ attempts[Latest].budget = None
     => ToSet(task.urls) \subseteq FetchedUrls(steps)]_vars

\* The writes still to come of a process that read the row before: of the row
\* (the opening of a run, its end, an append or a resume), of a page, and of an
\* attempt.  None of them looks whether the job was cancelled since.
UnawareOfRow == run.next \notin {None, "cancelled"}
UnawareOfPage == \E w \in Workers : worker[w].pc = "answered"
UnawareOfAttempt == run.phase \in {"opening", "opened"}

\* A job cancelled by whatever process stays cancelled, records no page and
\* starts no attempt any more, but by a write that was decided before the
\* cancellation came; and while the row says so nothing decides on such a
\* write, so that a cancellation that outlives those under way is final.
CancelIsFinal ==
  [][task.status = "cancelled" =>
       /\ ~UnawareOfRow => task'.status = "cancelled" /\ ~UnawareOfRow'
       /\ ~UnawareOfPage => steps' = steps /\ ~UnawareOfPage'
       /\ ~UnawareOfAttempt => Len(attempts') = Len(attempts) /\ ~UnawareOfAttempt']_vars

\* Once a job has ended, its webhook was told of every page and of the end of
\* its last attempt, even when a crash fell between a write and its event.
WebhookIsTold ==
  AtRest /\ task.status \in Terminal =>
    /\ \A i \in DOMAIN steps : PageEvent(i) \in events
    /\ TerminalEvent(task.status, Latest) \in events

\* Within an attempt, a host's second page and every later one start no sooner
\* than its robots.txt Crawl-delay after the one before, from the first answer
\* on that told the delay, whatever later answers tell or leave out; and until a
\* page of the host has been answered, the host has one page at a time.
CrawlDelayHeld ==
  [][\A w \in Workers :
       worker[w].pc # "scraping" /\ worker'[w].pc = "scraping" =>
         LET h     == HostOf[worker'[w].item.url]
             delay == IF h \in run.told THEN RobotsDelay[h] ELSE 0
         IN  /\ \/ frontier.lastStart[h] = None
                \/ now - frontier.lastStart[h] >= Max({PerHostMinDelay, delay})
             /\ \/ h \in frontier.robotsKnown
                \/ \A v \in Busy : HostOf[worker[v].item.url] # h]_vars

\* A job that is not over ends: no worker sleeps through the last page, and
\* no shutdown or crash leaves the job behind.
JobEnds == task.status \in Unfinished ~> task.status \in Terminal

=============================================================================
