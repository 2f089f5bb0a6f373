------------------------------ MODULE CrawlProofs ------------------------------
(* Proofs about Crawl, for every value of its constants: what the rows, the *)
(* frontier and the workers of a job keep to, over every run, crash, append  *)
(* and cancellation.                                                         *)
EXTENDS Crawl, FrontierProofs

-----------------------------------------------------------------------------
(* The inductive invariant, in parts.                                      *)

(* What is to be written to the row: a launch opens the run, the end of a    *)
(* run has an outcome, and a request leaves the job unfinished; one that was *)
(* not refused has a URL to append.                                         *)
NextInv ==
    /\ run.phase = "opening" => run.next = "running"
    /\ run.phase = "ending" => run.next \in Terminal \cup {"paused"}
    /\ run.phase \in {"none", "working"} => run.next \in Unfinished \cup {None}
    /\ Kind = "batch" /\ run.next # None /\ run.phase \in {"none", "working"}
          => Len(task.urls) < Len(Given) + Len(Extra)
    /\ process = "down" => run.next = None

(* Who works, and on what: nobody but for a run, which has its attempt.     *)
MemoryInv ==
    /\ now \in Nat
    /\ \A w \in Busy : worker[w].item # None
    /\ run.phase # "working" => \A w \in Workers : worker[w].pc = "done"
    /\ run.phase \in {"working", "ending", "ended"} => attempts # << >>
    /\ NextInv
    /\ Len(Given) <= Len(task.urls)
    /\ process = "down" => run.phase = "none"

(* The first URL of its page among those a batch was given.                 *)
FirstOf(urls, u) ==
    \E k \in 1 .. Len(urls) : urls[k] = u /\ \A q \in 1 .. k - 1 : KeyOf[urls[q]] # KeyOf[u]
IsFirst(u) == FirstOf(task.urls, u)

(* The pages a run must not fetch again: a crawl's are its own attempt's.   *)
DoneSteps == {i \in DOMAIN steps : Kind = "batch" \/ steps[i].attempt = Latest}
DoneKeys == {KeyOf[steps[i].url] : i \in DoneSteps}
BusyKeys == {KeyOf[worker[w].item.url] : w \in Busy}

(* Every page of a run is queued, held by one worker, or done.              *)
PagesInv ==
    /\ Clean(frontier, DoneKeys \cup BusyKeys)
    /\ \A v, w \in Busy : KeyOf[worker[v].item.url] = KeyOf[worker[w].item.url] => v = w
    /\ \A w \in Workers : worker[w].pc \in {"scraping", "answered"}
          => KeyOf[worker[w].item.url] \notin DoneKeys
    /\ \A w \in Workers : worker[w].pc = "recorded" =>
          \E i \in DOMAIN steps : steps[i].url = worker[w].item.url /\ steps[i].attempt = Latest
    /\ \A i \in DOMAIN steps :
          Kind = "crawl" /\ steps[i].attempt = Latest /\ steps[i].content
             => steps[i].url \in run.seenHash

(* A batch fetches the first URL of each page, and remembers what it fed.   *)
BatchInv ==
    /\ run.seeded <= Len(task.urls)
    /\ \A k \in 1 .. run.seeded : KeyOf[task.urls[k]] \in frontier.visited
    /\ \A u \in QueuedUrls(frontier) : IsFirst(u)
    /\ \A w \in Busy : IsFirst(worker[w].item.url)

StepsInv ==
    /\ \A i \in DOMAIN steps : steps[i].attempt <= Latest
    /\ NoPageTwice
    /\ Kind = "batch" => \A i \in DOMAIN steps : IsFirst(steps[i].url)
    /\ run.phase = "working" => PagesInv
    /\ run.phase = "working" /\ Kind = "batch" => BatchInv

(* The URLs the budget counts: what the run remembers of the rows, and the  *)
(* pages under way.                                                          *)
Recorded == {w \in Workers : worker[w].pc = "recorded"}
Counted == run.taskUrls \cup {worker[w].item.url : w \in Busy}
BudgetInv ==
    /\ PagesWithinBudget
    /\ run.phase = "working" =>
          /\ FetchedUrls(steps) \subseteq run.taskUrls \cup {worker[w].item.url : w \in Recorded}
          /\ IsFiniteSet(run.taskUrls)
          /\ MaxPages # None => Cardinality(Counted) <= MaxPages

(* Every page was told of, but for the one a worker has just recorded, and   *)
(* until a launch has offered those that are there.                          *)
EventsInv ==
    /\ process # "down" /\ run.phase # "submitted" =>
          \A i \in DOMAIN steps :
             \/ PageEvent(i) \in events
             \/ \E w \in Recorded :
                   steps[i].url = worker[w].item.url /\ steps[i].attempt = Latest
    /\ process # "down" /\ run.phase = "none" /\ task.status \in Terminal
          => TerminalEvent(task.status, Latest) \in events

(* A host whose Crawl-delay was told is kept to it.                          *)
DelayInv ==
    run.phase = "working" => \A h \in run.told : frontier.delay[h] >= RobotsDelay[h]

(* What a page with content owes: itself, and its links within the depth.   *)
Owed(s) ==
    {KeyOf[s.url]} \cup
        (IF s.depth < MaxDepth THEN {KeyOf[u] : u \in ToSet(Links[s.url])} ELSE {})

(* The run of a crawl remembers all that is owed, and has it queued, under  *)
(* way or done; a worker that has left saw the queue empty.                 *)
CrawlRunInv ==
    /\ KeyOf[Given[1]] \in frontier.visited
    /\ \A i \in DOMAIN steps : steps[i].content => Owed(steps[i]) \subseteq frontier.visited
    /\ run.budget = None =>
          frontier.visited \subseteq DoneKeys \cup BusyKeys \cup QueuedKeys(frontier)
    /\ (\A i \in DOMAIN steps : ~steps[i].content) =>
          /\ QueuedUrls(frontier) \subseteq {Given[1]}
          /\ \A w \in Busy : worker[w].pc \in {"scraping", "answered"}
                => worker[w].item.url = Given[1]
    /\ (\E w \in Workers : worker[w].pc = "done") => QueuedUrls(frontier) = {} /\ Busy = {}

(* A run that completes, from its decision on.                              *)
Completes ==
    \/ run.phase \in {"ended", "none"} /\ task.status = "completed"
    \/ run.phase = "ending" /\ run.next = "completed"

LinksInv ==
    /\ task.urls[1] = Given[1]
    /\ (\E i \in DOMAIN steps : steps[i].content) =>
          \E i \in DOMAIN steps : steps[i].content /\ steps[i].url = Given[1]
    /\ run.phase \notin {"ended", "none"} => task.status # "completed"
    /\ run.phase = "working" /\ "time" \in run.aborts => run.budget # None
    /\ run.phase = "working" /\ ~Stopped => CrawlRunInv
    /\ Completes /\ attempts[Latest].budget = None
       => /\ KeyOf[Given[1]] \in DoneKeys
          /\ \A i \in DOMAIN steps : steps[i].content => Owed(steps[i]) \subseteq DoneKeys

AttemptRow ==
    [status : {"running", "interrupted"} \cup Terminal, budget : {"pages", "time", None}]

RunState ==
    [phase    : {"none", "submitted", "opening", "opened", "working", "ending", "ended"},
     next     : {None} \cup Unfinished \cup Terminal,
     taskUrls : SUBSET Urls,
     seenHash : SUBSET Urls,
     told     : SUBSET Hosts,
     seeded   : Nat,
     aborts   : SUBSET {"cancel", "shutdown", "time", "failed"},
     budget   : {"pages", "time", None}]

(* TypeOK without its last line, which follows from the rest.               *)
Shape ==
    /\ task \in [status : Unfinished \cup Terminal, urls : Seq(Urls)]
    /\ attempts \in Seq(AttemptRow)
    /\ steps \in Seq(StepRow)
    /\ process \in {"up", "closing", "down"}
    /\ run \in RunState
    /\ frontier \in Frontiers
    /\ worker \in [Workers -> WorkerState]

IInv == Shape /\ MemoryInv /\ StepsInv

-----------------------------------------------------------------------------
(* What the invariant says of the rows and the workers.                     *)

\* The rows the store keeps (steps, the task, its URLs) are what their readers
\* take them for.
LEMMA RowsAre ==
    ASSUME Shape
    PROVE  /\ DOMAIN steps = 1 .. Len(steps) /\ Len(steps) \in Nat
           /\ \A i \in DOMAIN steps :
                /\ steps[i] \in StepRow /\ steps[i].url \in Urls /\ KeyOf[steps[i].url] \in Keys
                /\ steps[i].attempt \in Nat /\ steps[i].depth \in 0 .. MaxDepth
                /\ steps[i].content \in BOOLEAN
           /\ DOMAIN task.urls = 1 .. Len(task.urls) /\ Len(task.urls) \in Nat
           /\ task.urls \in Seq(Urls) /\ task.status \in Unfinished \cup Terminal
           /\ \A k \in 1 .. Len(task.urls) : task.urls[k] \in Urls /\ KeyOf[task.urls[k]] \in Keys
           /\ Latest \in Nat /\ DOMAIN attempts = 1 .. Len(attempts)
           /\ DoneKeys \in SUBSET Keys
<1>1. steps \in Seq(StepRow) /\ task.urls \in Seq(Urls) /\ task.status \in Unfinished \cup Terminal
    BY DEF Shape
<1>2. DOMAIN steps = 1 .. Len(steps) /\ Len(steps) \in Nat
      /\ DOMAIN task.urls = 1 .. Len(task.urls) /\ Len(task.urls) \in Nat
    BY <1>1, LenProperties
<1>3. Latest \in Nat /\ DOMAIN attempts = 1 .. Len(attempts)
    BY LenProperties DEF Shape, Latest
<1>4. \A i \in DOMAIN steps : steps[i] \in StepRow
    BY <1>1, <1>2, ElementOfSeq
<1>5. \A i \in DOMAIN steps :
        /\ steps[i].url \in Urls /\ steps[i].attempt \in Nat
        /\ steps[i].depth \in 0 .. MaxDepth /\ steps[i].content \in BOOLEAN
    BY <1>4 DEF StepRow
<1>6. \A k \in 1 .. Len(task.urls) : task.urls[k] \in Urls
    BY <1>1, <1>2, ElementOfSeq
<1>7. \A u \in Urls : KeyOf[u] \in Keys
    BY DEF Keys
<1>8. DoneKeys \in SUBSET Keys
    BY <1>5, <1>7 DEF DoneKeys, DoneSteps
<1>. QED BY <1>1, <1>2, <1>3, <1>4, <1>5, <1>6, <1>7, <1>8

\* The busy workers are finitely many, and each holds a URL at a depth allowed.
LEMMA WorkersAre ==
    ASSUME Shape, MemoryInv
    PROVE  /\ \A w \in Workers : worker[w] \in WorkerState
           /\ \A w \in Busy :
                /\ w \in Workers /\ worker[w].item \in Item
                /\ worker[w].item.url \in Urls /\ worker[w].item.depth \in 0 .. MaxDepth
                /\ KeyOf[worker[w].item.url] \in Keys /\ HostOf[worker[w].item.url] \in Hosts
           /\ BusyKeys \in SUBSET Keys
           /\ Busy \subseteq Workers /\ IsFiniteSet(Busy)
<1>1. \A w \in Workers : worker[w] \in WorkerState
    BY DEF Shape
<1>2. Busy \subseteq Workers /\ IsFiniteSet(Busy)
  <2>1. Busy \in SUBSET Workers
      BY DEF Busy
  <2>. QED BY <2>1, FS_Subset, CrawlAssumption
<1>3. \A w \in Busy : worker[w].item \in Item
    BY <1>1, <1>2 DEF WorkerState, MemoryInv
<1>4. \A w \in Busy : worker[w].item.url \in Urls /\ worker[w].item.depth \in 0 .. MaxDepth
    BY <1>3 DEF Item
<1>5. \A u \in Urls : KeyOf[u] \in Keys /\ HostOf[u] \in Hosts
    BY FrontierAssumption DEF Keys
<1>6. BusyKeys \in SUBSET Keys
    BY <1>4, <1>5 DEF BusyKeys
<1>. QED BY <1>1, <1>2, <1>3, <1>4, <1>5, <1>6

\* The inductive invariant contains the type invariant.
LEMMA ShapeIsType ==
    ASSUME IInv
    PROVE  TypeOK
<1>1. ASSUME NEW v \in Busy, NEW w \in Busy, worker[v].item.url = worker[w].item.url PROVE v = w
  <2>1. run.phase = "working"
      BY DEF IInv, MemoryInv, Busy
  <2>. QED BY <1>1, <2>1 DEF IInv, StepsInv, PagesInv
<1>. QED BY <1>1 DEF IInv, Shape, TypeOK, AttemptRow, RunState, Unfinished

(* Fewer keys to avoid are avoided too.                                     *)
LEMMA CleanFewer ==
    ASSUME NEW f, NEW g, NEW taken, NEW less, less \subseteq taken, Clean(f, taken),
           g.pending = f.pending, g.visited = f.visited
    PROVE  Clean(g, less)
BY DEF Clean, QueuedKeys

-----------------------------------------------------------------------------
(* Steps that record no page and feed nothing.                              *)

(* The URLs a task has stay its first ones.                                 *)
UrlsStay ==
    /\ Len(task.urls) <= Len(task'.urls)
    /\ \A k \in 1 .. Len(task.urls) : task'.urls[k] = task.urls[k]

(* A worker stays as it is, or holds no page any more; none that has left   *)
(* comes back.                                                               *)
Shifts ==
    \A w \in Workers :
        \/ worker'[w] = worker[w]
        \/ /\ worker'[w].pc \in {"top", "waiting", "parked", "done"}
           /\ worker[w].pc # "done"

\* The first spelling of a key in the task's list stays the first: the list
\* only grows (engine.ts appendUrls).
LEMMA FirstStays ==
    ASSUME Shape, UrlsStay, NEW u, IsFirst(u)
    PROVE  IsFirst(u)'
<1>1. PICK k \in 1 .. Len(task.urls) :
          task.urls[k] = u /\ \A q \in 1 .. k - 1 : KeyOf[task.urls[q]] # KeyOf[u]
    BY DEF IsFirst, FirstOf
<1>2. Len(task.urls) \in Nat
    BY RowsAre
<1>3. \A q \in 1 .. k - 1 : q \in 1 .. Len(task.urls)
    BY <1>2
<1>4. \A q \in 1 .. k - 1 : KeyOf[task'.urls[q]] # KeyOf[u]
    BY <1>1, <1>3 DEF UrlsStay
<1>5. k \in 1 .. Len(task'.urls)
    BY <1>2 DEF UrlsStay
<1>. QED BY <1>1, <1>4, <1>5 DEF IsFirst, FirstOf, UrlsStay

(* The rows of the steps and the number of attempts do not change.          *)
RowsStay == steps' = steps /\ Latest' = Latest /\ UrlsStay

\* The keys with a page are read from the rows alone.
LEMMA DoneStays ==
    ASSUME RowsStay
    PROVE  DoneKeys' = DoneKeys
BY DEF RowsStay, DoneKeys, DoneSteps

(* No run works after the step: what is done stays done.                    *)
LEMMA NotWorking ==
    ASSUME Shape, StepsInv, RowsStay, run'.phase # "working"
    PROVE  StepsInv'
<1>1. (\A i \in DOMAIN steps : steps[i].attempt <= Latest)'
    BY DEF StepsInv, RowsStay
<1>2. NoPageTwice'
    BY DEF StepsInv, RowsStay, NoPageTwice
<1>3. (Kind = "batch" => \A i \in DOMAIN steps : IsFirst(steps[i].url))'
    BY FirstStays DEF StepsInv, RowsStay
<1>. QED BY <1>1, <1>2, <1>3 DEF StepsInv

(* The run goes on with the same memory and frontier; its workers shift.    *)
LEMMA Quiet ==
    ASSUME Shape, MemoryInv, StepsInv, RowsStay, Shifts,
           run'.phase = run.phase, run'.seenHash = run.seenHash, run'.seeded = run.seeded,
           frontier' = frontier
    PROVE  StepsInv'
<1>1. CASE run.phase # "working"
    BY <1>1, NotWorking
<1>2. CASE run.phase = "working"
  <2>1. Busy' \subseteq Busy /\ \A w \in Busy' : worker'[w] = worker[w]
      BY DEF Busy, Shifts
  <2>2. DoneKeys' = DoneKeys /\ BusyKeys' \subseteq BusyKeys
      BY <2>1, DoneStays DEF BusyKeys
  <2>3. PagesInv /\ (Kind = "batch" => BatchInv)
      BY <1>2 DEF StepsInv
  <2>4. Clean(frontier', DoneKeys' \cup BusyKeys')
      BY <2>2, <2>3, CleanFewer DEF PagesInv
  <2>5. \A w \in Workers : worker'[w].pc \in {"scraping", "answered", "recorded"} => worker'[w] = worker[w]
      BY DEF Shifts
  <2>6. PagesInv'
    <3>1. (\A v, w \in Busy :
              KeyOf[worker[v].item.url] = KeyOf[worker[w].item.url] => v = w)'
        BY <2>1, <2>3 DEF PagesInv
    <3>2. (\A w \in Workers : worker[w].pc \in {"scraping", "answered"}
              => KeyOf[worker[w].item.url] \notin DoneKeys)'
        BY <2>2, <2>3, <2>5 DEF PagesInv
    <3>3. (\A w \in Workers : worker[w].pc = "recorded" =>
              \E i \in DOMAIN steps :
                 steps[i].url = worker[w].item.url /\ steps[i].attempt = Latest)'
        BY <2>3, <2>5 DEF PagesInv, RowsStay
    <3>4. (\A i \in DOMAIN steps :
              Kind = "crawl" /\ steps[i].attempt = Latest /\ steps[i].content
                 => steps[i].url \in run.seenHash)'
        BY <2>3 DEF PagesInv, RowsStay
    <3>. QED BY <2>4, <3>1, <3>2, <3>3, <3>4 DEF PagesInv
  <2>7. ASSUME Kind = "batch" PROVE BatchInv'
    <3>1. BatchInv
        BY <2>3, <2>7
    <3>2. Len(task.urls) \in Nat /\ run.seeded \in Nat
        BY RowsAre DEF Shape, RunState
    <3>3. (run.seeded <= Len(task.urls))'
        BY <3>1, <3>2, LenProperties DEF BatchInv, RowsStay, UrlsStay
    <3>4. (\A k \in 1 .. run.seeded : KeyOf[task.urls[k]] \in frontier.visited)'
      <4>1. \A k \in 1 .. run.seeded : k \in 1 .. Len(task.urls)
          BY <3>1, <3>2 DEF BatchInv
      <4>. QED BY <3>1, <4>1 DEF BatchInv, RowsStay, UrlsStay
    <3>5. (\A u \in QueuedUrls(frontier) : IsFirst(u))'
        BY <3>1, FirstStays DEF BatchInv, RowsStay, QueuedUrls
    <3>6. (\A w \in Busy : IsFirst(worker[w].item.url))'
        BY <2>1, <3>1, FirstStays DEF BatchInv, RowsStay
    <3>. QED BY <3>3, <3>4, <3>5, <3>6 DEF BatchInv
  <2>8. (\A i \in DOMAIN steps : steps[i].attempt <= Latest)'
      BY DEF StepsInv, RowsStay
  <2>9. NoPageTwice'
      BY DEF StepsInv, RowsStay, NoPageTwice
  <2>10. (Kind = "batch" => \A i \in DOMAIN steps : IsFirst(steps[i].url))'
      BY FirstStays DEF StepsInv, RowsStay
  <2>. QED BY <2>6, <2>7, <2>8, <2>9, <2>10 DEF StepsInv
<1>. QED BY <1>1, <1>2

-----------------------------------------------------------------------------
(* A look at the queue.                                                    *)

(* Before it a batch's new URLs are fed: every URL is remembered then, and   *)
(* what is queued is the first of its page.                                  *)
LEMMA FedIs ==
    ASSUME Shape, MemoryInv, StepsInv, run.phase = "working"
    PROVE  /\ Fed \in Frontiers
           /\ Extends(frontier, Fed, ToSet(task.urls))
           /\ Clean(Fed, DoneKeys \cup BusyKeys)
           /\ Kind # "batch" => Fed = frontier
           /\ Kind = "batch" =>
                /\ \A k \in 1 .. Len(task.urls) : KeyOf[task.urls[k]] \in Fed.visited
                /\ \A u \in QueuedUrls(Fed) : IsFirst(u)
<1>. DEFINE n == Len(task.urls)
            more == SubSeq(task.urls, run.seeded + 1, n)
<1>1. frontier \in Frontiers /\ n \in Nat /\ run.seeded \in Nat
    BY RowsAre DEF Shape, RunState
<1>2. PagesInv /\ (Kind = "batch" => BatchInv)
    BY DEF StepsInv
<1>3. DoneKeys \cup BusyKeys \in SUBSET Keys
    BY RowsAre, WorkersAre
<1>4. CASE HasAppended
  <2>1. /\ more \in Seq(Urls) /\ Len(more) = n - run.seeded
        /\ \A k \in 1 .. n - run.seeded : more[k] = task.urls[run.seeded + k]
    <3>1. run.seeded < n
        BY <1>1, <1>4 DEF HasAppended
    <3>2. \A k \in run.seeded + 1 .. n : task.urls[k] \in Urls
        BY <1>1, RowsAre
    <3>3. /\ more \in Seq(Urls)
          /\ Len(more) = IF run.seeded + 1 <= n THEN n - (run.seeded + 1) + 1 ELSE 0
          /\ \A k \in 1 .. n - (run.seeded + 1) + 1 : more[k] = task.urls[run.seeded + 1 + k - 1]
        BY <1>1, <3>2, SubSeqProperties
    <3>. HIDE DEF more
    <3>4. n - (run.seeded + 1) + 1 = n - run.seeded /\ run.seeded + 1 <= n
        BY <1>1, <3>1
    <3>5. \A k \in 1 .. n - run.seeded : run.seeded + 1 + k - 1 = run.seeded + k
        BY <1>1
    <3>. QED BY <3>3, <3>4, <3>5
  <2>2. Fed = SeedBatchUrls(frontier, more, run.taskUrls)
      BY <1>4 DEF Fed
  <2>. HIDE DEF more
  <2>3. PICK g : g = Fed
      OBVIOUS
  <2>4. /\ g \in Frontiers /\ Extends(frontier, g, ToSet(more))
        /\ \A k \in 1 .. Len(more) : KeyOf[more[k]] \in g.visited
        /\ \A u \in QueuedUrls(g) \ QueuedUrls(frontier) :
             /\ KeyOf[u] \notin frontier.visited
             /\ \E k \in 1 .. Len(more) :
                   more[k] = u /\ \A q \in 1 .. k - 1 : KeyOf[more[q]] # KeyOf[u]
    <3>1. PICK f, seq, fetched : f = frontier /\ seq = more /\ fetched = run.taskUrls
        OBVIOUS
    <3>2. f \in Frontiers /\ seq \in Seq(Urls) /\ g = SeedBatchUrls(f, seq, fetched)
        BY <1>1, <2>1, <2>2, <2>3, <3>1
    <3>3. /\ g \in Frontiers /\ Extends(f, g, ToSet(seq))
          /\ \A k \in 1 .. Len(seq) : KeyOf[seq[k]] \in g.visited
          /\ \A u \in QueuedUrls(g) \ QueuedUrls(f) :
               /\ u \notin fetched /\ KeyOf[u] \notin f.visited
               /\ \E k \in 1 .. Len(seq) :
                     seq[k] = u /\ \A q \in 1 .. k - 1 : KeyOf[seq[q]] # KeyOf[u]
        BY <3>2, SeedIs
    <3>. QED BY <3>1, <3>3
  <2>5. ToSet(more) \subseteq ToSet(task.urls)
    <3>1. \A k \in 1 .. n - run.seeded : run.seeded + k \in 1 .. n
        BY <1>1
    <3>2. DOMAIN more = 1 .. n - run.seeded /\ DOMAIN task.urls = 1 .. n
        BY <2>1, LenProperties, RowsAre
    <3>. QED BY <2>1, <3>1, <3>2 DEF ToSet
  <2>6. Extends(frontier, g, ToSet(task.urls))
      BY <2>4, <2>5 DEF Extends
  <2>7. Clean(g, DoneKeys \cup BusyKeys)
      BY <1>2, <1>3, <2>4 DEF Extends, PagesInv
  <2>8. BatchInv /\ Kind = "batch"
      BY <1>2, <1>4 DEF HasAppended
  <2>9. \A k \in 1 .. n : KeyOf[task.urls[k]] \in g.visited
    <3>. TAKE k \in 1 .. n
    <3>1. CASE k <= run.seeded
      <4>1. k \in 1 .. run.seeded
          BY <1>1, <3>1
      <4>. QED BY <2>4, <2>8, <4>1 DEF BatchInv, Extends
    <3>2. CASE ~(k <= run.seeded)
      <4>1. k - run.seeded \in 1 .. n - run.seeded /\ run.seeded + (k - run.seeded) = k
          BY <1>1, <3>2
      <4>. QED BY <2>1, <2>4, <4>1
    <3>. QED BY <3>1, <3>2
  <2>10. ASSUME NEW u \in QueuedUrls(g) PROVE IsFirst(u)
    <3>1. CASE u \in QueuedUrls(frontier)
        BY <2>8, <3>1 DEF BatchInv
    <3>2. CASE u \notin QueuedUrls(frontier)
      <4>1. KeyOf[u] \notin frontier.visited
          BY <2>4, <2>10, <3>2
      <4>2. PICK k \in 1 .. n - run.seeded :
                more[k] = u /\ \A q \in 1 .. k - 1 : KeyOf[more[q]] # KeyOf[u]
          BY <2>1, <2>4, <2>10, <3>2
      <4>3. run.seeded + k \in 1 .. n /\ task.urls[run.seeded + k] = u
          BY <1>1, <2>1, <4>2
      <4>4. PICK j : j = run.seeded + k
          OBVIOUS
      <4>5. ASSUME NEW q \in 1 .. j - 1 PROVE KeyOf[task.urls[q]] # KeyOf[u]
        <5>1. CASE q <= run.seeded
          <6>1. q \in 1 .. run.seeded
              BY <1>1, <5>1
          <6>. QED BY <2>8, <4>1, <6>1 DEF BatchInv
        <5>2. CASE ~(q <= run.seeded)
          <6>1. /\ q - run.seeded \in 1 .. k - 1 /\ q - run.seeded \in 1 .. n - run.seeded
                /\ run.seeded + (q - run.seeded) = q
              BY <1>1, <4>4, <5>2
          <6>. QED BY <2>1, <4>2, <6>1
        <5>. QED BY <5>1, <5>2
      <4>6. j \in 1 .. Len(task.urls) /\ task.urls[j] = u
          BY <4>3, <4>4
      <4>. QED BY <4>5, <4>6, Zenon DEF IsFirst, FirstOf
    <3>. QED BY <3>1, <3>2
  <2>. QED BY <2>3, <2>4, <2>6, <2>7, <2>8, <2>9, <2>10
<1>5. CASE ~HasAppended
  <2>1. Fed = frontier
      BY <1>5 DEF Fed
  <2>2. Kind = "batch" => run.seeded = n
      BY <1>1, <1>2, <1>5 DEF HasAppended, BatchInv
  <2>. QED BY <1>1, <1>2, <2>1, <2>2, ExtendsNothing DEF PagesInv, BatchInv
<1>. QED BY <1>4, <1>5

(* The look itself.                                                          *)
LEMMA LookIs ==
    ASSUME Shape, MemoryInv, StepsInv, run.phase = "working"
    PROVE  /\ Look.frontier \in Frontiers
           /\ Look.frontier.visited = Fed.visited
           /\ Look.frontier.robotsKnown = frontier.robotsKnown
           /\ Look.frontier.delay = frontier.delay
           /\ QueuedUrls(Look.frontier) \subseteq QueuedUrls(Fed)
           /\ Clean(Look.frontier, DoneKeys \cup BusyKeys)
           /\ Look.nextReadyAt \in Nat \cup {None}
           /\ \/ /\ Look.item = None
                 /\ Look.frontier.lastStart = frontier.lastStart
                 /\ Look.refused \/ QueuedKeys(Fed) \subseteq QueuedKeys(Look.frontier)
                 /\ Look.nextReadyAt # None
                       \/ \A u \in QueuedUrls(Look.frontier) : ~HasSlot(Fed, HostOf[u], SlotsTaken)
              \/ /\ Look.item \in Item /\ Look.item # None
                 /\ Look.item.url \in Admitted \cap QueuedUrls(Fed)
                 /\ HasSlot(Fed, HostOf[Look.item.url], SlotsTaken)
                 /\ ReadyAt(Fed, HostOf[Look.item.url]) <= now
                 /\ Look.frontier.lastStart =
                       [frontier.lastStart EXCEPT ![HostOf[Look.item.url]] = now]
                 /\ Look.refused
                       \/ QueuedKeys(Fed) \subseteq QueuedKeys(Look.frontier) \cup {KeyOf[Look.item.url]}
                 /\ Clean(Look.frontier, DoneKeys \cup BusyKeys \cup {KeyOf[Look.item.url]})
                 /\ KeyOf[Look.item.url] \notin DoneKeys \cup BusyKeys
<1>1. PICK f, at, slots, may, r, g, taken :
          /\ f = Fed /\ at = now /\ slots = SlotsTaken /\ may = Admitted
          /\ r = Look /\ g = r.frontier /\ taken = DoneKeys \cup BusyKeys
    OBVIOUS
<1>2. /\ f \in Frontiers /\ at \in Nat /\ r = Dequeue(f, at, slots, may) /\ g = r.frontier
      /\ Clean(f, taken) /\ taken \in SUBSET Keys
    BY <1>1, FedIs, RowsAre, WorkersAre DEF Look, MemoryInv
<1>0. Dequeued(f, at, slots, may, r, g)
    BY <1>2, DequeueIs
<1>3. /\ g \in Frontiers
      /\ g.visited = f.visited /\ g.robotsKnown = f.robotsKnown /\ g.delay = f.delay
      /\ QueuedUrls(g) \subseteq QueuedUrls(f)
      /\ \A t \in SUBSET Keys : Clean(f, t) => Clean(g, t)
      /\ r.nextReadyAt \in Nat \cup {None}
      /\ \/ /\ r.item = None
            /\ g.lastStart = f.lastStart
            /\ r.refused \/ QueuedKeys(f) \subseteq QueuedKeys(g)
            /\ r.nextReadyAt # None
                  \/ \A u \in QueuedUrls(g) : ~HasSlot(f, HostOf[u], slots)
         \/ /\ r.item \in Item /\ r.item.url \in may \cap QueuedUrls(f)
            /\ HasSlot(f, HostOf[r.item.url], slots)
            /\ ReadyAt(f, HostOf[r.item.url]) <= at
            /\ g.lastStart = [f.lastStart EXCEPT ![HostOf[r.item.url]] = at]
            /\ r.refused
                  \/ QueuedKeys(f) \subseteq QueuedKeys(g) \cup {KeyOf[r.item.url]}
            /\ \A t \in SUBSET Keys : Clean(f, t) => Clean(g, t \cup {KeyOf[r.item.url]})
    BY <1>0 DEF Dequeued
<1>4. f.robotsKnown = frontier.robotsKnown /\ f.delay = frontier.delay
      /\ f.lastStart = frontier.lastStart
    BY <1>1, FedIs DEF Extends
<1>5. ASSUME r.item.url \in QueuedUrls(f) PROVE KeyOf[r.item.url] \notin taken
    BY <1>2, <1>5, Queued DEF Clean
<1>6. None \notin Item
    BY FrontierAssumption DEF Item
<1>7. Clean(g, taken)
    BY <1>2, <1>3
<1>8. CASE r.item = None
    BY <1>1, <1>3, <1>4, <1>6, <1>7, <1>8
<1>9. CASE r.item # None
  <2>1. /\ r.item \in Item /\ r.item.url \in may \cap QueuedUrls(f)
        /\ HasSlot(f, HostOf[r.item.url], slots)
        /\ ReadyAt(f, HostOf[r.item.url]) <= at
        /\ g.lastStart = [f.lastStart EXCEPT ![HostOf[r.item.url]] = at]
        /\ r.refused
              \/ QueuedKeys(f) \subseteq QueuedKeys(g) \cup {KeyOf[r.item.url]}
        /\ Clean(g, taken \cup {KeyOf[r.item.url]})
      BY <1>2, <1>3, <1>9
  <2>2. KeyOf[r.item.url] \notin taken
      BY <1>5, <2>1
  <2>. QED BY <1>1, <1>3, <1>4, <1>7, <1>9, <2>1, <2>2
<1>. QED BY <1>8, <1>9


-----------------------------------------------------------------------------
(* A worker takes a page, waits, parks or leaves.                          *)

(* Waking the workers moves the parked ones alone.                          *)
LEMMA WokenIs ==
    ASSUME NEW workers \in [Workers -> WorkerState]
    PROVE  /\ Woken(workers) \in [Workers -> WorkerState]
           /\ \A v \in Workers :
                /\ workers[v].pc # "parked" => Woken(workers)[v] = workers[v]
                /\ workers[v].pc = "parked" =>
                      Woken(workers)[v].pc = "top" /\ Woken(workers)[v].item = workers[v].item
<1>1. ASSUME NEW v \in Workers
      PROVE  /\ Woken(workers)[v] \in WorkerState
             /\ workers[v].pc # "parked" => Woken(workers)[v] = workers[v]
             /\ workers[v].pc = "parked" =>
                   Woken(workers)[v].pc = "top" /\ Woken(workers)[v].item = workers[v].item
  <2>1. workers[v] \in WorkerState
      OBVIOUS
  <2>. QED BY <2>1 DEF Woken, WorkerState
<1>2. Woken(workers) = [v \in Workers |-> Woken(workers)[v]]
    BY DEF Woken
<1>. QED BY <1>1, <1>2

(* What a look leaves: w at to, and the others as they were, but awake.      *)
LEMMA LookLeaves ==
    ASSUME Shape, NEW w \in Workers, NEW to \in WorkerState, Looked(w, to)
    PROVE  /\ worker' \in [Workers -> WorkerState] /\ worker'[w] = to
           /\ \A v \in Workers \ {w} :
                \/ worker'[v] = worker[v]
                \/ worker[v].pc = "parked" /\ worker'[v].pc = "top"
           /\ frontier' = Look.frontier
           /\ run'.seeded = Max({run.seeded, Len(task.urls)})
           /\ run'.budget = IF Look.refused THEN "pages" ELSE run.budget
           /\ run'.phase = run.phase /\ run'.taskUrls = run.taskUrls
           /\ run'.seenHash = run.seenHash /\ run'.aborts = run.aborts
           /\ run'.next = run.next /\ run'.told = run.told
           /\ run' \in RunState
           /\ task' = task /\ attempts' = attempts /\ steps' = steps /\ Latest' = Latest
           /\ events' = events /\ process' = process /\ now' = now
<1>1. worker \in [Workers -> WorkerState] /\ run \in RunState
    BY DEF Shape
<1>2. FedWorkers \in [Workers -> WorkerState]
      /\ \A v \in Workers : \/ FedWorkers[v] = worker[v]
                            \/ worker[v].pc = "parked" /\ FedWorkers[v].pc = "top"
    BY <1>1, WokenIs DEF FedWorkers
<1>3. worker' = [FedWorkers EXCEPT ![w] = to]
    BY DEF Looked
<1>4. /\ worker' \in [Workers -> WorkerState] /\ worker'[w] = to
      /\ \A v \in Workers \ {w} :
           \/ worker'[v] = worker[v]
           \/ worker[v].pc = "parked" /\ worker'[v].pc = "top"
  <2>. HIDE DEF FedWorkers
  <2>. QED BY <1>2, <1>3
<1>5. Max({run.seeded, Len(task.urls)}) \in Nat
  <2>1. run.seeded \in Nat /\ Len(task.urls) \in Nat
      BY <1>1, RowsAre DEF RunState
  <2>. QED BY <2>1, MaxOfTwo
<1>6. PICK top, cut : /\ top = Max({run.seeded, Len(task.urls)})
                      /\ cut = IF Look.refused THEN "pages" ELSE run.budget
    OBVIOUS
<1>7. run' = [run EXCEPT !.seeded = top, !.budget = cut]
    BY <1>6, Zenon DEF Looked
<1>8. top \in Nat /\ cut \in {"pages", "time", None}
    BY <1>1, <1>5, <1>6 DEF RunState
<1>9. /\ run'.seeded = top /\ run'.budget = cut
      /\ run'.phase = run.phase /\ run'.taskUrls = run.taskUrls
      /\ run'.seenHash = run.seenHash /\ run'.aborts = run.aborts
      /\ run'.next = run.next /\ run'.told = run.told
      /\ run' \in RunState
    BY <1>1, <1>7, <1>8 DEF RunState
<1>10. /\ task' = task /\ attempts' = attempts /\ steps' = steps /\ frontier' = Look.frontier
       /\ events' = events /\ process' = process /\ now' = now
    BY DEF Looked, store
<1>. QED BY <1>4, <1>6, <1>9, <1>10 DEF Latest


(* The page a worker turns to after a look, if there is one.                 *)
Turns(w, to) ==
    \/ Look.item = None /\ to.pc \in {"waiting", "parked", "done"}
    \/ Look.item # None /\ to.pc = "scraping" /\ to.item = Look.item

\* A worker that looks for its next page and takes it, waits, parks or leaves
\* keeps the invariant.
LEMMA LookKeeps ==
    ASSUME IInv, NEW w \in Workers, NEW to \in WorkerState, AtTop(w), Looked(w, to), Turns(w, to)
    PROVE  IInv'
<1>1. Shape /\ MemoryInv /\ StepsInv /\ run.phase = "working" /\ worker[w].pc = "top"
    BY DEF IInv, AtTop, Turn
<1>2. PagesInv /\ (Kind = "batch" => BatchInv)
    BY <1>1 DEF StepsInv
<1>3. PICK look : look = Look
    OBVIOUS
<1>4. /\ look.frontier \in Frontiers
      /\ look.frontier.visited = Fed.visited
      /\ QueuedUrls(look.frontier) \subseteq QueuedUrls(Fed)
      /\ Clean(look.frontier, DoneKeys \cup BusyKeys)
      /\ look.item # None =>
            /\ look.item \in Item
            /\ look.item.url \in QueuedUrls(Fed)
            /\ Clean(look.frontier, DoneKeys \cup BusyKeys \cup {KeyOf[look.item.url]})
            /\ KeyOf[look.item.url] \notin DoneKeys \cup BusyKeys
    BY <1>1, <1>3, LookIs
<1>5. /\ worker' \in [Workers -> WorkerState] /\ worker'[w] = to
      /\ \A v \in Workers \ {w} :
           \/ worker'[v] = worker[v]
           \/ worker[v].pc = "parked" /\ worker'[v].pc = "top"
      /\ frontier' = look.frontier
      /\ run'.seeded = Max({run.seeded, Len(task.urls)})
      /\ run'.phase = run.phase /\ run'.seenHash = run.seenHash /\ run'.next = run.next
      /\ run' \in RunState
      /\ task' = task /\ attempts' = attempts /\ steps' = steps /\ Latest' = Latest
      /\ process' = process /\ now' = now
    BY <1>1, <1>3, LookLeaves
<1>6. /\ look.item = None => Busy' = Busy
      /\ look.item # None => Busy' = Busy \cup {w} /\ to.item = look.item
      /\ w \notin Busy
      /\ \A v \in Busy : v \in Workers /\ v # w /\ worker'[v] = worker[v]
    BY <1>1, <1>3, <1>5 DEF Turns, Busy
<1>7. DoneKeys' = DoneKeys
    BY <1>5 DEF DoneKeys, DoneSteps
<1>8. Shape'
    BY <1>1, <1>4, <1>5 DEF Shape
<1>9. MemoryInv'
  <2>1. (\A v \in Busy : worker[v].item # None)'
      BY <1>1, <1>5, <1>6 DEF MemoryInv
  <2>. QED BY <1>1, <1>5, <2>1 DEF MemoryInv, NextInv
<1>10. PagesInv'
  <2>1. Clean(frontier', DoneKeys' \cup BusyKeys')
    <3>1. CASE look.item = None
      <4>1. BusyKeys' = BusyKeys
          BY <1>6, <3>1 DEF BusyKeys
      <4>. QED BY <1>4, <1>5, <1>7, <4>1
    <3>2. CASE look.item # None
      <4>1. BusyKeys' = BusyKeys \cup {KeyOf[look.item.url]}
          BY <1>5, <1>6, <3>2 DEF BusyKeys
      <4>2. DoneKeys' \cup BusyKeys' = DoneKeys \cup BusyKeys \cup {KeyOf[look.item.url]}
          BY <1>7, <4>1
      <4>. QED BY <1>4, <1>5, <3>2, <4>2
    <3>. QED BY <3>1, <3>2
  <2>2. (\A u, v \in Busy : KeyOf[worker[u].item.url] = KeyOf[worker[v].item.url] => u = v)'
    <3>1. ASSUME look.item # None, NEW v \in Busy
          PROVE  KeyOf[worker[v].item.url] # KeyOf[look.item.url]
        BY <1>4, <3>1 DEF BusyKeys
    <3>2. \A u, v \in Busy : KeyOf[worker[u].item.url] = KeyOf[worker[v].item.url] => u = v
        BY <1>2 DEF PagesInv
    <3>3. CASE look.item = None
        BY <1>6, <3>2, <3>3
    <3>4. CASE look.item # None
        BY <1>5, <1>6, <3>1, <3>2, <3>4
    <3>. QED BY <3>3, <3>4
  <2>3. (\A v \in Workers :
            worker[v].pc \in {"scraping", "answered"} => KeyOf[worker[v].item.url] \notin DoneKeys)'
    <3>. SUFFICES ASSUME NEW v \in Workers, worker'[v].pc \in {"scraping", "answered"}
                  PROVE  KeyOf[worker'[v].item.url] \notin DoneKeys
        BY <1>7
    <3>1. CASE v = w
        BY <1>3, <1>4, <1>5, <3>1 DEF Turns
    <3>2. CASE v # w
        BY <1>2, <1>5, <3>2 DEF PagesInv
    <3>. QED BY <3>1, <3>2
  <2>4. (\A v \in Workers : worker[v].pc = "recorded" =>
            \E i \in DOMAIN steps : steps[i].url = worker[v].item.url /\ steps[i].attempt = Latest)'
    <3>. SUFFICES ASSUME NEW v \in Workers, worker'[v].pc = "recorded"
                  PROVE  \E i \in DOMAIN steps :
                            steps[i].url = worker'[v].item.url /\ steps[i].attempt = Latest
        BY <1>5
    <3>1. v # w
        BY <1>5 DEF Turns
    <3>2. worker'[v] = worker[v]
        BY <1>5, <3>1
    <3>. QED BY <1>2, <3>2 DEF PagesInv
  <2>5. (\A i \in DOMAIN steps : Kind = "crawl" /\ steps[i].attempt = Latest /\ steps[i].content
            => steps[i].url \in run.seenHash)'
      BY <1>2, <1>5 DEF PagesInv
  <2>. QED BY <2>1, <2>2, <2>3, <2>4, <2>5 DEF PagesInv
<1>11. ASSUME Kind = "batch" PROVE BatchInv'
  <2>1. /\ \A k \in 1 .. Len(task.urls) : KeyOf[task.urls[k]] \in Fed.visited
        /\ \A u \in QueuedUrls(Fed) : IsFirst(u)
      BY <1>1, <1>11, FedIs
  <2>2. run'.seeded = Len(task.urls)
    <3>1. run.seeded \in Nat /\ Len(task.urls) \in Nat /\ run.seeded <= Len(task.urls)
        BY <1>1, <1>2, <1>11, RowsAre DEF Shape, RunState, BatchInv
    <3>2. PICK a, b : a = run.seeded /\ b = Len(task.urls)
        OBVIOUS
    <3>3. Max({a, b}) \in {a, b} /\ Max({a, b}) >= a /\ Max({a, b}) >= b
        BY <3>1, <3>2, MaxOfTwo
    <3>. QED BY <1>5, <3>1, <3>2, <3>3
  <2>3. (run.seeded <= Len(task.urls))'
      BY <1>1, <1>5, <2>2, RowsAre
  <2>4. (\A k \in 1 .. run.seeded : KeyOf[task.urls[k]] \in frontier.visited)'
      BY <1>4, <1>5, <2>1, <2>2
  <2>5. ASSUME NEW u, IsFirst(u) PROVE IsFirst(u)'
      BY <1>5, <2>5 DEF IsFirst, FirstOf
  <2>6. (\A u \in QueuedUrls(frontier) : IsFirst(u))'
      BY <1>4, <1>5, <2>1, <2>5 DEF QueuedUrls
  <2>7. (\A v \in Busy : IsFirst(worker[v].item.url))'
    <3>1. \A v \in Busy : IsFirst(worker[v].item.url)
        BY <1>2, <1>11 DEF BatchInv
    <3>2. look.item # None => IsFirst(look.item.url)
        BY <1>4, <2>1
    <3>. QED BY <1>5, <1>6, <2>5, <3>1, <3>2
  <2>. QED BY <2>3, <2>4, <2>6, <2>7 DEF BatchInv
<1>12. StepsInv'
  <2>1. (\A i \in DOMAIN steps : steps[i].attempt <= Latest)'
      BY <1>1, <1>5 DEF StepsInv
  <2>2. NoPageTwice'
      BY <1>1, <1>5 DEF StepsInv, NoPageTwice
  <2>3. (Kind = "batch" => \A i \in DOMAIN steps : IsFirst(steps[i].url))'
      BY <1>1, <1>5 DEF StepsInv, IsFirst, FirstOf
  <2>. QED BY <1>10, <1>11, <2>1, <2>2, <2>3 DEF StepsInv
<1>. QED BY <1>8, <1>9, <1>12 DEF IInv

\* Each of the four ends of a look is such a look.
LEMMA LooksKeep ==
    ASSUME IInv, NEW w \in Workers, TakePage(w) \/ WaitForHost(w) \/ Park(w) \/ Leave(w)
    PROVE  IInv'
<1>1. None \notin Item /\ None \notin Nat
    BY FrontierAssumption DEF Item
<1>2. CASE TakePage(w)
  <2>1. PICK to : to = [NoItem EXCEPT !.pc = "scraping", !.item = Look.item]
      OBVIOUS
  <2>2. Look.item \in Item
      BY <1>2, LookIs DEF IInv, TakePage, AtTop, Turn
  <2>3. to \in WorkerState /\ to.pc = "scraping" /\ to.item = Look.item
      BY <2>1, <2>2 DEF NoItem, WorkerState
  <2>4. AtTop(w) /\ Looked(w, to) /\ Turns(w, to)
      BY <1>2, <2>1, <2>3 DEF TakePage, Turns
  <2>. QED BY <2>3, <2>4, LookKeeps
<1>3. CASE WaitForHost(w)
  <2>1. PICK to : to = [NoItem EXCEPT !.pc = "waiting", !.until = Look.nextReadyAt]
      OBVIOUS
  <2>2. Look.nextReadyAt \in Nat \cup {None} /\ Look.nextReadyAt # None
      BY <1>3, LookIs DEF IInv, WaitForHost, AtTop, Turn
  <2>3. to \in WorkerState /\ to.pc = "waiting"
      BY <2>1, <2>2 DEF NoItem, WorkerState
  <2>4. AtTop(w) /\ Looked(w, to) /\ Turns(w, to)
      BY <1>3, <2>1, <2>3 DEF WaitForHost, Turns
  <2>. QED BY <2>3, <2>4, LookKeeps
<1>4. CASE Park(w)
  <2>1. PICK to : to = [NoItem EXCEPT !.pc = "parked"]
      OBVIOUS
  <2>2. to \in WorkerState /\ to.pc = "parked"
      BY <2>1 DEF NoItem, WorkerState
  <2>3. AtTop(w) /\ Looked(w, to) /\ Turns(w, to)
      BY <1>4, <2>1, <2>2 DEF Park, Turns
  <2>. QED BY <2>2, <2>3, LookKeeps
<1>5. CASE Leave(w)
  <2>1. PICK to : to = NoItem
      OBVIOUS
  <2>2. to \in WorkerState /\ to.pc = "done"
      BY <2>1 DEF NoItem, WorkerState
  <2>3. AtTop(w) /\ Looked(w, to) /\ Turns(w, to)
      BY <1>5, <2>1, <2>2 DEF Leave, Turns
  <2>. QED BY <2>2, <2>3, LookKeeps
<1>. QED BY <1>2, <1>3, <1>4, <1>5


-----------------------------------------------------------------------------
(* Steps that leave the rows of the pages and the frontier alone.           *)

\* A step that leaves the rows, the frontier and the phase of the run alone
\* keeps the invariant.
LEMMA QuietKeeps ==
    ASSUME IInv, RowsStay, Shifts, frontier' = frontier,
           run'.phase = run.phase, run'.seenHash = run.seenHash, run'.seeded = run.seeded,
           task' \in [status : Unfinished \cup Terminal, urls : Seq(Urls)],
           attempts' \in Seq(AttemptRow), process' \in {"up", "closing", "down"},
           run' \in RunState, worker' \in [Workers -> WorkerState], now' \in Nat,
           NextInv',
           process' = "down" => run.phase = "none"
    PROVE  IInv'
<1>1. Shape /\ MemoryInv /\ StepsInv
    BY DEF IInv
<1>2. Shape'
    BY <1>1 DEF Shape, RowsStay
<1>3. MemoryInv'
  <2>1. (\A w \in Busy : worker[w].item # None)'
    <3>1. \A w \in Workers :
             worker'[w].pc \in {"scraping", "answered", "recorded"} => worker'[w] = worker[w]
        BY DEF Shifts
    <3>. QED BY <1>1, <3>1 DEF MemoryInv, Busy
  <2>2. run'.phase # "working" => \A w \in Workers : worker'[w].pc = "done"
      BY <1>1 DEF MemoryInv, Shifts
  <2>3. run'.phase \in {"working", "ending", "ended"} => attempts' # << >>
    <3>1. attempts # << >> => Latest # 0
        BY <1>1, EmptySeq DEF Shape, Latest
    <3>2. attempts' = << >> => Latest' = 0
        BY EmptySeq DEF Latest
    <3>. QED BY <1>1, <3>1, <3>2 DEF MemoryInv, RowsStay
  <2>5. Len(Given) <= Len(task'.urls)
    <3>1. Len(Given) \in Nat /\ Len(task.urls) \in Nat /\ Len(task'.urls) \in Nat
        BY <1>1, RowsAre, LenProperties, CrawlAssumption
    <3>. QED BY <1>1, <3>1 DEF MemoryInv, RowsStay, UrlsStay
  <2>. QED BY <2>1, <2>2, <2>3, <2>5 DEF MemoryInv
<1>4. StepsInv'
    BY <1>1, Quiet
<1>. QED BY <1>2, <1>3, <1>4 DEF IInv

\* A step that leaves the rows of the pages alone, and no run at work, keeps it
\* too: a launch before it has its attempt, the end of a run, a crash.
LEMMA IdleKeeps ==
    ASSUME IInv, RowsStay, run'.phase # "working",
           task' \in [status : Unfinished \cup Terminal, urls : Seq(Urls)],
           attempts' \in Seq(AttemptRow), process' \in {"up", "closing", "down"},
           run' \in RunState, frontier' \in Frontiers, now' = now,
           worker' \in [Workers -> WorkerState], \A w \in Workers : worker'[w].pc = "done",
           run'.phase \in {"ending", "ended"} => run.phase \in {"working", "ending", "ended"},
           NextInv',
           process' = "down" => run'.phase = "none"
    PROVE  IInv'
<1>1. Shape /\ MemoryInv /\ StepsInv
    BY DEF IInv
<1>2. Shape'
    BY <1>1 DEF Shape, RowsStay
<1>3. MemoryInv'
  <2>1. Busy' = {}
      BY DEF Busy
  <2>2. run'.phase \in {"working", "ending", "ended"} => attempts' # << >>
    <3>1. attempts # << >> => Latest # 0
        BY <1>1, EmptySeq DEF Shape, Latest
    <3>2. attempts' = << >> => Latest' = 0
        BY EmptySeq DEF Latest
    <3>. QED BY <1>1, <3>1, <3>2 DEF MemoryInv, RowsStay
  <2>3. Len(Given) <= Len(task'.urls)
    <3>1. Len(Given) \in Nat /\ Len(task.urls) \in Nat /\ Len(task'.urls) \in Nat
        BY <1>1, RowsAre, LenProperties, CrawlAssumption
    <3>. QED BY <1>1, <3>1 DEF MemoryInv, RowsStay, UrlsStay
  <2>4. now' \in Nat
      BY <1>1 DEF MemoryInv
  <2>. QED BY <2>1, <2>2, <2>3, <2>4 DEF MemoryInv
<1>4. StepsInv'
    BY <1>1, NotWorking
<1>. QED BY <1>2, <1>3, <1>4 DEF IInv

(* Marking the rows of attempts, and the reasons a run is stopped for.       *)
LEMMA Marked ==
    ASSUME Shape, NEW status \in Terminal
    PROVE  /\ Interrupted(attempts) \in Seq(AttemptRow) /\ Len(Interrupted(attempts)) = Latest
           /\ Closed(attempts, status) \in Seq(AttemptRow)
           /\ Len(Closed(attempts, status)) = Latest
<1>1. /\ attempts \in Seq(AttemptRow) /\ Latest \in Nat /\ DOMAIN attempts = 1 .. Latest
      /\ \A i \in 1 .. Latest : attempts[i] \in AttemptRow
    BY ElementOfSeq, LenProperties DEF Shape, Latest
<1>2. PICK n, R : n = Latest /\ R = AttemptRow
    OBVIOUS
<1>3. PICK rows : rows = Interrupted(attempts)
    OBVIOUS
<1>4. rows \in [1 .. n -> R]
  <2>1. rows = [i \in 1 .. n |-> IF attempts[i].status = "running"
                                 THEN [attempts[i] EXCEPT !.status = "interrupted"]
                                 ELSE attempts[i]]
      BY <1>1, <1>2, <1>3 DEF Interrupted
  <2>2. \A i \in 1 .. n : [attempts[i] EXCEPT !.status = "interrupted"] \in R
      BY <1>1, <1>2 DEF AttemptRow
  <2>. QED BY <1>1, <1>2, <2>1, <2>2
<1>5. n \in Nat
    BY <1>1, <1>2
<1>6. rows \in Seq(R) /\ Len(rows) = n
    BY <1>4, <1>5, RowsAreSeq
<1>7. PICK more : more = Closed(attempts, status)
    OBVIOUS
<1>8. more \in [1 .. n -> R]
  <2>1. more = [i \in 1 .. n |-> IF i = n /\ attempts[i].status = "running"
                                 THEN [attempts[i] EXCEPT !.status = status]
                                 ELSE attempts[i]]
      BY <1>1, <1>2, <1>7 DEF Closed, Latest
  <2>2. \A i \in 1 .. n : [attempts[i] EXCEPT !.status = status] \in R
      BY <1>1, <1>2 DEF AttemptRow
  <2>. QED BY <1>1, <1>2, <2>1, <2>2
<1>9. more \in Seq(R) /\ Len(more) = n
    BY <1>5, <1>8, RowsAreSeq
<1>. QED BY <1>2, <1>3, <1>6, <1>7, <1>9

\* What an abort changes: its reason is added to the run and the sleeping
\* workers are woken.
LEMMA AbortingIs ==
    ASSUME Shape, NEW reason \in {"cancel", "shutdown", "time", "failed"}, Aborting(reason)
    PROVE  /\ run' \in RunState /\ worker' \in [Workers -> WorkerState]
           /\ run'.phase = run.phase /\ run'.seenHash = run.seenHash
           /\ run'.seeded = run.seeded /\ run'.taskUrls = run.taskUrls
           /\ run'.budget = run.budget /\ run'.aborts = run.aborts \cup {reason}
           /\ run'.next = run.next /\ run'.told = run.told
           /\ worker' = Woken(worker) /\ Shifts
<1>1. run \in RunState /\ worker \in [Workers -> WorkerState]
    BY DEF Shape
<1>2. run' = [run EXCEPT !.aborts = run.aborts \cup {reason}] /\ worker' = Woken(worker)
    BY DEF Aborting
<1>3. worker' \in [Workers -> WorkerState] /\ Shifts
  <2>1. \A v \in Workers : \/ Woken(worker)[v] = worker[v]
                           \/ worker[v].pc = "parked" /\ Woken(worker)[v].pc = "top"
      BY <1>1, WokenIs
  <2>. QED BY <1>1, <1>2, <2>1, WokenIs DEF Shifts
<1>. QED BY <1>1, <1>2, <1>3 DEF RunState


(* What a worker does that takes and records no page.                       *)
LEMMA WorkerLeaves ==
    ASSUME IInv, NEW w \in Workers, HostReady(w) \/ Quit(w) \/ NoticeCancel(w) \/ StepFails(w)
    PROVE  IInv'
<1>1. /\ Shape /\ MemoryInv /\ worker \in [Workers -> WorkerState] /\ run \in RunState
      /\ now \in Nat
    BY DEF IInv, Shape, MemoryInv
<1>2. /\ task' = task /\ attempts' = attempts /\ steps' = steps /\ process' = process
      /\ frontier' = frontier /\ now' = now
    BY DEF HostReady, Quit, NoticeCancel, StepFails, store
<1>3. RowsStay
    BY <1>1, <1>2, RowsAre DEF RowsStay, UrlsStay, Latest
<1>4. NoItem \in WorkerState /\ NoItem.pc = "done"
      /\ [NoItem EXCEPT !.pc = "top"] \in WorkerState /\ [NoItem EXCEPT !.pc = "top"].pc = "top"
    BY DEF NoItem, WorkerState
<1>5. PICK woken : woken = Woken(worker)
    OBVIOUS
<1>6. woken \in [Workers -> WorkerState]
      /\ \A v \in Workers : \/ woken[v] = worker[v]
                            \/ worker[v].pc = "parked" /\ woken[v].pc = "top"
    BY <1>1, <1>5, WokenIs
<1>7. worker[w].pc \in {"waiting", "top", "scraping", "answered"}
      /\ \/ worker' = [worker EXCEPT ![w] = [NoItem EXCEPT !.pc = "top"]]
         \/ worker' = [worker EXCEPT ![w] = NoItem]
         \/ worker' = [woken EXCEPT ![w] = NoItem]
    BY <1>5 DEF HostReady, Quit, NoticeCancel, StepFails
<1>8. worker' \in [Workers -> WorkerState]
    BY <1>1, <1>4, <1>6, <1>7
<1>9. Shifts
  <2>. SUFFICES ASSUME NEW v \in Workers
                PROVE  \/ worker'[v] = worker[v]
                       \/ /\ worker'[v].pc \in {"top", "waiting", "parked", "done"}
                          /\ worker[v].pc # "done"
      BY DEF Shifts
  <2>1. CASE v = w
      BY <1>1, <1>4, <1>6, <1>7, <2>1
  <2>2. CASE v # w
    <3>1. worker'[v] = worker[v] \/ worker'[v] = woken[v]
        BY <1>1, <1>6, <1>7, <2>2
    <3>. QED BY <1>6, <3>1
  <2>. QED BY <2>1, <2>2
<1>10. /\ run' \in RunState
       /\ run'.phase = run.phase /\ run'.seenHash = run.seenHash /\ run'.seeded = run.seeded
       /\ run'.next = run.next
    BY <1>1 DEF HostReady, Quit, NoticeCancel, StepFails, RunState
<1>11. process' \in {"up", "closing", "down"} /\ (process' = "down" => run.phase = "none")
    BY <1>1, <1>2 DEF Shape, MemoryInv
<1>12. NextInv'
    BY <1>1, <1>2, <1>10 DEF MemoryInv, NextInv
<1>. QED BY <1>1, <1>2, <1>3, <1>8, <1>9, <1>10, <1>11, <1>12, QuietKeeps DEF Shape

\* The time budget and a noticed cancellation keep the invariant.
LEMMA RunStopped ==
    ASSUME IInv, TimeUp \/ (Poll /\ task.status = "cancelled")
    PROVE  IInv'
<1>1. /\ Shape /\ MemoryInv /\ worker \in [Workers -> WorkerState] /\ run \in RunState
      /\ now \in Nat
    BY DEF IInv, Shape, MemoryInv
<1>2. /\ task' = task /\ attempts' = attempts /\ steps' = steps /\ process' = process
      /\ frontier' = frontier /\ now' = now /\ worker' = Woken(worker)
    BY DEF TimeUp, Poll, Aborting, store
<1>3. RowsStay
    BY <1>1, <1>2, RowsAre DEF RowsStay, UrlsStay, Latest
<1>4. worker' \in [Workers -> WorkerState] /\ Shifts
    BY <1>1, <1>2, WokenIs DEF Shifts
<1>5. /\ run' \in RunState
      /\ run'.phase = run.phase /\ run'.seenHash = run.seenHash /\ run'.seeded = run.seeded
      /\ run'.next = run.next
  <2>1. CASE TimeUp
    <3>1. run' = [run EXCEPT !.aborts = {"time"}, !.budget = "time"]
        BY <2>1 DEF TimeUp
    <3>. QED BY <1>1, <3>1 DEF RunState
  <2>2. CASE Poll /\ task.status = "cancelled"
    <3>1. run' = [run EXCEPT !.aborts = run.aborts \cup {"cancel"}]
        BY <2>2 DEF Poll, Aborting
    <3>. QED BY <1>1, <3>1 DEF RunState
  <2>. QED BY <2>1, <2>2
<1>6. process' \in {"up", "closing", "down"} /\ (process' = "down" => run.phase = "none")
    BY <1>1, <1>2 DEF Shape, MemoryInv
<1>7. NextInv'
    BY <1>1, <1>2, <1>5 DEF MemoryInv, NextInv
<1>. QED BY <1>1, <1>2, <1>3, <1>4, <1>5, <1>6, <1>7, QuietKeeps DEF Shape

(* What the answer to a request writes: a batch gets its next URL.          *)
LEMMA AnswerIs ==
    ASSUME Shape, MemoryInv, AnswerRequest
    PROVE  /\ task' \in [status : Unfinished \cup Terminal, urls : Seq(Urls)]
           /\ task'.status = run.next /\ UrlsStay
           /\ Kind = "crawl" => task'.urls = task.urls
           /\ attempts' = attempts /\ steps' = steps /\ worker' = worker
           /\ frontier' = frontier /\ process' = process /\ now' = now /\ events' = events
           /\ run' = IF run.phase = "working" THEN [run EXCEPT !.next = None] ELSE Submitted
           /\ run.phase \in {"none", "working"}
<1>1. Len(Given) \in Nat /\ Len(Extra) \in Nat /\ Len(task.urls) \in Nat
      /\ task.urls \in Seq(Urls) /\ run \in RunState
    BY RowsAre, LenProperties, CrawlAssumption DEF Shape
<1>2. run.phase \in {"none", "working"} /\ run.next # None
    BY DEF AnswerRequest
<1>3. run.next \in Unfinished \cup Terminal
    BY <1>1, <1>2 DEF RunState
<1>4. PICK urls : urls = IF Kind = "batch"
                         THEN Append(task.urls, Extra[Len(task.urls) - Len(Given) + 1])
                         ELSE task.urls
    OBVIOUS
<1>5. task' = [status |-> run.next, urls |-> urls]
    BY <1>4, Zenon DEF AnswerRequest
<1>6. urls \in Seq(Urls) /\ Len(task.urls) <= Len(urls)
      /\ \A k \in 1 .. Len(task.urls) : urls[k] = task.urls[k]
  <2>1. CASE Kind = "batch"
    <3>1. Len(Given) <= Len(task.urls) /\ Len(task.urls) < Len(Given) + Len(Extra)
        BY <1>2, <2>1 DEF MemoryInv, NextInv
    <3>2. Len(task.urls) - Len(Given) + 1 \in 1 .. Len(Extra)
        BY <1>1, <3>1
    <3>3. PICK u : u = Extra[Len(task.urls) - Len(Given) + 1]
        OBVIOUS
    <3>4. u \in Urls
        BY <3>2, <3>3, ElementOfSeq, CrawlAssumption
    <3>5. urls = Append(task.urls, u)
        BY <1>4, <2>1, <3>3
    <3>6. /\ urls \in Seq(Urls) /\ Len(urls) = Len(task.urls) + 1
          /\ \A k \in 1 .. Len(task.urls) : urls[k] = task.urls[k]
        BY <1>1, <3>4, <3>5, AppendProperties
    <3>. QED BY <1>1, <3>6
  <2>2. CASE Kind # "batch"
      BY <1>1, <1>4, <2>2
  <2>. QED BY <2>1, <2>2
<1>7. /\ attempts' = attempts /\ steps' = steps /\ worker' = worker
      /\ frontier' = frontier /\ process' = process /\ now' = now /\ events' = events
      /\ run' = IF run.phase = "working" THEN [run EXCEPT !.next = None] ELSE Submitted
    BY <1>2 DEF AnswerRequest, InFlight
<1>8. Kind = "crawl" => urls = task.urls
    BY <1>4
<1>. QED BY <1>2, <1>3, <1>5, <1>6, <1>7, <1>8 DEF UrlsStay

(* Requests, the clock and a shutdown, but for those that launch a run.      *)
LEMMA RequestKeeps ==
    ASSUME IInv,
           \/ \E here \in BOOLEAN : Cancel(here)
           \/ AskToAppend \/ AskToResume
           \/ AnswerRequest /\ InFlight
           \/ Shutdown \/ Exit \/ Tick
    PROVE  IInv'
<1>1. /\ Shape /\ MemoryInv /\ worker \in [Workers -> WorkerState] /\ run \in RunState
      /\ now \in Nat /\ process \in {"up", "closing", "down"}
      /\ task \in [status : Unfinished \cup Terminal, urls : Seq(Urls)]
      /\ attempts \in Seq(AttemptRow)
    BY DEF IInv, Shape, MemoryInv
<1>2. Len(task.urls) \in Nat /\ task.urls \in Seq(Urls)
    BY <1>1, RowsAre
<1>3. ASSUME worker' = worker PROVE Shifts
    BY <1>3 DEF Shifts
<1>4. ASSUME NEW here \in BOOLEAN, Cancel(here) PROVE IInv'
  <2>1. /\ task' = [task EXCEPT !.status = "cancelled"]
        /\ attempts' = Closed(attempts, "cancelled")
        /\ steps' = steps /\ process' = process /\ frontier' = frontier /\ now' = now
        /\ Aborting("cancel") \/ (run' = run /\ worker' = worker)
      BY <1>4 DEF Cancel
  <2>2. attempts' \in Seq(AttemptRow) /\ Latest' = Latest
    <3>1. "cancelled" \in Terminal
        BY DEF Terminal
    <3>. QED BY <1>1, <2>1, <3>1, Marked DEF Latest
  <2>3. task' \in [status : Unfinished \cup Terminal, urls : Seq(Urls)] /\ task'.urls = task.urls
      BY <1>1, <2>1 DEF Terminal
  <2>4. RowsStay
      BY <1>2, <2>1, <2>2, <2>3 DEF RowsStay, UrlsStay
  <2>5. /\ run' \in RunState /\ worker' \in [Workers -> WorkerState] /\ Shifts
        /\ run'.phase = run.phase /\ run'.seenHash = run.seenHash /\ run'.seeded = run.seeded
        /\ run'.next = run.next
    <3>1. CASE Aborting("cancel")
        BY <1>1, <3>1, AbortingIs
    <3>2. CASE run' = run /\ worker' = worker
        BY <1>1, <1>3, <3>2
    <3>. QED BY <2>1, <3>1, <3>2
  <2>6. process' = "down" => run.phase = "none"
      BY <1>1, <2>1 DEF MemoryInv
  <2>7. NextInv'
      BY <1>1, <2>1, <2>3, <2>5 DEF MemoryInv, NextInv
  <2>. QED BY <1>1, <2>1, <2>2, <2>3, <2>4, <2>5, <2>6, <2>7, QuietKeeps
<1>5. ASSUME AskToAppend \/ AskToResume PROVE IInv'
  <2>1. /\ task' = task /\ attempts' = attempts /\ steps' = steps /\ worker' = worker
        /\ frontier' = frontier /\ process' = process /\ now' = now
      BY <1>5 DEF AskToAppend, AskToResume, store
  <2>2. PICK status \in Unfinished : run' = [run EXCEPT !.next = status]
      BY <1>1, <1>5 DEF AskToAppend, AskToResume, Unfinished, Terminal
  <2>3. /\ run' \in RunState /\ run'.phase = run.phase /\ run'.seenHash = run.seenHash
        /\ run'.seeded = run.seeded /\ run'.next = status
    <3>1. status \in {None} \cup Unfinished \cup Terminal
        OBVIOUS
    <3>. QED BY <1>1, <2>2, <3>1 DEF RunState
  <2>4. NextInv'
    <3>1. run.phase \in {"none", "working"}
        BY <1>5 DEF AskToAppend, AskToResume, Drained
    <3>2. process # "down" /\ (Kind = "batch" => Len(task.urls) < Len(Given) + Len(Extra))
        BY <1>5 DEF AskToAppend, AskToResume
    <3>. QED BY <2>1, <2>3, <3>1, <3>2 DEF NextInv
  <2>5. RowsStay
      BY <1>2, <2>1 DEF RowsStay, UrlsStay, Latest
  <2>6. process' = "down" => run.phase = "none"
      BY <1>1, <2>1 DEF MemoryInv
  <2>. QED BY <1>1, <1>3, <2>1, <2>3, <2>4, <2>5, <2>6, QuietKeeps
<1>6. ASSUME AnswerRequest, InFlight PROVE IInv'
  <2>1. /\ task' \in [status : Unfinished \cup Terminal, urls : Seq(Urls)] /\ UrlsStay
        /\ attempts' = attempts /\ steps' = steps /\ worker' = worker
        /\ frontier' = frontier /\ process' = process /\ now' = now
        /\ run' = IF run.phase = "working" THEN [run EXCEPT !.next = None] ELSE Submitted
        /\ run.phase \in {"none", "working"}
      BY <1>1, <1>6, AnswerIs
  <2>2. run' = [run EXCEPT !.next = None]
      BY <1>6, <2>1 DEF InFlight
  <2>3. /\ run' \in RunState /\ run'.phase = run.phase /\ run'.seenHash = run.seenHash
        /\ run'.seeded = run.seeded /\ run'.next = None
      BY <1>1, <2>2 DEF RunState
  <2>4. RowsStay
      BY <2>1 DEF RowsStay, Latest
  <2>5. process' = "down" => run.phase = "none"
      BY <1>1, <2>1 DEF MemoryInv
  <2>6. NextInv'
      BY <2>1, <2>3 DEF NextInv
  <2>. QED BY <1>1, <1>3, <2>1, <2>3, <2>4, <2>5, <2>6, QuietKeeps
<1>7. ASSUME Shutdown \/ Exit \/ Tick PROVE IInv'
  <2>1. /\ task' = task /\ attempts' = attempts /\ steps' = steps /\ frontier' = frontier
        /\ Aborting("shutdown") \/ (run' = run /\ worker' = worker)
      BY <1>7 DEF Shutdown, Exit, Tick, store, memory
  <2>2. now' \in Nat
      BY <1>1, <1>7 DEF Shutdown, Exit, Tick
  <2>3. process' \in {"up", "closing", "down"} /\ (process' = "down" => run.phase = "none")
      BY <1>1, <1>7 DEF Shutdown, Exit, Tick, MemoryInv, InFlight
  <2>4. RowsStay
      BY <1>2, <2>1 DEF RowsStay, UrlsStay, Latest
  <2>5. /\ run' \in RunState /\ worker' \in [Workers -> WorkerState] /\ Shifts
        /\ run'.phase = run.phase /\ run'.seenHash = run.seenHash /\ run'.seeded = run.seeded
        /\ run'.next = run.next
    <3>1. CASE Aborting("shutdown")
        BY <1>1, <3>1, AbortingIs
    <3>2. CASE run' = run /\ worker' = worker
        BY <1>1, <1>3, <3>2
    <3>. QED BY <2>1, <3>1, <3>2
  <2>6. NextInv'
    <3>1. process' = "down" => run.next = None
        BY <1>1, <1>7 DEF Shutdown, Exit, Tick, Drained, MemoryInv, NextInv
    <3>. QED BY <1>1, <2>1, <2>5, <3>1 DEF MemoryInv, NextInv
  <2>. QED BY <1>1, <2>1, <2>2, <2>3, <2>4, <2>5, <2>6, QuietKeeps
<1>. QED BY <1>4, <1>5, <1>6, <1>7


(* The poll feeds the frontier the URLs a batch was appended.                *)
LEMMA PollKeeps ==
    ASSUME IInv, Poll
    PROVE  IInv'
<1>1. CASE task.status = "cancelled"
    BY <1>1, RunStopped
<1>2. CASE task.status # "cancelled"
  <2>1. /\ Shape /\ MemoryInv /\ StepsInv /\ worker \in [Workers -> WorkerState]
        /\ run \in RunState /\ run.phase = "working" /\ PagesInv
      BY DEF IInv, Shape, Poll, Turn, StepsInv
  <2>2. /\ task' = task /\ attempts' = attempts /\ steps' = steps /\ process' = process
        /\ frontier' = Fed /\ now' = now /\ worker' = FedWorkers /\ HasAppended
        /\ run' = [run EXCEPT !.seeded = Len(task.urls)]
      BY <1>2 DEF Poll, store
  <2>3. PICK g : g = Fed
      OBVIOUS
  <2>4. /\ g \in Frontiers /\ Clean(g, DoneKeys \cup BusyKeys) /\ Kind = "batch"
        /\ \A k \in 1 .. Len(task.urls) : KeyOf[task.urls[k]] \in g.visited
        /\ \A u \in QueuedUrls(g) : IsFirst(u)
      BY <2>1, <2>2, <2>3, FedIs DEF HasAppended
  <2>5. /\ run' \in RunState /\ run'.phase = "working" /\ run'.seenHash = run.seenHash
        /\ run'.seeded = Len(task.urls) /\ Len(task.urls) \in Nat /\ run'.next = run.next
      BY <2>1, <2>2, RowsAre DEF RunState
  <2>6. worker' = Woken(worker)
      BY <2>2 DEF FedWorkers
  <2>7. /\ worker' \in [Workers -> WorkerState]
        /\ \A v \in Workers : \/ worker'[v] = worker[v]
                              \/ worker[v].pc = "parked" /\ worker'[v].pc = "top"
      BY <2>1, <2>6, WokenIs
  <2>8. Busy' = Busy /\ \A v \in Busy : v \in Workers /\ worker'[v] = worker[v]
      BY <2>7 DEF Busy
  <2>9. DoneKeys' = DoneKeys /\ BusyKeys' = BusyKeys /\ Latest' = Latest
      BY <2>2, <2>8 DEF DoneKeys, DoneSteps, BusyKeys, Latest
  <2>10. Shape'
      BY <2>1, <2>2, <2>3, <2>4, <2>5, <2>7 DEF Shape
  <2>11. MemoryInv'
      BY <2>1, <2>2, <2>5, <2>8 DEF MemoryInv, NextInv
  <2>12. PagesInv'
    <3>1. (\A u, v \in Busy : KeyOf[worker[u].item.url] = KeyOf[worker[v].item.url] => u = v)'
        BY <2>1, <2>8 DEF PagesInv
    <3>2. (\A v \in Workers : worker[v].pc \in {"scraping", "answered"}
              => KeyOf[worker[v].item.url] \notin DoneKeys)'
        BY <2>1, <2>7, <2>9 DEF PagesInv
    <3>3. (\A v \in Workers : worker[v].pc = "recorded" =>
              \E i \in DOMAIN steps :
                 steps[i].url = worker[v].item.url /\ steps[i].attempt = Latest)'
        BY <2>1, <2>2, <2>7, <2>9 DEF PagesInv
    <3>4. (\A i \in DOMAIN steps : Kind = "crawl" /\ steps[i].attempt = Latest /\ steps[i].content
              => steps[i].url \in run.seenHash)'
        BY <2>1, <2>2, <2>5, <2>9 DEF PagesInv
    <3>. QED BY <2>2, <2>3, <2>4, <2>9, <3>1, <3>2, <3>3, <3>4 DEF PagesInv
  <2>13. ASSUME NEW u, IsFirst(u) PROVE IsFirst(u)'
      BY <2>2, <2>13 DEF IsFirst, FirstOf
  <2>14. BatchInv'
    <3>1. (\A v \in Busy : IsFirst(worker[v].item.url))'
        BY <2>1, <2>4, <2>8, <2>13 DEF StepsInv, BatchInv
    <3>2. (\A u \in QueuedUrls(frontier) : IsFirst(u))'
        BY <2>2, <2>3, <2>4, <2>13 DEF QueuedUrls
    <3>. QED BY <2>2, <2>3, <2>4, <2>5, <3>1, <3>2 DEF BatchInv
  <2>15. StepsInv'
    <3>1. (Kind = "batch" => \A i \in DOMAIN steps : IsFirst(steps[i].url))'
        BY <2>1, <2>2, <2>13 DEF StepsInv
    <3>. QED BY <2>1, <2>2, <2>9, <2>12, <2>14, <3>1 DEF StepsInv, NoPageTwice
  <2>. QED BY <2>10, <2>11, <2>15 DEF IInv
<1>. QED BY <1>1, <1>2


-----------------------------------------------------------------------------
(* A page is recorded.                                                     *)

(* Whether the result of the page is its content.                           *)
Content(w) == worker[w].content /\ ~IsCopy(worker[w].item.url)

(* g is f once an answer was heard of a page on h.                           *)
Heard(f, g, h) ==
    /\ g \in Frontiers
    /\ g.pending = f.pending /\ g.visited = f.visited /\ g.lastStart = f.lastStart
    /\ f.robotsKnown \subseteq g.robotsKnown /\ g.robotsKnown \subseteq f.robotsKnown \cup {h}
    /\ \A k \in Hosts : g.delay[k] >= f.delay[k]

\* An answer sets the delay of its own host and nothing else, and a delay it
\* tells is kept to.
LEMMA ReportedIs ==
    ASSUME NEW f \in Frontiers, NEW h \in Hosts, NEW outcome, NEW delay \in Nat,
           NEW g, g = Reported(f, h, outcome, delay)
    PROVE  Heard(f, g, h) /\ (outcome # "cached" => g.delay[h] >= delay)
<1>1. CASE outcome = "cached"
  <2>1. g = f
      BY <1>1, Zenon DEF Reported
  <2>2. \A k \in Hosts : f.delay[k] \in Nat
      BY DEF Frontiers
  <2>3. \A k \in Hosts : f.delay[k] >= f.delay[k]
      BY <2>2
  <2>. QED BY <1>1, <2>1, <2>3 DEF Heard
<1>2. CASE outcome # "cached"
  <2>1. g = SetCrawlDelay(f, h, delay)
      BY <1>2, Zenon DEF Reported
  <2>2. /\ g \in Frontiers
        /\ g.pending = f.pending /\ g.visited = f.visited /\ g.lastStart = f.lastStart
        /\ g.robotsKnown = f.robotsKnown \cup {h}
        /\ g.delay[h] >= delay
        /\ \A k \in Hosts : g.delay[k] >= f.delay[k]
      BY <2>1, SetCrawlDelayStep
  <2>. QED BY <2>2 DEF Heard
<1>. QED BY <1>1, <1>2

(* What an answer leaves: w has its page still, and the host has been heard. *)
LEMMA AnswerLeaves ==
    ASSUME Shape, MemoryInv, NEW w \in Workers, NEW outcome, Answer(w, outcome)
    PROVE  /\ w \in Busy /\ worker[w].pc = "scraping" /\ run.phase = "working"
           /\ ~Stopped /\ task.status # "cancelled"
           /\ worker' \in [Workers -> WorkerState]
           /\ worker'[w].pc = "answered" /\ worker'[w].item = worker[w].item
           /\ \A v \in Workers \ {w} : worker'[v] = worker[v]
           /\ Busy' = Busy /\ BusyKeys' = BusyKeys
           /\ \A v \in Busy : worker'[v].item = worker[v].item
           /\ run' \in RunState
           /\ run'.phase = run.phase /\ run'.seeded = run.seeded /\ run'.aborts = run.aborts
           /\ run'.taskUrls = run.taskUrls /\ run'.budget = run.budget /\ run'.next = run.next
           /\ run'.seenHash = run.seenHash
           /\ Heard(frontier, frontier', HostOf[worker[w].item.url])
           /\ \A k \in run'.told :
                 \/ k \in run.told
                 \/ k = HostOf[worker[w].item.url] /\ frontier'.delay[k] >= RobotsDelay[k]
           /\ task' = task /\ attempts' = attempts /\ steps' = steps /\ Latest' = Latest
           /\ events' = events /\ process' = process /\ now' = now
<1>1. worker \in [Workers -> WorkerState] /\ run \in RunState /\ frontier \in Frontiers
    BY DEF Shape
<1>2. /\ worker[w].pc = "scraping" /\ run.phase = "working" /\ w \in Busy
      /\ ~Stopped /\ task.status # "cancelled"
      /\ worker' = [worker EXCEPT ![w].pc = "answered",
                                  ![w].content = outcome \in {"content", "cached"}]
      /\ task' = task /\ attempts' = attempts /\ steps' = steps /\ events' = events
      /\ process' = process /\ now' = now
    BY DEF Answer, Turn, Busy, store
<1>3. /\ worker' \in [Workers -> WorkerState]
      /\ worker'[w].pc = "answered" /\ worker'[w].item = worker[w].item
      /\ \A v \in Workers \ {w} : worker'[v] = worker[v]
  <2>0. (outcome \in {"content", "cached"}) \in BOOLEAN
      OBVIOUS
  <2>1. PICK b \in BOOLEAN : b = (outcome \in {"content", "cached"})
      BY <2>0, Zenon
  <2>2. PICK row : row = [worker[w] EXCEPT !.pc = "answered", !.content = b]
      OBVIOUS
  <2>3. worker' = [worker EXCEPT ![w] = row]
      BY <1>2, <2>1, <2>2
  <2>4. row \in WorkerState /\ row.pc = "answered" /\ row.item = worker[w].item
      BY <1>1, <2>2 DEF WorkerState
  <2>. QED BY <1>1, <2>3, <2>4
<1>4. Busy' = Busy /\ \A v \in Busy : worker'[v].item = worker[v].item
    BY <1>2, <1>3 DEF Busy
<1>5. BusyKeys' = BusyKeys
    BY <1>4 DEF BusyKeys
<1>6. PICK h : h = HostOf[worker[w].item.url]
    OBVIOUS
<1>7. h \in Hosts
    BY <1>2, <1>6, WorkersAre
<1>8. PICK delay \in Tells(h, outcome) :
        /\ frontier' = Reported(frontier, h, outcome, delay)
        /\ run' = [run EXCEPT !.told = IF outcome # "cached" /\ delay > 0
                                       THEN @ \cup {h} ELSE @]
    BY <1>6 DEF Answer
<1>9. delay \in Nat /\ (delay > 0 => delay = RobotsDelay[h]) /\ RobotsDelay[h] \in Nat
    BY <1>7, <1>8, CrawlAssumption DEF Tells
<1>10. PICK f, g : f = frontier /\ g = frontier'
    OBVIOUS
<1>11. Heard(f, g, h) /\ (outcome # "cached" => g.delay[h] >= delay)
    BY <1>1, <1>7, <1>8, <1>9, <1>10, ReportedIs
<1>12. PICK told : told = IF outcome # "cached" /\ delay > 0 THEN run.told \cup {h} ELSE run.told
    OBVIOUS
<1>13. run' = [run EXCEPT !.told = told]
    BY <1>8, <1>12
<1>14. told \in SUBSET Hosts
    BY <1>1, <1>7, <1>12 DEF RunState
<1>15. /\ run' \in RunState /\ run'.told = told
       /\ run'.phase = run.phase /\ run'.seeded = run.seeded /\ run'.aborts = run.aborts
       /\ run'.taskUrls = run.taskUrls /\ run'.budget = run.budget /\ run'.next = run.next
       /\ run'.seenHash = run.seenHash
    BY <1>1, <1>13, <1>14 DEF RunState
<1>16. \A k \in told : k \in run.told \/ (k = h /\ g.delay[k] >= RobotsDelay[k])
    BY <1>9, <1>11, <1>12
<1>. QED BY <1>2, <1>3, <1>4, <1>5, <1>6, <1>10, <1>11, <1>15, <1>16 DEF Latest

\* An answer keeps the invariant: its page is under way still.
LEMMA AnswerKeeps ==
    ASSUME IInv, NEW w \in Workers, NEW outcome, Answer(w, outcome)
    PROVE  IInv'
<1>1. Shape /\ MemoryInv /\ StepsInv /\ run.phase = "working" /\ PagesInv
    BY DEF IInv, StepsInv, Answer, Turn
<1>2. /\ w \in Busy /\ worker[w].pc = "scraping"
      /\ worker' \in [Workers -> WorkerState]
      /\ worker'[w].pc = "answered" /\ worker'[w].item = worker[w].item
      /\ \A v \in Workers \ {w} : worker'[v] = worker[v]
      /\ Busy' = Busy /\ BusyKeys' = BusyKeys
      /\ \A v \in Busy : worker'[v].item = worker[v].item
    BY <1>1, AnswerLeaves
<1>3. /\ run' \in RunState
      /\ run'.phase = run.phase /\ run'.seeded = run.seeded /\ run'.next = run.next
      /\ run'.seenHash = run.seenHash
      /\ task' = task /\ attempts' = attempts /\ steps' = steps /\ Latest' = Latest
      /\ process' = process /\ now' = now
    BY <1>1, AnswerLeaves
<1>4. /\ frontier' \in Frontiers
      /\ frontier'.pending = frontier.pending /\ frontier'.visited = frontier.visited
    BY <1>1, AnswerLeaves DEF Heard
<1>5. DoneKeys' = DoneKeys
    BY <1>3 DEF DoneKeys, DoneSteps
<1>6. Shape'
    BY <1>1, <1>2, <1>3, <1>4 DEF Shape
<1>7. MemoryInv'
    BY <1>1, <1>2, <1>3 DEF MemoryInv, NextInv
<1>8. PagesInv'
  <2>1. Clean(frontier', DoneKeys' \cup BusyKeys')
      BY <1>1, <1>2, <1>4, <1>5, CleanFewer DEF PagesInv
  <2>2. (\A a, v \in Busy : KeyOf[worker[a].item.url] = KeyOf[worker[v].item.url] => a = v)'
      BY <1>1, <1>2 DEF PagesInv
  <2>3. (\A v \in Workers : worker[v].pc \in {"scraping", "answered"}
            => KeyOf[worker[v].item.url] \notin DoneKeys)'
      BY <1>1, <1>2, <1>5 DEF PagesInv
  <2>4. (\A v \in Workers : worker[v].pc = "recorded" =>
            \E i \in DOMAIN steps : steps[i].url = worker[v].item.url /\ steps[i].attempt = Latest)'
      BY <1>1, <1>2, <1>3 DEF PagesInv
  <2>5. (\A i \in DOMAIN steps : Kind = "crawl" /\ steps[i].attempt = Latest /\ steps[i].content
            => steps[i].url \in run.seenHash)'
      BY <1>1, <1>3 DEF PagesInv
  <2>. QED BY <2>1, <2>2, <2>3, <2>4, <2>5 DEF PagesInv
<1>9. ASSUME NEW a, IsFirst(a) PROVE IsFirst(a)'
    BY <1>3, <1>9 DEF IsFirst, FirstOf
<1>10. ASSUME Kind = "batch" PROVE BatchInv' /\ (\A i \in DOMAIN steps : IsFirst(steps[i].url))'
  <2>1. BatchInv
      BY <1>1, <1>10 DEF StepsInv
  <2>2. (\A a \in QueuedUrls(frontier) : IsFirst(a))'
      BY <1>4, <1>9, <2>1 DEF BatchInv, QueuedUrls
  <2>3. (\A v \in Busy : IsFirst(worker[v].item.url))'
      BY <1>2, <1>9, <2>1 DEF BatchInv
  <2>4. BatchInv'
      BY <1>3, <1>4, <2>1, <2>2, <2>3 DEF BatchInv
  <2>5. (\A i \in DOMAIN steps : IsFirst(steps[i].url))'
      BY <1>1, <1>3, <1>9, <1>10 DEF StepsInv
  <2>. QED BY <2>4, <2>5
<1>11. NoPageTwice' /\ (\A i \in DOMAIN steps : steps[i].attempt <= Latest)'
    BY <1>1, <1>3 DEF StepsInv, NoPageTwice
<1>12. StepsInv'
    BY <1>8, <1>10, <1>11 DEF StepsInv
<1>. QED BY <1>6, <1>7, <1>12 DEF IInv

(* g is the frontier once w has recorded its page: the links of a page with  *)
(* content are queued within the depth.                                      *)
Recorder(w, g) ==
    LET item == worker[w].item
    IN  /\ g \in Frontiers
        /\ g.lastStart = frontier.lastStart
        /\ g.robotsKnown = frontier.robotsKnown /\ g.delay = frontier.delay
        /\ frontier.visited \subseteq g.visited
        /\ QueuedKeys(frontier) \subseteq QueuedKeys(g)
        /\ g.visited \subseteq frontier.visited \cup QueuedKeys(g)
        /\ QueuedUrls(g) \subseteq QueuedUrls(frontier) \cup ToSet(Links[item.url])
        /\ \A taken \in SUBSET Keys : Clean(frontier, taken) => Clean(g, taken)
        /\ ~Content(w) \/ item.depth = MaxDepth =>
              g.pending = frontier.pending /\ g.visited = frontier.visited
        /\ Content(w) /\ item.depth < MaxDepth =>
              \A u \in ToSet(Links[item.url]) : KeyOf[u] \in g.visited

\* What recording a page does to the frontier.
LEMMA RecorderIs ==
    ASSUME Shape, MemoryInv, NEW w \in Workers, Record(w)
    PROVE  Recorder(w, frontier')
<1>1. PICK u, d, f, g : /\ u = worker[w].item.url /\ d = worker[w].item.depth
                        /\ f = frontier /\ g = frontier'
    OBVIOUS
<1>2. u \in Urls /\ d \in 0 .. MaxDepth
  <2>1. w \in Busy
      BY DEF Record, Busy
  <2>. QED BY <1>1, <2>1, WorkersAre
<1>3. f \in Frontiers
    BY <1>1 DEF Shape
<1>4. g = IF Content(w) THEN OfferAll(f, Links[u], d + 1) ELSE f
    BY <1>1 DEF Record, Content
<1>5. CASE ~Content(w)
  <2>1. g = f
      BY <1>4, <1>5
  <2>. QED BY <1>1, <1>3, <1>5, <2>1 DEF Recorder
<1>6. CASE Content(w)
  <2>1. PICK urls, depth : urls = Links[u] /\ depth = d + 1
      OBVIOUS
  <2>2. urls \in Seq(Urls) /\ depth \in Nat /\ MaxDepth \in Nat
      BY <1>2, <2>1, FrontierAssumption
  <2>3. g = OfferAll(f, urls, depth)
      BY <1>4, <1>6, <2>1
  <2>4. /\ g \in Frontiers
        /\ Extends(f, g, ToSet(urls))
        /\ depth <= MaxDepth => \A v \in ToSet(urls) : KeyOf[v] \in g.visited
        /\ g.visited \subseteq f.visited \cup QueuedKeys(g)
        /\ depth > MaxDepth => g = f
      BY <1>3, <2>2, <2>3, OfferAllIs
  <2>5. (d < MaxDepth => depth <= MaxDepth) /\ (d = MaxDepth => depth > MaxDepth)
      BY <1>2, <2>1, <2>2
  <2>6. /\ g.robotsKnown = f.robotsKnown /\ g.delay = f.delay /\ g.lastStart = f.lastStart
        /\ f.visited \subseteq g.visited
        /\ QueuedKeys(f) \subseteq QueuedKeys(g)
        /\ QueuedUrls(g) \subseteq QueuedUrls(f) \cup ToSet(urls)
        /\ \A taken \in SUBSET Keys : Clean(f, taken) => Clean(g, taken)
      BY <2>4 DEF Extends
  <2>. QED BY <1>1, <1>6, <2>1, <2>4, <2>5, <2>6 DEF Recorder
<1>. QED BY <1>5, <1>6


(* What recording leaves: one more row, at the end, for the page of w.       *)
LEMMA RecordLeaves ==
    ASSUME Shape, MemoryInv, NEW w \in Workers, Record(w)
    PROVE  /\ w \in Busy /\ worker[w].pc = "answered" /\ run.phase = "working" /\ ~Stopped
           /\ worker' \in [Workers -> WorkerState]
           /\ worker'[w].pc = "recorded" /\ worker'[w].item = worker[w].item
           /\ \A v \in Workers \ {w} : worker'[v] = worker[v]
           /\ Busy' = Busy /\ BusyKeys' = BusyKeys
           /\ \A v \in Busy : worker'[v].item = worker[v].item
           /\ run' \in RunState
           /\ run'.phase = run.phase /\ run'.seeded = run.seeded /\ run'.aborts = run.aborts
           /\ run'.taskUrls = run.taskUrls /\ run'.budget = run.budget /\ run'.next = run.next
           /\ run'.told = run.told
           /\ run.seenHash \subseteq run'.seenHash
           /\ Content(w) /\ Kind = "crawl" => worker[w].item.url \in run'.seenHash
           /\ steps' \in Seq(StepRow) /\ DOMAIN steps' = 1 .. Len(steps) + 1
           /\ \A i \in DOMAIN steps : i \in DOMAIN steps' /\ steps'[i] = steps[i]
           /\ LET row == steps'[Len(steps) + 1]
              IN  /\ row.url = worker[w].item.url /\ row.depth = worker[w].item.depth
                  /\ row.attempt = Latest /\ row.content = Content(w)
           /\ task' = task /\ attempts' = attempts /\ Latest' = Latest
           /\ events' = events /\ process' = process /\ now' = now
<1>1. worker \in [Workers -> WorkerState] /\ run \in RunState
    BY DEF Shape
<1>2. /\ worker[w].pc = "answered" /\ run.phase = "working" /\ w \in Busy /\ ~Stopped
      /\ worker' = [worker EXCEPT ![w].pc = "recorded"]
      /\ task' = task /\ attempts' = attempts /\ events' = events
      /\ process' = process /\ now' = now
    BY DEF Record, Turn, Busy
<1>3. /\ worker' \in [Workers -> WorkerState]
      /\ worker'[w].pc = "recorded" /\ worker'[w].item = worker[w].item
      /\ \A v \in Workers \ {w} : worker'[v] = worker[v]
    BY <1>1, <1>2 DEF WorkerState
<1>4. Busy' = Busy /\ \A v \in Busy : worker'[v].item = worker[v].item
    BY <1>2, <1>3 DEF Busy
<1>5. BusyKeys' = BusyKeys
    BY <1>4 DEF BusyKeys
<1>6. PICK u, d, content : /\ u = worker[w].item.url /\ d = worker[w].item.depth
                           /\ content = Content(w)
    OBVIOUS
<1>7. u \in Urls /\ d \in 0 .. MaxDepth /\ content \in BOOLEAN
    BY <1>2, <1>6, WorkersAre DEF Content
<1>8. PICK hashes : hashes = IF content /\ Kind = "crawl" THEN run.seenHash \cup {u} ELSE run.seenHash
    OBVIOUS
<1>9. run' = [run EXCEPT !.seenHash = hashes]
    BY <1>6, <1>8, Zenon DEF Record, Content
<1>10. /\ run' \in RunState /\ run'.seenHash = hashes
       /\ run'.phase = run.phase /\ run'.seeded = run.seeded /\ run'.aborts = run.aborts
       /\ run'.taskUrls = run.taskUrls /\ run'.budget = run.budget /\ run'.next = run.next
       /\ run'.told = run.told
    BY <1>1, <1>7, <1>8, <1>9 DEF RunState
<1>11. PICK row : row = [url |-> u, depth |-> d, attempt |-> Latest, content |-> content]
    OBVIOUS
<1>12. row \in StepRow /\ row.url = u /\ row.depth = d /\ row.attempt = Latest
       /\ row.content = content
    BY <1>7, <1>11, RowsAre DEF StepRow
<1>13. steps' = Append(steps, row)
    BY <1>6, <1>11, Zenon DEF Record, Content
<1>14. steps \in Seq(StepRow) /\ Len(steps) \in Nat /\ DOMAIN steps = 1 .. Len(steps)
    BY RowsAre DEF Shape
<1>15. /\ Append(steps, row) \in Seq(StepRow)
       /\ Len(Append(steps, row)) = Len(steps) + 1
       /\ \A i \in 1 .. Len(steps) : Append(steps, row)[i] = steps[i]
       /\ Append(steps, row)[Len(steps) + 1] = row
    BY <1>12, <1>14, AppendProperties
<1>16. DOMAIN steps' = 1 .. Len(steps) + 1
    BY <1>13, <1>15, LenProperties
<1>17. \A i \in DOMAIN steps : i \in DOMAIN steps' /\ steps'[i] = steps[i]
    BY <1>13, <1>14, <1>15, <1>16
<1>18. steps'[Len(steps) + 1] = row /\ steps' \in Seq(StepRow)
    BY <1>13, <1>15
<1>19. /\ run.seenHash \subseteq run'.seenHash
       /\ Content(w) /\ Kind = "crawl" => worker[w].item.url \in run'.seenHash
    BY <1>6, <1>8, <1>10
<1>. QED
  BY <1>2, <1>3, <1>4, <1>5, <1>6, <1>10, <1>12, <1>16, <1>17, <1>18, <1>19 DEF Latest

\* Recording a page (its row, its content, its host) keeps the invariant.
LEMMA RecordKeeps ==
    ASSUME IInv, NEW w \in Workers, Record(w)
    PROVE  IInv'
<1>. DEFINE n == Len(steps) + 1
            u == worker[w].item.url
<1>1. Shape /\ MemoryInv /\ StepsInv /\ run.phase = "working" /\ PagesInv
    BY DEF IInv, StepsInv, Record, Turn
<1>2. /\ w \in Busy /\ worker[w].pc = "answered"
      /\ worker' \in [Workers -> WorkerState]
      /\ worker'[w].pc = "recorded" /\ worker'[w].item = worker[w].item
      /\ \A v \in Workers \ {w} : worker'[v] = worker[v]
      /\ Busy' = Busy /\ BusyKeys' = BusyKeys
      /\ \A v \in Busy : worker'[v].item = worker[v].item
    BY <1>1, RecordLeaves
<1>3. /\ run' \in RunState
      /\ run'.phase = run.phase /\ run'.seeded = run.seeded /\ run'.next = run.next
      /\ run.seenHash \subseteq run'.seenHash
      /\ Content(w) /\ Kind = "crawl" => u \in run'.seenHash
      /\ task' = task /\ attempts' = attempts /\ Latest' = Latest
      /\ process' = process /\ now' = now
    BY <1>1, RecordLeaves
<1>4. /\ steps' \in Seq(StepRow) /\ DOMAIN steps' = 1 .. n
      /\ \A i \in DOMAIN steps : i \in DOMAIN steps' /\ steps'[i] = steps[i]
      /\ steps'[n].url = u /\ steps'[n].attempt = Latest
      /\ steps'[n].content = Content(w)
    BY <1>1, RecordLeaves
<1>5. Recorder(w, frontier')
    BY <1>1, RecorderIs
<1>6. /\ DOMAIN steps = 1 .. Len(steps) /\ Len(steps) \in Nat /\ Latest \in Nat
      /\ DoneKeys \in SUBSET Keys /\ BusyKeys \in SUBSET Keys
    BY <1>1, RowsAre, WorkersAre
<1>7. DOMAIN steps' = DOMAIN steps \cup {n} /\ n \in DOMAIN steps' /\ n \notin DOMAIN steps
    BY <1>4, <1>6
<1>. HIDE DEF n
<1>8. DoneKeys' = DoneKeys \cup {KeyOf[u]} /\ KeyOf[u] \in BusyKeys /\ KeyOf[u] \notin DoneKeys
  <2>1. DoneSteps' = DoneSteps \cup {n} /\ DoneSteps \subseteq DOMAIN steps
      BY <1>3, <1>4, <1>7 DEF DoneSteps
  <2>2. DoneKeys' = DoneKeys \cup {KeyOf[u]}
      BY <1>4, <2>1 DEF DoneKeys
  <2>3. KeyOf[u] \in BusyKeys
      BY <1>2 DEF BusyKeys
  <2>4. KeyOf[u] \notin DoneKeys
    <3>1. w \in Workers
        OBVIOUS
    <3>. QED BY <1>1, <1>2, <3>1 DEF PagesInv
  <2>. QED BY <2>2, <2>3, <2>4
<1>9. Shape'
    BY <1>1, <1>2, <1>3, <1>4, <1>5 DEF Shape, Recorder
<1>10. MemoryInv'
  <2>1. /\ now' \in Nat /\ NextInv' /\ Len(Given) <= Len(task'.urls)
        /\ run'.phase = "working" /\ attempts' # << >>
        /\ (process' = "down" => run'.phase = "none")
      BY <1>1, <1>3 DEF MemoryInv, NextInv
  <2>2. \A v \in Busy' : worker'[v].item # None
      BY <1>1, <1>2 DEF MemoryInv
  <2>. QED BY <2>1, <2>2 DEF MemoryInv
<1>11. PagesInv'
  <2>1. Clean(frontier', DoneKeys' \cup BusyKeys')
    <3>1. DoneKeys' \cup BusyKeys' = DoneKeys \cup BusyKeys
        BY <1>2, <1>8
    <3>. QED BY <1>1, <1>5, <1>6, <3>1 DEF PagesInv, Recorder
  <2>2. (\A a, v \in Busy : KeyOf[worker[a].item.url] = KeyOf[worker[v].item.url] => a = v)'
      BY <1>1, <1>2 DEF PagesInv
  <2>3. (\A v \in Workers :
            worker[v].pc \in {"scraping", "answered"} => KeyOf[worker[v].item.url] \notin DoneKeys)'
    <3>. SUFFICES ASSUME NEW v \in Workers, worker'[v].pc \in {"scraping", "answered"}
                  PROVE  KeyOf[worker'[v].item.url] \notin DoneKeys'
        OBVIOUS
    <3>1. v # w /\ worker'[v] = worker[v] /\ v \in Busy
        BY <1>2 DEF Busy
    <3>2. KeyOf[worker[v].item.url] \notin DoneKeys /\ KeyOf[worker[v].item.url] # KeyOf[u]
        BY <1>1, <1>2, <3>1 DEF PagesInv
    <3>. QED BY <1>8, <3>1, <3>2
  <2>4. (\A v \in Workers : worker[v].pc = "recorded" =>
            \E i \in DOMAIN steps : steps[i].url = worker[v].item.url /\ steps[i].attempt = Latest)'
    <3>. SUFFICES ASSUME NEW v \in Workers, worker'[v].pc = "recorded"
                  PROVE  \E i \in DOMAIN steps' :
                            steps'[i].url = worker'[v].item.url /\ steps'[i].attempt = Latest
        BY <1>3
    <3>1. CASE v = w
        BY <1>2, <1>4, <1>7, <3>1
    <3>2. CASE v # w
      <4>1. worker'[v] = worker[v]
          BY <1>2, <3>2
      <4>2. PICK i \in DOMAIN steps : steps[i].url = worker[v].item.url /\ steps[i].attempt = Latest
          BY <1>1, <4>1 DEF PagesInv
      <4>. QED BY <1>4, <4>1, <4>2
    <3>. QED BY <3>1, <3>2
  <2>5. (\A i \in DOMAIN steps : Kind = "crawl" /\ steps[i].attempt = Latest /\ steps[i].content
            => steps[i].url \in run.seenHash)'
    <3>. SUFFICES ASSUME NEW i \in DOMAIN steps',
                         Kind = "crawl", steps'[i].attempt = Latest, steps'[i].content
                  PROVE  steps'[i].url \in run'.seenHash
        BY <1>3
    <3>1. CASE i = n
        BY <1>3, <1>4, <3>1
    <3>2. CASE i # n
      <4>1. i \in DOMAIN steps
          BY <1>7, <3>2
      <4>. QED BY <1>1, <1>3, <1>4, <4>1 DEF PagesInv
    <3>. QED BY <3>1, <3>2
  <2>. QED BY <2>1, <2>2, <2>3, <2>4, <2>5 DEF PagesInv
<1>12. ASSUME NEW a, IsFirst(a) PROVE IsFirst(a)'
    BY <1>3, <1>12 DEF IsFirst, FirstOf
<1>13. ASSUME Kind = "batch" PROVE BatchInv' /\ (\A i \in DOMAIN steps : IsFirst(steps[i].url))'
  <2>1. BatchInv
      BY <1>1, <1>13 DEF StepsInv
  <2>2. frontier'.pending = frontier.pending /\ frontier'.visited = frontier.visited
    <3>1. worker[w].item.depth = MaxDepth
        BY <1>1, <1>2, <1>13, WorkersAre, CrawlAssumption
    <3>. QED BY <1>5, <3>1 DEF Recorder
  <2>3. (\A a \in QueuedUrls(frontier) : IsFirst(a))'
      BY <1>12, <2>1, <2>2 DEF BatchInv, QueuedUrls
  <2>4. (\A v \in Busy : IsFirst(worker[v].item.url))'
      BY <1>2, <1>12, <2>1 DEF BatchInv
  <2>5. BatchInv'
      BY <1>3, <2>1, <2>2, <2>3, <2>4 DEF BatchInv
  <2>6. ASSUME NEW i \in DOMAIN steps' PROVE IsFirst(steps'[i].url)
    <3>1. CASE i = n
        BY <1>2, <1>4, <2>1, <3>1 DEF BatchInv
    <3>2. CASE i # n
      <4>1. i \in DOMAIN steps /\ steps'[i] = steps[i]
          BY <1>4, <1>7, <3>2
      <4>. QED BY <1>1, <1>13, <4>1 DEF StepsInv
    <3>. QED BY <3>1, <3>2
  <2>7. (\A i \in DOMAIN steps : IsFirst(steps[i].url))'
      BY <1>3, <2>6 DEF IsFirst, FirstOf
  <2>. QED BY <2>5, <2>7
<1>14. NoPageTwice'
  <2>1. ASSUME NEW i \in DOMAIN steps, KeyOf[steps[i].url] = KeyOf[u]
        PROVE  Kind = "crawl" /\ steps[i].attempt # Latest
    <3>1. i \notin DoneSteps
        BY <1>8, <2>1 DEF DoneKeys
    <3>. QED BY <3>1, CrawlAssumption DEF DoneSteps
  <2>2. ASSUME NEW i \in DOMAIN steps, Kind = "crawl", steps[i].attempt = Latest,
               steps[i].content, Content(w)
        PROVE  Body[steps[i].url] # Body[u]
      BY <1>1, <2>2 DEF PagesInv, Content, IsCopy
  <2>3. ASSUME NEW i \in DOMAIN steps', NEW j \in DOMAIN steps', i # j
        PROVE  /\ KeyOf[steps'[i].url] = KeyOf[steps'[j].url]
                  => Kind = "crawl" /\ steps'[i].attempt # steps'[j].attempt
               /\ Kind = "crawl" /\ steps'[i].attempt = steps'[j].attempt
                  /\ steps'[i].content /\ steps'[j].content
                  => Body[steps'[i].url] # Body[steps'[j].url]
    <3>1. CASE i = n
      <4>1. j \in DOMAIN steps /\ steps'[j] = steps[j]
          BY <1>4, <1>7, <2>3, <3>1
      <4>. QED BY <1>4, <2>1, <2>2, <3>1, <4>1
    <3>2. CASE j = n
      <4>1. i \in DOMAIN steps /\ steps'[i] = steps[i]
          BY <1>4, <1>7, <2>3, <3>2
      <4>. QED BY <1>4, <2>1, <2>2, <3>2, <4>1
    <3>3. CASE i # n /\ j # n
      <4>1. i \in DOMAIN steps /\ steps'[i] = steps[i] /\ j \in DOMAIN steps /\ steps'[j] = steps[j]
          BY <1>4, <1>7, <3>3
      <4>. QED BY <1>1, <2>3, <4>1 DEF StepsInv, NoPageTwice
    <3>. QED BY <3>1, <3>2, <3>3
  <2>. QED BY <2>3 DEF NoPageTwice
<1>15. (\A i \in DOMAIN steps : steps[i].attempt <= Latest)'
  <2>. SUFFICES ASSUME NEW i \in DOMAIN steps' PROVE steps'[i].attempt <= Latest
      BY <1>3
  <2>1. CASE i = n
      BY <1>4, <1>6, <2>1
  <2>2. CASE i # n
      BY <1>1, <1>4, <1>7, <2>2 DEF StepsInv
  <2>. QED BY <2>1, <2>2
<1>16. StepsInv'
    BY <1>11, <1>13, <1>14, <1>15 DEF StepsInv
<1>. QED BY <1>9, <1>10, <1>16 DEF IInv


(* The latest attempt is written.                                            *)
LEMMA AttemptWritten ==
    ASSUME Shape, attempts # << >>, NEW row \in AttemptRow,
           attempts' = [attempts EXCEPT ![Latest] = row]
    PROVE  /\ attempts' \in Seq(AttemptRow) /\ Latest' = Latest
           /\ attempts'[Latest] = row
<1>1. attempts \in Seq(AttemptRow)
    BY DEF Shape
<1>2. Latest \in 1 .. Len(attempts) /\ DOMAIN attempts = 1 .. Len(attempts)
    BY <1>1, RowsAre, EmptySeq DEF Latest
<1>3. PICK rows, i, R : rows = attempts /\ i = Latest /\ R = AttemptRow
    OBVIOUS
<1>4. [rows EXCEPT ![i] = row] \in Seq(R) /\ Len([rows EXCEPT ![i] = row]) = Len(rows)
    BY <1>1, <1>2, <1>3, ExceptSeq
<1>5. attempts' \in Seq(AttemptRow) /\ Len(attempts') = Len(attempts)
    BY <1>3, <1>4
<1>. QED BY <1>2, <1>5 DEF Latest

(* The page is let go: it is one of the rows from now on.                    *)
LEMMA SettleKeeps ==
    ASSUME IInv, NEW w \in Workers, Settle(w)
    PROVE  IInv'
<1>1. /\ Shape /\ MemoryInv /\ worker \in [Workers -> WorkerState] /\ run \in RunState
      /\ now \in Nat
    BY DEF IInv, Shape, MemoryInv
<1>2. /\ task' = task /\ steps' = steps /\ process' = process
      /\ frontier' = frontier /\ now' = now /\ worker[w].pc = "recorded" /\ run.phase = "working"
    BY DEF Settle, Turn
<1>3. RowsStay /\ attempts' \in Seq(AttemptRow)
  <2>1. PICK row : row = [status |-> "running", budget |-> run.budget]
      OBVIOUS
  <2>2. row \in AttemptRow
      BY <1>1, <2>1 DEF AttemptRow, RunState
  <2>3. attempts' = [attempts EXCEPT ![Latest] = row] /\ attempts # << >>
      BY <1>1, <1>2, <2>1 DEF Settle, MemoryInv
  <2>4. attempts' \in Seq(AttemptRow) /\ Latest' = Latest
      BY <1>1, <2>2, <2>3, AttemptWritten
  <2>. QED BY <1>1, <1>2, <2>4, RowsAre DEF RowsStay, UrlsStay
<1>4. PICK woken, top : woken = Woken(worker) /\ top = [NoItem EXCEPT !.pc = "top"]
    OBVIOUS
<1>5. woken \in [Workers -> WorkerState]
      /\ \A v \in Workers : \/ woken[v] = worker[v]
                            \/ worker[v].pc = "parked" /\ woken[v].pc = "top"
    BY <1>1, <1>4, WokenIs
<1>6. top \in WorkerState /\ top.pc = "top"
    BY <1>4 DEF NoItem, WorkerState
<1>7. worker' = [woken EXCEPT ![w] = top]
    BY <1>4, Zenon DEF Settle, Released
<1>8. worker' \in [Workers -> WorkerState] /\ Shifts
  <2>1. worker' \in [Workers -> WorkerState] /\ worker'[w] = top
        /\ \A v \in Workers \ {w} : worker'[v] = woken[v]
      BY <1>5, <1>6, <1>7
  <2>. QED BY <1>2, <1>5, <1>6, <2>1 DEF Shifts
<1>9. worker[w].item.url \in Urls
  <2>1. w \in Busy
      BY <1>2 DEF Busy
  <2>. QED BY <1>1, <2>1, WorkersAre
<1>10. /\ run' \in RunState
       /\ run'.phase = run.phase /\ run'.seenHash = run.seenHash /\ run'.seeded = run.seeded
       /\ run'.next = run.next
    BY <1>1, <1>9 DEF Settle, RunState
<1>11. process' \in {"up", "closing", "down"} /\ (process' = "down" => run.phase = "none")
    BY <1>1, <1>2 DEF Shape, MemoryInv
<1>12. NextInv'
    BY <1>1, <1>2, <1>10 DEF MemoryInv, NextInv
<1>. QED BY <1>1, <1>2, <1>3, <1>8, <1>10, <1>11, <1>12, QuietKeeps DEF Shape

-----------------------------------------------------------------------------
(* The steps of a job while no page is under way.                          *)

\* The stages of a launch before its attempt, those of the end of a run, the
\* loss of the process and its restart keep the invariant.
LEMMA StagesKeep ==
    ASSUME IInv,
           \/ Open \/ RefuseToOpen \/ OpenTask
           \/ Decide \/ Finish \/ Relaunch \/ EndJob
           \/ AnswerRequest /\ ~InFlight
           \/ Crash \/ Restart
    PROVE  IInv'
<1>1. /\ Shape /\ MemoryInv /\ worker \in [Workers -> WorkerState] /\ run \in RunState
      /\ process \in {"up", "closing", "down"} /\ frontier \in Frontiers
      /\ task \in [status : Unfinished \cup Terminal, urls : Seq(Urls)]
      /\ attempts \in Seq(AttemptRow)
    BY DEF IInv, Shape
<1>2. /\ NoRun \in RunState /\ NoRun.phase = "none" /\ NoRun.next = None
      /\ Submitted \in RunState /\ Submitted.phase = "submitted"
      /\ Resting \in [Workers -> WorkerState] /\ \A w \in Workers : Resting[w].pc = "done"
      /\ EmptyFrontier \in Frontiers
    BY EmptyIsClean DEF NoRun, Submitted, RunState, Resting, NoItem, WorkerState
<1>3. Outcome \in {"cancelled", "paused", "failed", "completed"}
    BY DEF Outcome
<1>4. ASSUME AnswerRequest, ~InFlight
      PROVE  /\ task' \in [status : Unfinished \cup Terminal, urls : Seq(Urls)] /\ UrlsStay
             /\ attempts' = attempts /\ steps' = steps /\ worker' = worker
             /\ frontier' = frontier /\ process' = process /\ now' = now
             /\ run' = Submitted /\ run.phase = "none"
    BY <1>1, <1>4, AnswerIs DEF InFlight
<1>5. /\ task' \in [status : Unfinished \cup Terminal, urls : Seq(Urls)]
      /\ UrlsStay /\ steps' = steps /\ now' = now
  <2>1. CASE OpenTask \/ Finish
    <3>1. run.next \in Unfinished \cup Terminal
        BY <1>1, <2>1 DEF OpenTask, Finish, MemoryInv, NextInv, Unfinished
    <3>2. task' = [task EXCEPT !.status = run.next] /\ steps' = steps /\ now' = now
        BY <2>1 DEF OpenTask, Finish
    <3>3. task'.urls = task.urls /\ task' \in [status : Unfinished \cup Terminal, urls : Seq(Urls)]
        BY <1>1, <3>1, <3>2
    <3>. QED BY <1>1, <3>2, <3>3, RowsAre DEF UrlsStay
  <2>2. CASE AnswerRequest /\ ~InFlight
      BY <1>4, <2>2
  <2>3. CASE ~(OpenTask \/ Finish \/ (AnswerRequest /\ ~InFlight))
    <3>1. task' = task /\ steps' = steps /\ now' = now
        BY <2>3 DEF Open, RefuseToOpen, Decide, Relaunch, EndJob, Crash, Restart, store
    <3>. QED BY <1>1, <3>1, RowsAre DEF UrlsStay
  <2>. QED BY <2>1, <2>2, <2>3
<1>6. attempts' \in Seq(AttemptRow) /\ Latest' = Latest
  <2>1. CASE Decide
    <3>1. PICK row : row = [status |-> IF Outcome = "paused" THEN "interrupted" ELSE Outcome,
                            budget |-> run.budget]
        OBVIOUS
    <3>2. row \in AttemptRow
        BY <1>1, <1>3, <3>1 DEF AttemptRow, RunState, Terminal
    <3>3. attempts' = [attempts EXCEPT ![Latest] = row]
        BY <2>1, <3>1, Zenon DEF Decide
    <3>4. attempts # << >>
        BY <1>1, <2>1 DEF Decide, Turn, MemoryInv
    <3>. QED BY <1>1, <3>2, <3>3, <3>4, AttemptWritten
  <2>2. CASE RefuseToOpen \/ OpenTask
    <3>1. "failed" \in Terminal
        BY DEF Terminal
    <3>2. attempts' = Closed(attempts, "failed") \/ attempts' = Interrupted(attempts)
        BY <2>2 DEF RefuseToOpen, OpenTask
    <3>. QED BY <1>1, <3>1, <3>2, Marked DEF Latest
  <2>3. CASE ~(Decide \/ RefuseToOpen \/ OpenTask)
    <3>1. attempts' = attempts
        BY <1>4, <2>3 DEF Open, Finish, Relaunch, EndJob, Crash, Restart, store
    <3>. QED BY <1>1, <3>1 DEF Latest
  <2>. QED BY <2>1, <2>2, <2>3
<1>7. RowsStay
    BY <1>5, <1>6 DEF RowsStay
<1>8. /\ run' \in RunState /\ run'.phase # "working"
      /\ run'.phase \in {"ending", "ended"} => run.phase \in {"working", "ending", "ended"}
      /\ NextInv'
  <2>1. CASE Open
    <3>1. run' = [run EXCEPT !.phase = "opening", !.next = "running"]
        BY <2>1 DEF Open
    <3>2. process' # "down"
        BY <1>1, <2>1 DEF Open, MemoryInv
    <3>. QED BY <1>1, <3>1, <3>2 DEF RunState, NextInv, Unfinished
  <2>2. CASE OpenTask \/ Finish
    <3>1. PICK phase \in {"opened", "ended"} :
             /\ run' = [run EXCEPT !.phase = phase, !.next = None]
             /\ phase = "ended" => run.phase = "ending"
        BY <2>2 DEF OpenTask, Finish
    <3>. QED BY <1>1, <3>1 DEF RunState, NextInv
  <2>3. CASE Decide
    <3>1. run' = [run EXCEPT !.phase = "ending", !.next = Outcome] /\ run.phase = "working"
        BY <2>3 DEF Decide, Turn
    <3>2. PICK status : status = Outcome
        OBVIOUS
    <3>3. status \in Terminal \cup {"paused"}
        BY <1>3, <3>2 DEF Terminal
    <3>4. run' \in RunState /\ run'.phase = "ending" /\ run'.next = status
        BY <1>1, <3>1, <3>2, <3>3 DEF RunState, Unfinished
    <3>5. process' # "down"
        BY <1>1, <2>3, <3>1 DEF Decide, MemoryInv
    <3>. QED BY <3>1, <3>3, <3>4, <3>5 DEF NextInv
  <2>4. CASE RefuseToOpen \/ EndJob \/ Crash
    <3>1. run' = NoRun
        BY <2>4 DEF RefuseToOpen, EndJob, Crash
    <3>. QED BY <1>2, <3>1 DEF NextInv
  <2>5. CASE Relaunch \/ (AnswerRequest /\ ~InFlight)
    <3>1. run' = Submitted
        BY <1>4, <2>5 DEF Relaunch
    <3>2. Submitted.next = None
        BY DEF Submitted, NoRun
    <3>. QED BY <1>2, <3>1, <3>2 DEF NextInv
  <2>6. CASE Restart
    <3>1. CASE run' = Submitted
        BY <1>2, <2>6, <3>1 DEF NextInv, Restart
    <3>2. CASE run' = run
        BY <1>1, <2>6, <3>2 DEF Restart, store, MemoryInv, NextInv
    <3>. QED BY <2>6, <3>1, <3>2 DEF Restart
  <2>. QED BY <2>1, <2>2, <2>3, <2>4, <2>5, <2>6
<1>9. \A w \in Workers : worker[w].pc = "done" \/ Crash
  <2>1. run.phase # "working" \/ Decide \/ Crash
      BY <1>1, <1>4 DEF Open, RefuseToOpen, OpenTask, Finish, Relaunch, EndJob, Restart, MemoryInv
  <2>. QED BY <1>1, <2>1 DEF MemoryInv, Decide
<1>10. /\ worker' \in [Workers -> WorkerState]
       /\ \A w \in Workers : worker'[w].pc = "done"
       /\ frontier' \in Frontiers
  <2>1. (worker' = worker /\ ~Crash) \/ worker' = Resting
      BY <1>4 DEF Open, RefuseToOpen, OpenTask, Decide, Finish, Relaunch, EndJob, Crash, Restart
  <2>2. frontier' = frontier \/ frontier' = EmptyFrontier
      BY <1>4 DEF Open, RefuseToOpen, OpenTask, Decide, Finish, Relaunch, EndJob, Crash, Restart
  <2>. QED BY <1>1, <1>2, <1>9, <2>1, <2>2
<1>11. process' \in {"up", "closing", "down"} /\ (process' = "down" => run'.phase = "none")
  <2>1. CASE process' = process
    <3>1. ASSUME process = "down" PROVE run'.phase = "none"
      <4>1. run.phase = "none"
          BY <1>1, <3>1 DEF MemoryInv
      <4>2. ~(Open \/ RefuseToOpen \/ OpenTask \/ Decide \/ Finish \/ Relaunch \/ EndJob)
          BY <4>1 DEF Open, RefuseToOpen, OpenTask, Decide, Finish, Relaunch, EndJob, Turn
      <4>3. ~AnswerRequest
          BY <1>1, <3>1 DEF MemoryInv, NextInv, AnswerRequest
      <4>4. ~Restart
          BY <2>1, <3>1 DEF Restart
      <4>5. Crash
          BY <4>2, <4>3, <4>4
      <4>. QED BY <1>2, <4>5 DEF Crash
    <3>. QED BY <1>1, <2>1, <3>1
  <2>2. CASE Crash \/ Restart
      BY <1>2, <2>2 DEF Crash, Restart
  <2>3. process' = process \/ Crash \/ Restart
      BY <1>4 DEF Open, RefuseToOpen, OpenTask, Decide, Finish, Relaunch, EndJob
  <2>. QED BY <2>1, <2>2, <2>3
<1>. QED BY <1>5, <1>6, <1>7, <1>8, <1>10, <1>11, IdleKeeps


-----------------------------------------------------------------------------
(* The frontier a launch makes.                                            *)

(* g is f with more queued: gain is remembered, and whatever is remembered   *)
(* is queued or was known before.                                           *)
Grows(f, g, gain) ==
    /\ Extends(f, g, Urls)
    /\ gain \subseteq g.visited
    /\ g.visited \subseteq f.visited \cup QueuedKeys(g)

GrowEach(p, n, gain) == \A k \in 1 .. n : Grows(p[k - 1], p[k], gain[k])
Gains(gain, n) == UNION {gain[k] : k \in 1 .. n}

(* A run of frontiers that grow keeps all the gains.                        *)
LEMMA GrowingRun ==
    ASSUME NEW n \in Nat, NEW p, NEW gain, GrowEach(p, n, gain)
    PROVE  Grows(p[0], p[n], Gains(gain, n))
<1>. USE DEF GrowEach
<1>. DEFINE Sum(k) == UNION {gain[j] : j \in 1 .. k}
            S == {k \in 0 .. n : Grows(p[0], p[k], Sum(k))}
<1>1. 0 \in S
    BY ExtendsNothing DEF Grows
<1>2. ASSUME NEW k \in 0 .. n - 1, k \in S PROVE k + 1 \in S
  <2>1. k + 1 \in 1 .. n /\ k + 1 \in 0 .. n /\ (k + 1) - 1 = k
      OBVIOUS
  <2>2. PICK f, q, r, old, new : /\ f = p[0] /\ q = p[k] /\ r = p[k + 1]
                                 /\ old = Sum(k) /\ new = gain[k + 1]
      OBVIOUS
  <2>3. Grows(f, q, old) /\ Grows(q, r, new)
      BY <1>2, <2>1, <2>2
  <2>4. Sum(k + 1) = old \cup new
    <3>1. 1 .. k + 1 = (1 .. k) \cup {k + 1}
        OBVIOUS
    <3>. QED BY <2>2, <3>1
  <2>5. Extends(f, r, Urls)
    <3>1. Extends(f, q, Urls) /\ Extends(q, r, Urls)
        BY <2>3 DEF Grows
    <3>2. Extends(f, r, Urls \cup Urls)
        BY <3>1, ExtendsSteps
    <3>. QED BY <3>2
  <2>6. Grows(f, r, old \cup new)
      BY <2>3, <2>5 DEF Grows, Extends
  <2>. QED BY <2>1, <2>2, <2>4, <2>6
<1>3. 0 .. n \subseteq S
  <2>. HIDE DEF S
  <2>. QED BY <1>1, <1>2, Induction
<1>. QED BY <1>3 DEF Gains

(* A page that has its step is queued again, then its links.                 *)
OfferPage(f, s) == Offer(f, s.url, s.depth)
OfferLinks(f, s) == OfferAll(f, Links[s.url], s.depth + 1)

LinkKeys(s) == IF s.depth < MaxDepth THEN {KeyOf[u] : u \in ToSet(Links[s.url])} ELSE {}

\* A page offered again on resume adds at most itself to the frontier, and its
\* key counts as seen.
LEMMA OfferPageStep ==
    ASSUME NEW f \in Frontiers, NEW s \in StepRow
    PROVE  OfferPage(f, s) \in Frontiers /\ Grows(f, OfferPage(f, s), {KeyOf[s.url]})
<1>1. PICK u, depth, g : u = s.url /\ depth = s.depth /\ g = OfferPage(f, s)
    OBVIOUS
<1>2. u \in Urls /\ depth \in Nat /\ depth <= MaxDepth /\ g = Offer(f, u, depth)
    BY <1>1, FrontierAssumption DEF StepRow, OfferPage
<1>3. /\ g \in Frontiers /\ Extends(f, g, {u})
      /\ depth <= MaxDepth => KeyOf[u] \in g.visited
      /\ g.visited \subseteq f.visited \cup QueuedKeys(g)
    BY <1>2, OfferStep
<1>4. Extends(f, g, Urls)
    BY <1>2, <1>3 DEF Extends
<1>. QED BY <1>1, <1>2, <1>3, <1>4 DEF Grows

\* A page's links offered on resume add at most themselves, and are all seen at
\* a depth allowed.
LEMMA OfferLinksStep ==
    ASSUME NEW f \in Frontiers, NEW s \in StepRow
    PROVE  OfferLinks(f, s) \in Frontiers /\ Grows(f, OfferLinks(f, s), LinkKeys(s))
<1>1. PICK urls, depth, g : urls = Links[s.url] /\ depth = s.depth + 1 /\ g = OfferLinks(f, s)
    OBVIOUS
<1>2. /\ urls \in Seq(Urls) /\ depth \in Nat /\ g = OfferAll(f, urls, depth)
      /\ s.depth < MaxDepth => depth <= MaxDepth
    BY <1>1, FrontierAssumption DEF StepRow, OfferLinks
<1>3. /\ g \in Frontiers /\ Extends(f, g, ToSet(urls))
      /\ depth <= MaxDepth => \A u \in ToSet(urls) : KeyOf[u] \in g.visited
      /\ g.visited \subseteq f.visited \cup QueuedKeys(g)
    BY <1>2, OfferAllIs
<1>4. ToSet(urls) \subseteq Urls
    BY <1>2, LenProperties, ElementOfSeq DEF ToSet
<1>5. Extends(f, g, Urls)
    BY <1>3, <1>4 DEF Extends
<1>. QED BY <1>1, <1>2, <1>3, <1>5 DEF Grows, LinkKeys

OfferPages(f, rows) == FoldLeft(LAMBDA g, s : Offer(g, s.url, s.depth), f, rows)
OfferAllLinks(f, rows) == FoldLeft(LAMBDA g, s : OfferAll(g, Links[s.url], s.depth + 1), f, rows)

(* Both are run over the rows in turn.                                      *)
LEMMA PagesRun ==
    ASSUME NEW f \in Frontiers, NEW rows \in Seq(StepRow)
    PROVE  \E p \in [0 .. Len(rows) -> Frontiers] :
              /\ p[0] = f /\ p[Len(rows)] = OfferPages(f, rows)
              /\ \A k \in 1 .. Len(rows) : p[k] = OfferPage(p[k - 1], rows[k])
<1>. DEFINE n == Len(rows)
            step == [k \in 1 .. n |-> [q \in Frontiers |-> OfferPage(q, rows[k])]]
            it == CHOOSE g : g = [s \in SUBSET (DOMAIN rows) |->
                                    IF s = {} THEN f
                                    ELSE OfferPage(g[s \ {Max(s)}], rows[Max(s)])]
<1>1. n \in Nat /\ DOMAIN rows = 1 .. n /\ \A k \in 1 .. n : rows[k] \in StepRow
    BY LenProperties, ElementOfSeq
<1>2. step \in [1 .. n -> [Frontiers -> Frontiers]]
    BY <1>1, OfferPageStep
<1>3. OfferPages(f, rows) = it[1 .. n]
    BY <1>1 DEF OfferPage, OfferPages, FoldLeft, MapThenFoldSet
<1>4. \A k \in 1 .. n, q \in Frontiers : step[k][q] = OfferPage(q, rows[k])
    OBVIOUS
<1>. HIDE DEF step, n
<1>5. \E g : g = [s \in SUBSET (DOMAIN rows) |->
                    IF s = {} THEN f ELSE OfferPage(g[s \ {Max(s)}], rows[Max(s)])]
  <2>1. PICK g \in [SUBSET (1 .. n) -> Frontiers] : FoldsTo(g, n, Frontiers, f, step)
      BY <1>1, <1>2, FoldExists
  <2>2. ASSUME NEW s \in SUBSET (1 .. n), s # {}
        PROVE  Max(s) \in 1 .. n /\ g[s \ {Max(s)}] \in Frontiers
      BY <1>1, <2>2, MaxIs
  <2>3. ASSUME NEW s \in SUBSET (1 .. n)
        PROVE  g[s] = IF s = {} THEN f ELSE OfferPage(g[s \ {Max(s)}], rows[Max(s)])
      BY <1>4, <2>1, <2>2 DEF FoldsTo
  <2>. QED BY <1>1, <2>1, <2>3
<1>6. it = [s \in SUBSET (DOMAIN rows) |->
              IF s = {} THEN f ELSE OfferPage(it[s \ {Max(s)}], rows[Max(s)])]
    BY <1>5
<1>. HIDE DEF it
<1>7. FoldsTo(it, n, Frontiers, f, step)
  <2>1. ASSUME NEW s \in SUBSET (1 .. n), s # {}, it[s \ {Max(s)}] \in Frontiers
        PROVE  it[s] = step[Max(s)][it[s \ {Max(s)}]]
    <3>1. Max(s) \in 1 .. n
        BY <1>1, <2>1, MaxIs
    <3>2. it[s] = OfferPage(it[s \ {Max(s)}], rows[Max(s)])
        BY <1>1, <1>6, <2>1
    <3>. QED BY <1>4, <2>1, <3>1, <3>2
  <2>2. it[{}] = f
      BY <1>6
  <2>. QED BY <2>1, <2>2 DEF FoldsTo
<1>8. PICK p \in [0 .. n -> Frontiers] : Runs(p, n, f, step) /\ p[n] = it[1 .. n]
  <2>1. PICK F : F = Frontiers
      OBVIOUS
  <2>2. f \in F /\ step \in [1 .. n -> [F -> F]] /\ FoldsTo(it, n, F, f, step) /\ n \in Nat
      BY <1>1, <1>2, <1>7, <2>1
  <2>3. HasRun(it, n, F, f, step)
      BY <2>2, FoldRun
  <2>. QED BY <2>1, <2>3 DEF HasRun
<1>9. \A k \in 1 .. n : p[k] = OfferPage(p[k - 1], rows[k])
  <2>. TAKE k \in 1 .. n
  <2>1. k - 1 \in 0 .. n
      BY <1>1
  <2>2. p[k - 1] \in Frontiers
      BY <2>1, <1>8
  <2>. QED BY <1>4, <1>8, <2>2 DEF Runs
<1>. QED BY <1>3, <1>8, <1>9 DEF Runs, n

\* Offering the links of the rows one after the other, written as a run of the
\* frontier's states.
LEMMA LinksRun ==
    ASSUME NEW f \in Frontiers, NEW rows \in Seq(StepRow)
    PROVE  \E p \in [0 .. Len(rows) -> Frontiers] :
              /\ p[0] = f /\ p[Len(rows)] = OfferAllLinks(f, rows)
              /\ \A k \in 1 .. Len(rows) : p[k] = OfferLinks(p[k - 1], rows[k])
<1>. DEFINE n == Len(rows)
            step == [k \in 1 .. n |-> [q \in Frontiers |-> OfferLinks(q, rows[k])]]
            it == CHOOSE g : g = [s \in SUBSET (DOMAIN rows) |->
                                    IF s = {} THEN f
                                    ELSE OfferLinks(g[s \ {Max(s)}], rows[Max(s)])]
<1>1. n \in Nat /\ DOMAIN rows = 1 .. n /\ \A k \in 1 .. n : rows[k] \in StepRow
    BY LenProperties, ElementOfSeq
<1>2. step \in [1 .. n -> [Frontiers -> Frontiers]]
    BY <1>1, OfferLinksStep
<1>3. OfferAllLinks(f, rows) = it[1 .. n]
    BY <1>1 DEF OfferLinks, OfferAllLinks, FoldLeft, MapThenFoldSet
<1>4. \A k \in 1 .. n, q \in Frontiers : step[k][q] = OfferLinks(q, rows[k])
    OBVIOUS
<1>. HIDE DEF step, n
<1>5. \E g : g = [s \in SUBSET (DOMAIN rows) |->
                    IF s = {} THEN f ELSE OfferLinks(g[s \ {Max(s)}], rows[Max(s)])]
  <2>1. PICK g \in [SUBSET (1 .. n) -> Frontiers] : FoldsTo(g, n, Frontiers, f, step)
      BY <1>1, <1>2, FoldExists
  <2>2. ASSUME NEW s \in SUBSET (1 .. n), s # {}
        PROVE  Max(s) \in 1 .. n /\ g[s \ {Max(s)}] \in Frontiers
      BY <1>1, <2>2, MaxIs
  <2>3. ASSUME NEW s \in SUBSET (1 .. n)
        PROVE  g[s] = IF s = {} THEN f ELSE OfferLinks(g[s \ {Max(s)}], rows[Max(s)])
      BY <1>4, <2>1, <2>2 DEF FoldsTo
  <2>. QED BY <1>1, <2>1, <2>3
<1>6. it = [s \in SUBSET (DOMAIN rows) |->
              IF s = {} THEN f ELSE OfferLinks(it[s \ {Max(s)}], rows[Max(s)])]
    BY <1>5
<1>. HIDE DEF it
<1>7. FoldsTo(it, n, Frontiers, f, step)
  <2>1. ASSUME NEW s \in SUBSET (1 .. n), s # {}, it[s \ {Max(s)}] \in Frontiers
        PROVE  it[s] = step[Max(s)][it[s \ {Max(s)}]]
    <3>1. Max(s) \in 1 .. n
        BY <1>1, <2>1, MaxIs
    <3>2. it[s] = OfferLinks(it[s \ {Max(s)}], rows[Max(s)])
        BY <1>1, <1>6, <2>1
    <3>. QED BY <1>4, <2>1, <3>1, <3>2
  <2>2. it[{}] = f
      BY <1>6
  <2>. QED BY <2>1, <2>2 DEF FoldsTo
<1>8. PICK p \in [0 .. n -> Frontiers] : Runs(p, n, f, step) /\ p[n] = it[1 .. n]
  <2>1. PICK F : F = Frontiers
      OBVIOUS
  <2>2. f \in F /\ step \in [1 .. n -> [F -> F]] /\ FoldsTo(it, n, F, f, step) /\ n \in Nat
      BY <1>1, <1>2, <1>7, <2>1
  <2>3. HasRun(it, n, F, f, step)
      BY <2>2, FoldRun
  <2>. QED BY <2>1, <2>3 DEF HasRun
<1>9. \A k \in 1 .. n : p[k] = OfferLinks(p[k - 1], rows[k])
  <2>. TAKE k \in 1 .. n
  <2>1. k - 1 \in 0 .. n
      BY <1>1
  <2>2. p[k - 1] \in Frontiers
      BY <2>1, <1>8
  <2>. QED BY <1>4, <1>8, <2>2 DEF Runs
<1>. QED BY <1>3, <1>8, <1>9 DEF Runs, n


(* Each page, and each link within the depth, is remembered in the end.      *)
LEMMA PagesAre ==
    ASSUME NEW f \in Frontiers, NEW rows \in Seq(StepRow),
           NEW g, g = OfferPages(f, rows)
    PROVE  g \in Frontiers /\ Grows(f, g, UNION {{KeyOf[s.url]} : s \in ToSet(rows)})
<1>. DEFINE n == Len(rows)
            gain == [k \in 1 .. n |-> {KeyOf[rows[k].url]}]
<1>1. PICK p \in [0 .. n -> Frontiers] :
              /\ p[0] = f /\ p[n] = g
              /\ \A k \in 1 .. n : p[k] = OfferPage(p[k - 1], rows[k])
    BY PagesRun
<1>2. n \in Nat /\ DOMAIN rows = 1 .. n /\ \A k \in 1 .. n : rows[k] \in StepRow
    BY LenProperties, ElementOfSeq
<1>3. g \in Frontiers
    BY <1>1, <1>2
<1>4. ASSUME NEW k \in 1 .. n PROVE Grows(p[k - 1], p[k], gain[k])
  <2>1. k - 1 \in 0 .. n
      BY <1>2
  <2>2. PICK q, s, r : q = p[k - 1] /\ s = rows[k] /\ r = p[k]
      OBVIOUS
  <2>3. q \in Frontiers /\ s \in StepRow /\ r = OfferPage(q, s)
      BY <1>1, <1>2, <2>1, <2>2
  <2>4. Grows(q, r, {KeyOf[s.url]})
      BY <2>3, OfferPageStep
  <2>. QED BY <2>2, <2>4
<1>5. PICK more : more = gain
    OBVIOUS
<1>6. GrowEach(p, n, more)
    BY <1>4, <1>5 DEF GrowEach
<1>7. Grows(p[0], p[n], Gains(more, n))
    BY <1>2, <1>6, GrowingRun
<1>8. Gains(more, n) = UNION {{KeyOf[s.url]} : s \in ToSet(rows)}
    BY <1>2, <1>5 DEF ToSet, Gains
<1>. QED BY <1>1, <1>3, <1>7, <1>8

\* After it, the frontier has grown by the links of every row and by nothing
\* else.
LEMMA LinksAre ==
    ASSUME NEW f \in Frontiers, NEW rows \in Seq(StepRow),
           NEW g, g = OfferAllLinks(f, rows)
    PROVE  g \in Frontiers /\ Grows(f, g, UNION {LinkKeys(s) : s \in ToSet(rows)})
<1>. DEFINE n == Len(rows)
            gain == [k \in 1 .. n |-> LinkKeys(rows[k])]
<1>1. PICK p \in [0 .. n -> Frontiers] :
              /\ p[0] = f /\ p[n] = g
              /\ \A k \in 1 .. n : p[k] = OfferLinks(p[k - 1], rows[k])
    BY LinksRun
<1>2. n \in Nat /\ DOMAIN rows = 1 .. n /\ \A k \in 1 .. n : rows[k] \in StepRow
    BY LenProperties, ElementOfSeq
<1>3. g \in Frontiers
    BY <1>1, <1>2
<1>4. ASSUME NEW k \in 1 .. n PROVE Grows(p[k - 1], p[k], gain[k])
  <2>1. k - 1 \in 0 .. n
      BY <1>2
  <2>2. PICK q, s, r : q = p[k - 1] /\ s = rows[k] /\ r = p[k]
      OBVIOUS
  <2>3. q \in Frontiers /\ s \in StepRow /\ r = OfferLinks(q, s)
      BY <1>1, <1>2, <2>1, <2>2
  <2>4. Grows(q, r, LinkKeys(s))
      BY <2>3, OfferLinksStep
  <2>. QED BY <2>2, <2>4
<1>5. PICK more : more = gain
    OBVIOUS
<1>6. GrowEach(p, n, more)
    BY <1>4, <1>5 DEF GrowEach
<1>7. Grows(p[0], p[n], Gains(more, n))
    BY <1>2, <1>6, GrowingRun
<1>8. Gains(more, n) = UNION {LinkKeys(s) : s \in ToSet(rows)}
    BY <1>2, <1>5 DEF ToSet, Gains
<1>. QED BY <1>1, <1>3, <1>7, <1>8

(* The rows with content, in order.                                         *)
LEMMA ContentStepsAre ==
    ASSUME Shape
    PROVE  /\ ContentSteps \in Seq(StepRow)
           /\ ToSet(ContentSteps) = {steps[i] : i \in {j \in DOMAIN steps : steps[j].content}}
<1>1. PICK R, rows, some : R = StepRow /\ rows = steps /\ some = {s \in ToSet(steps) : s.content}
    OBVIOUS
<1>2. rows \in Seq(R) /\ DOMAIN rows = 1 .. Len(rows)
    BY <1>1, LenProperties DEF Shape
<1>3. PICK kept, good : /\ kept = Kept(rows, some)
                        /\ good = {k \in 1 .. Len(rows) : rows[k] \in some}
    OBVIOUS
<1>4. kept \in Seq(R) /\ \E at : Picks(at, kept, rows, good)
    BY <1>2, <1>3, KeptIs
<1>5. ToSet(kept) = {rows[i] : i \in good}
    BY <1>4 DEF Picks, ToSet
<1>6. good = {j \in DOMAIN rows : rows[j].content}
    BY <1>1, <1>2, <1>3 DEF ToSet
<1>7. kept = ContentSteps
    BY <1>1, <1>3 DEF ContentSteps
<1>. QED BY <1>1, <1>4, <1>5, <1>6, <1>7

(* What a launch of a crawl remembers at once, all of it queued.            *)
Relayed ==
    IF \E i \in DOMAIN steps : steps[i].content
    THEN UNION {Owed(steps[i]) : i \in {j \in DOMAIN steps : steps[j].content}}
    ELSE {KeyOf[task.urls[1]]}

\* The frontier a crawl starts with: its seed, and on a resume the pages
\* recorded and their links.
LEMMA CrawlRestored ==
    ASSUME Shape, Kind = "crawl", task.urls[1] \in Urls, NEW f, f = RestoredFrontier
    PROVE  /\ f \in Frontiers /\ Grows(EmptyFrontier, f, Relayed)
           /\ (\A i \in DOMAIN steps : ~steps[i].content) => QueuedUrls(f) \subseteq {task.urls[1]}
<1>1. PICK e, rows : e = EmptyFrontier /\ rows = ContentSteps
    OBVIOUS
<1>2. /\ e \in Frontiers /\ rows \in Seq(StepRow) /\ QueuedUrls(e) = {}
      /\ ToSet(rows) = {steps[i] : i \in {j \in DOMAIN steps : steps[j].content}}
    BY <1>1, EmptyIsClean, ContentStepsAre
<1>3. rows # << >> <=> \E i \in DOMAIN steps : steps[i].content
  <2>1. rows # << >> <=> ToSet(rows) # {}
      BY <1>2, LenProperties, EmptySeq DEF ToSet
  <2>. QED BY <1>2, <2>1
<1>4. CASE rows # << >>
  <2>1. f = ResumedCrawl
      BY <1>1, <1>4, Zenon DEF RestoredFrontier
  <2>2. PICK q : q = OfferPages(e, rows)
      OBVIOUS
  <2>3. f = OfferAllLinks(q, rows)
      BY <1>1, <2>1, <2>2, Zenon DEF ResumedCrawl, OfferPages, OfferAllLinks
  <2>4. q \in Frontiers /\ Grows(e, q, UNION {{KeyOf[s.url]} : s \in ToSet(rows)})
      BY <1>2, <2>2, PagesAre
  <2>5. f \in Frontiers /\ Grows(q, f, UNION {LinkKeys(s) : s \in ToSet(rows)})
      BY <1>2, <2>3, <2>4, LinksAre
  <2>6. Extends(e, f, Urls)
    <3>1. Extends(e, q, Urls) /\ Extends(q, f, Urls)
        BY <2>4, <2>5 DEF Grows
    <3>2. Extends(e, f, Urls \cup Urls)
        BY <3>1, ExtendsSteps
    <3>. QED BY <3>2
  <2>7. Grows(e, f, (UNION {{KeyOf[s.url]} : s \in ToSet(rows)})
            \cup (UNION {LinkKeys(s) : s \in ToSet(rows)}))
    <3>1. PICK old, new : /\ old = UNION {{KeyOf[s.url]} : s \in ToSet(rows)}
                          /\ new = UNION {LinkKeys(s) : s \in ToSet(rows)}
        OBVIOUS
    <3>2. Grows(e, q, old) /\ Grows(q, f, new)
        BY <2>4, <2>5, <3>1
    <3>3. Grows(e, f, old \cup new)
        BY <2>6, <3>2 DEF Grows, Extends
    <3>. QED BY <3>1, <3>3
  <2>8. (UNION {{KeyOf[s.url]} : s \in ToSet(rows)})
            \cup (UNION {LinkKeys(s) : s \in ToSet(rows)})
        = Relayed
    <3>1. \A s : Owed(s) = {KeyOf[s.url]} \cup LinkKeys(s)
        BY DEF Owed, LinkKeys
    <3>2. Relayed = UNION {Owed(s) : s \in ToSet(rows)}
        BY <1>2, <1>3, <1>4 DEF Relayed
    <3>. QED BY <3>1, <3>2
  <2>. QED BY <1>1, <1>3, <1>4, <2>5, <2>7, <2>8
<1>5. CASE rows = << >>
  <2>1. f = Offer(EmptyFrontier, task.urls[1], 0)
      BY <1>1, <1>5, Zenon DEF RestoredFrontier
  <2>2. PICK u, zero : u = task.urls[1] /\ zero = 0
      OBVIOUS
  <2>3. u \in Urls /\ zero \in Nat /\ zero <= MaxDepth /\ f = Offer(e, u, zero)
      BY <1>1, <2>1, <2>2, FrontierAssumption
  <2>4. /\ f \in Frontiers /\ Extends(e, f, {u})
        /\ zero <= MaxDepth => KeyOf[u] \in f.visited
        /\ f.visited \subseteq e.visited \cup QueuedKeys(f)
      BY <1>2, <2>3, OfferStep
  <2>5. Extends(e, f, Urls) /\ QueuedUrls(f) \subseteq {u}
      BY <1>2, <2>3, <2>4 DEF Extends
  <2>6. Relayed = {KeyOf[u]}
      BY <1>3, <1>5, <2>2 DEF Relayed
  <2>7. Grows(e, f, {KeyOf[u]})
      BY <2>3, <2>4, <2>5 DEF Grows
  <2>. QED BY <1>1, <2>2, <2>4, <2>5, <2>6, <2>7
<1>. QED BY <1>4, <1>5


(* Two first URLs of one page are one.                                      *)
LEMMA FirstIsOne ==
    ASSUME NEW urls, Len(urls) \in Nat, NEW u, NEW v,
           FirstOf(urls, u), FirstOf(urls, v), KeyOf[u] = KeyOf[v]
    PROVE  u = v
<1>1. PICK k \in 1 .. Len(urls) : urls[k] = u /\ \A q \in 1 .. k - 1 : KeyOf[urls[q]] # KeyOf[u]
    BY DEF FirstOf
<1>2. PICK j \in 1 .. Len(urls) : urls[j] = v /\ \A q \in 1 .. j - 1 : KeyOf[urls[q]] # KeyOf[v]
    BY DEF FirstOf
<1>3. k < j => k \in 1 .. j - 1
    OBVIOUS
<1>4. j < k => j \in 1 .. k - 1
    OBVIOUS
<1>5. k = j \/ k < j \/ j < k
    OBVIOUS
<1>. QED BY <1>1, <1>2, <1>3, <1>4, <1>5

(* A launch of a batch remembers every URL, and queues the first of each     *)
(* page that is not done.                                                    *)
LEMMA BatchRestored ==
    ASSUME Shape, StepsInv, Kind = "batch", NEW f, f = RestoredFrontier
    PROVE  /\ f \in Frontiers /\ Clean(f, DoneKeys)
           /\ \A k \in 1 .. Len(task.urls) : KeyOf[task.urls[k]] \in f.visited
           /\ \A u \in QueuedUrls(f) : IsFirst(u)
<1>0. task.urls \in Seq(Urls)
    BY RowsAre
<1>1. PICK e, urls, fetched : e = EmptyFrontier /\ urls = task.urls /\ fetched = FetchedUrls(steps)
    OBVIOUS
<1>2. f = SeedBatchUrls(e, urls, fetched)
  <2>1. f = SeedBatchUrls(EmptyFrontier, task.urls, FetchedUrls(steps))
      BY Zenon DEF RestoredFrontier
  <2>. QED BY <1>1, <2>1
<1>3. e \in Frontiers /\ Clean(e, {}) /\ QueuedUrls(e) = {}
    BY <1>1, EmptyIsClean
<1>4. /\ f \in Frontiers
      /\ Extends(e, f, ToSet(urls))
      /\ \A k \in 1 .. Len(urls) : KeyOf[urls[k]] \in f.visited
      /\ \A u \in QueuedUrls(f) \ QueuedUrls(e) :
           /\ u \notin fetched /\ KeyOf[u] \notin e.visited
           /\ \E k \in 1 .. Len(urls) :
                 urls[k] = u /\ \A q \in 1 .. k - 1 : KeyOf[urls[q]] # KeyOf[u]
    BY <1>0, <1>1, <1>2, <1>3, SeedIs
<1>5. \A u \in QueuedUrls(f) : FirstOf(urls, u) /\ u \notin fetched
    BY <1>3, <1>4 DEF FirstOf
<1>6. ASSUME NEW i \in DOMAIN steps
      PROVE  FirstOf(urls, steps[i].url) /\ steps[i].url \in fetched
  <2>1. PICK u : u = steps[i].url
      OBVIOUS
  <2>2. IsFirst(u)
      BY <2>1 DEF StepsInv
  <2>4. FirstOf(urls, u)
      BY <1>1, <2>2 DEF IsFirst
  <2>. QED BY <1>1, <2>1, <2>4 DEF FetchedUrls
<1>7. Len(urls) \in Nat
    BY <1>0, <1>1, LenProperties
<1>8. \A key \in DoneKeys : \E u \in fetched : key = KeyOf[u] /\ FirstOf(urls, u)
    BY <1>6 DEF DoneKeys, DoneSteps
<1>9. DoneKeys \subseteq f.visited
    BY <1>4, <1>8 DEF FirstOf
<1>10. Clean(f, {})
    BY <1>3, <1>4 DEF Extends
<1>11. QueuedKeys(f) \cap DoneKeys = {}
  <2>. SUFFICES ASSUME NEW key \in QueuedKeys(f), key \in DoneKeys PROVE FALSE
      OBVIOUS
  <2>1. PICK u \in QueuedUrls(f) : key = KeyOf[u]
      BY <1>4, Queued
  <2>2. PICK v \in fetched : key = KeyOf[v] /\ FirstOf(urls, v)
      BY <1>8
  <2>3. u = v
      BY <1>5, <1>7, <2>1, <2>2, FirstIsOne
  <2>. QED BY <1>5, <2>3
<1>12. Clean(f, DoneKeys)
    BY <1>9, <1>10, <1>11 DEF Clean
<1>. QED BY <1>1, <1>4, <1>5, <1>12 DEF IsFirst


(* What a launch leaves: a run with a new attempt and its workers at the top. *)
LEMMA OpenLeaves ==
    ASSUME Shape, OpenAttempt
    PROVE  /\ run.phase = "opened" /\ task' = task
           /\ attempts' \in Seq(AttemptRow) /\ attempts' # << >> /\ Latest' = Latest + 1
           /\ steps' = steps /\ events' = events /\ process' = process /\ now' = now
           /\ frontier' = RestoredFrontier
           /\ run' \in RunState /\ run'.phase = "working" /\ run'.next = None
           /\ run'.taskUrls = FetchedUrls(steps) /\ run'.seenHash = {} /\ run'.told = {}
           /\ run'.seeded = Len(task.urls) /\ run'.budget = None
           /\ run'.aborts = IF process = "closing" THEN {"shutdown"} ELSE {}
           /\ worker' \in [Workers -> WorkerState] /\ \A w \in Workers : worker'[w].pc = "top"
<1>1. /\ run.phase = "opened" /\ task' = task
      /\ steps' = steps /\ events' = events /\ process' = process /\ now' = now
      /\ frontier' = RestoredFrontier
    BY DEF OpenAttempt
<1>2. attempts' \in Seq(AttemptRow) /\ attempts' # << >> /\ Latest' = Latest + 1
  <2>1. PICK rows, row, R : /\ rows = attempts /\ R = AttemptRow
                            /\ row = [status |-> "running", budget |-> None]
      OBVIOUS
  <2>2. rows \in Seq(R) /\ Len(rows) = Latest /\ Latest \in Nat
      BY <2>1, RowsAre DEF Shape, Latest
  <2>3. row \in R
      BY <2>1 DEF AttemptRow
  <2>4. attempts' = Append(rows, row)
      BY <2>1 DEF OpenAttempt
  <2>5. attempts' \in Seq(R) /\ Len(attempts') = Len(rows) + 1
      BY <2>2, <2>3, <2>4, AppendProperties
  <2>6. attempts' # << >>
      BY <2>2, <2>5, EmptySeq
  <2>. QED BY <2>1, <2>2, <2>5, <2>6 DEF Latest
<1>3. FetchedUrls(steps) \subseteq Urls /\ Len(task.urls) \in Nat
    BY RowsAre DEF FetchedUrls
<1>4. PICK urls, n, why : /\ urls = FetchedUrls(steps) /\ n = Len(task.urls)
                          /\ why = IF process = "closing" THEN {"shutdown"} ELSE {}
    OBVIOUS
<1>5. run' = [NoRun EXCEPT !.phase = "working", !.taskUrls = urls, !.seeded = n, !.aborts = why]
    BY <1>4, Zenon DEF OpenAttempt
<1>6. /\ run' \in RunState /\ run'.phase = "working" /\ run'.next = None
      /\ run'.taskUrls = urls /\ run'.seenHash = {} /\ run'.told = {}
      /\ run'.seeded = n /\ run'.budget = None /\ run'.aborts = why
    BY <1>3, <1>4, <1>5 DEF NoRun, RunState
<1>7. worker' \in [Workers -> WorkerState] /\ \A w \in Workers : worker'[w].pc = "top"
    BY DEF OpenAttempt, NoItem, WorkerState
<1>. QED BY <1>1, <1>2, <1>4, <1>6, <1>7

\* The opening of an attempt keeps the invariant.
LEMMA OpenKeeps ==
    ASSUME IInv, OpenAttempt
    PROVE  IInv'
<1>1. Shape /\ MemoryInv /\ StepsInv
    BY DEF IInv
<1>2. /\ task' = task
      /\ attempts' \in Seq(AttemptRow) /\ attempts' # << >> /\ Latest' = Latest + 1
      /\ steps' = steps /\ process' = process /\ now' = now
      /\ frontier' = RestoredFrontier
      /\ run' \in RunState /\ run'.phase = "working" /\ run'.next = None
      /\ run'.seeded = Len(task.urls)
      /\ worker' \in [Workers -> WorkerState] /\ \A w \in Workers : worker'[w].pc = "top"
    BY <1>1, OpenLeaves
<1>3. UrlsStay
    BY <1>1, <1>2, RowsAre DEF UrlsStay
<1>4. Latest \in Nat /\ DoneKeys \in SUBSET Keys
      /\ \A i \in DOMAIN steps : steps[i].attempt \in Nat /\ steps[i].attempt <= Latest
    BY <1>1, RowsAre DEF StepsInv
<1>5. Busy' = {} /\ BusyKeys' = {}
    BY <1>2 DEF Busy, BusyKeys
<1>6. /\ Kind = "batch" => DoneKeys' = DoneKeys
      /\ Kind # "batch" => DoneKeys' = {}
  <2>1. Kind = "batch" => DoneSteps' = DoneSteps
      BY <1>2 DEF DoneSteps
  <2>2. Kind # "batch" => DoneSteps' = {}
    <3>1. \A i \in DOMAIN steps : steps[i].attempt # Latest + 1
        BY <1>4
    <3>. QED BY <1>2, <3>1 DEF DoneSteps
  <2>. QED BY <1>2, <2>1, <2>2 DEF DoneKeys
<1>7. PICK f : f = RestoredFrontier
    OBVIOUS
<1>8. f \in Frontiers /\ Clean(f, DoneKeys')
  <2>1. CASE Kind = "batch"
      BY <1>1, <1>6, <1>7, <2>1, BatchRestored
  <2>2. CASE Kind # "batch"
    <3>1. task.urls[1] \in Urls
      <4>1. Len(Given) \in Nat /\ Len(Given) # 0 /\ Len(Given) <= Len(task.urls)
            /\ Len(task.urls) \in Nat
          BY <1>1, RowsAre, LenProperties, EmptySeq, CrawlAssumption DEF MemoryInv
      <4>2. 1 \in 1 .. Len(task.urls)
          BY <4>1
      <4>. QED BY <1>1, <4>2, RowsAre
    <3>2. Kind = "crawl"
        BY <2>2, CrawlAssumption
    <3>3. f \in Frontiers /\ Grows(EmptyFrontier, f, Relayed)
        BY <1>1, <1>7, <3>1, <3>2, CrawlRestored
    <3>4. Extends(EmptyFrontier, f, Urls) /\ Clean(EmptyFrontier, {}) /\ {} \in SUBSET Keys
        BY <3>3, EmptyIsClean DEF Grows
    <3>5. Clean(f, {})
        BY <3>4 DEF Extends
    <3>. QED BY <1>6, <2>2, <3>3, <3>5
  <2>. QED BY <2>1, <2>2
<1>9. Shape'
    BY <1>1, <1>2, <1>7, <1>8 DEF Shape
<1>10. MemoryInv'
  <2>1. process' # "down" /\ now' \in Nat /\ Len(Given) <= Len(task'.urls)
      BY <1>1, <1>2 DEF MemoryInv, OpenAttempt
  <2>2. NextInv'
      BY <1>2 DEF NextInv
  <2>. QED BY <1>2, <1>5, <2>1, <2>2 DEF MemoryInv
<1>11. PagesInv'
  <2>1. Clean(frontier', DoneKeys' \cup BusyKeys')
      BY <1>2, <1>5, <1>7, <1>8
  <2>2. \A i \in DOMAIN steps' : steps'[i].attempt # Latest'
      BY <1>2, <1>4
  <2>. QED BY <1>2, <1>5, <2>1, <2>2 DEF PagesInv
<1>12. ASSUME Kind = "batch" PROVE BatchInv'
  <2>1. /\ \A k \in 1 .. Len(task.urls) : KeyOf[task.urls[k]] \in f.visited
        /\ \A u \in QueuedUrls(f) : IsFirst(u)
      BY <1>1, <1>7, <1>12, BatchRestored
  <2>2. Len(task.urls) \in Nat
      BY <1>1, RowsAre
  <2>. QED BY <1>2, <1>5, <1>7, <2>1, <2>2 DEF BatchInv, IsFirst, QueuedUrls
<1>13. (\A i \in DOMAIN steps : steps[i].attempt <= Latest)'
    BY <1>2, <1>4
<1>14. NoPageTwice'
    BY <1>1, <1>2 DEF StepsInv, NoPageTwice
<1>15. (Kind = "batch" => \A i \in DOMAIN steps : IsFirst(steps[i].url))'
    BY <1>1, <1>2, <1>3, FirstStays DEF StepsInv
<1>16. StepsInv'
    BY <1>11, <1>12, <1>13, <1>14, <1>15 DEF StepsInv
<1>. QED BY <1>9, <1>10, <1>16 DEF IInv

-----------------------------------------------------------------------------
(* The theorems of the rows.                                               *)

\* The invariant holds of a job just submitted.
LEMMA InitHolds ==
    ASSUME Init
    PROVE  IInv
<1>1. /\ task = [status |-> "pending", urls |-> Given] /\ attempts = << >> /\ steps = << >>
      /\ process = "up" /\ frontier = EmptyFrontier /\ worker = Resting /\ now = 0
      /\ run.phase = "submitted" /\ run \in RunState
    BY DEF Init, Submitted, NoRun, RunState
<1>2. /\ Resting \in [Workers -> WorkerState] /\ \A w \in Workers : Resting[w].pc = "done"
      /\ EmptyFrontier \in Frontiers
    BY EmptyIsClean DEF Resting, NoItem, WorkerState
<1>3. DOMAIN steps = {} /\ steps \in Seq(StepRow) /\ attempts \in Seq(AttemptRow)
    BY <1>1, EmptySeq
<1>4. Shape
    BY <1>1, <1>2, <1>3, CrawlAssumption DEF Shape, Unfinished
<1>5. Busy = {}
    BY <1>1, <1>2 DEF Busy
<1>6. Len(Given) \in Nat /\ Len(task.urls) = Len(Given)
    BY <1>1, LenProperties, CrawlAssumption
<1>7. MemoryInv
    BY <1>1, <1>2, <1>5, <1>6 DEF MemoryInv, NextInv
<1>8. StepsInv
    BY <1>1, <1>3 DEF StepsInv, NoPageTwice
<1>. QED BY <1>4, <1>7, <1>8 DEF IInv

\* Every step keeps the invariant.
LEMMA NextKeeps ==
    ASSUME IInv, [Next]_vars
    PROVE  IInv'
<1>1. ASSUME NEW w \in Workers, WorkerStep(w) PROVE IInv'
  <2>1. CASE TakePage(w) \/ WaitForHost(w) \/ Park(w) \/ Leave(w)
      BY <2>1, LooksKeep
  <2>2. CASE HostReady(w) \/ Quit(w) \/ NoticeCancel(w)
      BY <2>2, WorkerLeaves
  <2>3. CASE \E o \in Outcomes : Answer(w, o)
      BY <2>3, AnswerKeeps
  <2>4. CASE Record(w)
      BY <2>4, RecordKeeps
  <2>5. CASE Settle(w)
      BY <2>5, SettleKeeps
  <2>. QED BY <1>1, <2>1, <2>2, <2>3, <2>4, <2>5 DEF WorkerStep
<1>2. ASSUME NEW w \in Workers, StepFails(w) PROVE IInv'
    BY <1>2, WorkerLeaves
<1>3. CASE JobStep
  <2>1. CASE OpenAttempt
      BY <2>1, OpenKeeps
  <2>2. CASE Open \/ RefuseToOpen \/ OpenTask \/ Decide \/ Finish \/ Relaunch \/ EndJob
      BY <2>2, StagesKeep
  <2>3. CASE AnswerRequest
      BY <2>3, StagesKeep, RequestKeeps
  <2>4. CASE Poll
      BY <2>4, PollKeeps
  <2>. QED BY <1>3, <2>1, <2>2, <2>3, <2>4 DEF JobStep
<1>4. CASE TimeUp
    BY <1>4, RunStopped
<1>5. CASE (\E here \in BOOLEAN : Cancel(here)) \/ Shutdown \/ Exit \/ Tick
    BY <1>5, RequestKeeps
<1>6. CASE AskToAppend \/ AskToResume
    BY <1>6, RequestKeeps
<1>7. CASE Crash \/ Restart
    BY <1>7, StagesKeep
<1>10. CASE UNCHANGED vars
  <2>1. /\ task' = task /\ attempts' = attempts /\ steps' = steps /\ run' = run
        /\ frontier' = frontier /\ worker' = worker /\ process' = process /\ now' = now
      BY <1>10 DEF vars, store, memory
  <2>2. RowsStay /\ Shifts
      BY <2>1, RowsAre DEF RowsStay, UrlsStay, Latest, Shifts, IInv
  <2>3. process' = "down" => run.phase = "none"
      BY <2>1 DEF IInv, MemoryInv
  <2>4. NextInv'
      BY <2>1 DEF IInv, MemoryInv, NextInv
  <2>. QED BY <2>1, <2>2, <2>3, <2>4, QuietKeeps DEF IInv, Shape, MemoryInv
<1>. QED BY <1>1, <1>2, <1>3, <1>4, <1>5, <1>6, <1>7, <1>10 DEF Next

(* The inductive invariant holds in every state of every run: what is        *)
(* queued, under way and done are kept apart by page over launches, appends, *)
(* cancellations and crashes.                                                *)
THEOREM Invariance == Spec => []IInv
<1>1. Init => IInv
    BY InitHolds
<1>2. IInv /\ [Next]_vars => IInv'
    BY NextKeeps
<1>. QED BY <1>1, <1>2, PTL DEF Spec

(* The rows, the run's memory and the frontier keep their shape, and two     *)
(* workers never hold one page.                                              *)
THEOREM CrawlTypeCorrect == Spec => []TypeOK
<1>1. IInv => TypeOK
    BY ShapeIsType
<1>. QED BY <1>1, Invariance, PTL

(* A page is fetched once in an attempt of a crawl and once in the life of a *)
(* batch, and one copy of a body is kept: for any number of workers, pages,  *)
(* appends, relaunches, crashes and resumes.                                 *)
THEOREM PageSafety == Spec => []NoPageTwice
<1>1. IInv => NoPageTwice
    BY DEF IInv, StepsInv
<1>. QED BY <1>1, Invariance, PTL


-----------------------------------------------------------------------------
(* A batch is handed over.                                                 *)

(* A sequence has no more elements than its length.                         *)
LEMMA FewElements ==
    ASSUME NEW S, NEW seq \in Seq(S)
    PROVE  IsFiniteSet(ToSet(seq)) /\ Cardinality(ToSet(seq)) <= Len(seq)
<1>1. Len(seq) \in Nat /\ DOMAIN seq = 1 .. Len(seq) /\ seq \in [1 .. Len(seq) -> S]
    BY LenProperties
<1>2. IsFiniteSet(1 .. Len(seq)) /\ Cardinality(1 .. Len(seq)) = Len(seq)
    BY <1>1, FS_Interval
<1>3. seq \in Surjection(1 .. Len(seq), ToSet(seq))
    BY <1>1 DEF Surjection, ToSet
<1>. QED BY <1>2, <1>3, FS_Surjection

(* A run that hands a completed batch over has a step for every URL of it:   *)
(* the rows are counted after the last write, and none is for another URL.    *)
THEOREM HandoverSafety == Spec => RunLeavesNoUrl
<1>1. ASSUME IInv, Next, Kind = "batch", run.phase = "ended", run'.phase = "none",
             process' # "down", task.status = "completed", attempts[Latest].budget = None
      PROVE  ToSet(task.urls) \subseteq FetchedUrls(steps)
  <2>1. Shape /\ MemoryInv /\ StepsInv /\ run \in RunState
      BY <1>1 DEF IInv, Shape
  <2>3. ASSUME NEW w \in Workers, WorkerStep(w) \/ StepFails(w) PROVE FALSE
      BY <1>1, <2>3 DEF WorkerStep, TakePage, WaitForHost, Park, Leave, AtTop, HostReady,
                        Quit, NoticeCancel, Answer, Record, Settle, StepFails, Turn
  <2>4. /\ ~Open /\ ~RefuseToOpen /\ ~OpenTask /\ ~OpenAttempt /\ ~Decide /\ ~Finish
        /\ ~AnswerRequest /\ ~Poll /\ ~TimeUp /\ ~AskToAppend /\ ~AskToResume /\ ~Exit
      BY <1>1 DEF Open, RefuseToOpen, OpenTask, OpenAttempt, Decide, Finish, AnswerRequest, Poll,
                  TimeUp, AskToAppend, AskToResume, Exit, Turn, Drained
  <2>5. ~Relaunch /\ ~(\E here \in BOOLEAN : Cancel(here)) /\ ~Shutdown /\ ~Tick
      BY <1>1 DEF Relaunch, Submitted, NoRun, Cancel, Unfinished, Shutdown, Tick, Drained
  <2>5a. ~Crash /\ ~Restart
      BY <1>1, <2>1 DEF Crash, Restart, MemoryInv
  <2>6. EndJob
      BY <1>1, <2>3, <2>4, <2>5, <2>5a DEF Next, JobStep
  <2>7. ~(Cardinality(FetchedUrls(steps)) < Len(task.urls))
      BY <1>1, <2>6 DEF EndJob, AppendedWithoutStep
  <2>8. FetchedUrls(steps) \subseteq ToSet(task.urls)
    <3>1. DOMAIN task.urls = 1 .. Len(task.urls)
        BY <2>1, RowsAre
    <3>2. \A i \in DOMAIN steps : steps[i].url \in ToSet(task.urls)
        BY <1>1, <2>1, <3>1 DEF StepsInv, IsFirst, FirstOf, ToSet
    <3>. QED BY <3>2 DEF FetchedUrls
  <2>9. /\ IsFiniteSet(ToSet(task.urls)) /\ Cardinality(ToSet(task.urls)) <= Len(task.urls)
        /\ Len(task.urls) \in Nat
    <3>1. PICK seq : seq = task.urls
        OBVIOUS
    <3>2. seq \in Seq(Urls) /\ Len(task.urls) \in Nat
        BY <2>1, <3>1, RowsAre
    <3>3. IsFiniteSet(ToSet(seq)) /\ Cardinality(ToSet(seq)) <= Len(seq)
        BY <3>2, FewElements
    <3>. QED BY <3>1, <3>2, <3>3
  <2>10. PICK S, T : S = FetchedUrls(steps) /\ T = ToSet(task.urls)
      OBVIOUS
  <2>11. IsFiniteSet(T) /\ S \subseteq T /\ IsFiniteSet(S) /\ Cardinality(T) \in Nat
         /\ Cardinality(S) \in Nat /\ Cardinality(S) <= Cardinality(T)
      BY <2>8, <2>9, <2>10, FS_Subset, FS_CardinalityType
  <2>12. Cardinality(S) = Cardinality(T)
      BY <2>7, <2>9, <2>10, <2>11
  <2>13. S = T
      BY <2>11, <2>12, FS_Subset
  <2>. QED BY <2>10, <2>13
<1>2. IInv /\ [Next]_vars =>
        [/\ Kind = "batch"
         /\ run.phase = "ended" /\ run'.phase = "none" /\ process' # "down"
         /\ task.status = "completed" /\ attempts[Latest].budget = None
         => ToSet(task.urls) \subseteq FetchedUrls(steps)]_vars
    BY <1>1
<1>. QED BY <1>2, Invariance, PTL DEF Spec, RunLeavesNoUrl


-----------------------------------------------------------------------------
(* What a step may be, for the invariants that tell of pages.               *)

(* No page is taken or recorded, and no run starts or ends.                  *)
Idles ==
    /\ steps' = steps /\ Latest' = Latest /\ task'.urls \in Seq(Urls)
    /\ run'.phase = run.phase /\ run'.taskUrls = run.taskUrls /\ run'.told = run.told
    /\ \A w \in Workers :
          \/ worker'[w] = worker[w]
          \/ /\ worker[w].pc # "recorded"
             /\ worker'[w].pc \notin {"scraping", "answered", "recorded"}
    /\ frontier'.lastStart = frontier.lastStart /\ frontier'.delay = frontier.delay
    /\ frontier'.robotsKnown = frontier.robotsKnown
    /\ run.phase = "working" /\ run'.aborts = {} => run.aborts = {} /\ Busy' = Busy
    /\ events \subseteq events'
    /\ process' # "down" => process # "down"
    /\ run'.phase = "none" =>
          task'.status = task.status \/ TerminalEvent(task'.status, Latest) \in events'

\* A look that takes no page leaves the pages' rows and the workers that hold
\* them alone.
LEMMA LookIdles ==
    ASSUME IInv, NEW w \in Workers, WaitForHost(w) \/ Park(w) \/ Leave(w)
    PROVE  Idles
<1>1. Shape /\ MemoryInv /\ StepsInv /\ run.phase = "working" /\ worker[w].pc = "top"
      /\ Look.item = None
    BY DEF IInv, AtTop, Turn, WaitForHost, Park, Leave
<1>2. PICK look : look = Look
    OBVIOUS
<1>3. /\ look.nextReadyAt \in Nat \cup {None}
      /\ look.frontier.lastStart = frontier.lastStart
      /\ look.frontier.robotsKnown = frontier.robotsKnown
      /\ look.frontier.delay = frontier.delay
  <2>1. /\ look.frontier.robotsKnown = frontier.robotsKnown
        /\ look.frontier.delay = frontier.delay
        /\ look.nextReadyAt \in Nat \cup {None}
      BY <1>1, <1>2, LookIs
  <2>2. look.item = None \/ look.item # None
      OBVIOUS
  <2>3. look.frontier.lastStart = frontier.lastStart \/ look.item # None
      BY <1>1, <1>2, LookIs
  <2>. QED BY <1>1, <1>2, <2>1, <2>3
<1>4. PICK to \in WorkerState : Looked(w, to) /\ to.pc \in {"waiting", "parked", "done"}
  <2>1. CASE WaitForHost(w)
    <3>1. look.nextReadyAt \in Nat
        BY <1>2, <1>3, <2>1 DEF WaitForHost
    <3>2. [NoItem EXCEPT !.pc = "waiting", !.until = look.nextReadyAt] \in WorkerState
          /\ [NoItem EXCEPT !.pc = "waiting", !.until = look.nextReadyAt].pc = "waiting"
        BY <3>1 DEF NoItem, WorkerState
    <3>. QED BY <1>2, <2>1, <3>2 DEF WaitForHost
  <2>2. CASE Park(w)
    <3>1. [NoItem EXCEPT !.pc = "parked"] \in WorkerState
          /\ [NoItem EXCEPT !.pc = "parked"].pc = "parked"
        BY DEF NoItem, WorkerState
    <3>. QED BY <2>2, <3>1 DEF Park
  <2>3. CASE Leave(w)
    <3>1. NoItem \in WorkerState /\ NoItem.pc = "done"
        BY DEF NoItem, WorkerState
    <3>. QED BY <2>3, <3>1 DEF Leave
  <2>. QED BY <2>1, <2>2, <2>3
<1>5. /\ worker' \in [Workers -> WorkerState] /\ worker'[w] = to
      /\ \A v \in Workers \ {w} :
           \/ worker'[v] = worker[v]
           \/ worker[v].pc = "parked" /\ worker'[v].pc = "top"
      /\ frontier' = look.frontier
      /\ run'.phase = run.phase /\ run'.taskUrls = run.taskUrls /\ run'.aborts = run.aborts
      /\ run'.told = run.told
      /\ task' = task /\ steps' = steps /\ Latest' = Latest
      /\ events' = events /\ process' = process
    BY <1>1, <1>2, <1>4, LookLeaves
<1>6. Busy' = Busy
    BY <1>1, <1>4, <1>5 DEF Busy
<1>7. \A v \in Workers :
          \/ worker'[v] = worker[v]
          \/ worker[v].pc # "recorded" /\ worker'[v].pc \notin {"scraping", "answered", "recorded"}
    BY <1>1, <1>4, <1>5
<1>. QED BY <1>1, <1>3, <1>5, <1>6, <1>7, RowsAre DEF Idles


(* Waking leaves every page where it is.                                    *)
LEMMA WokenIdles ==
    ASSUME Shape, worker' = Woken(worker)
    PROVE  /\ Busy' = Busy
           /\ \A w \in Workers :
                \/ worker'[w] = worker[w]
                \/ worker[w].pc # "recorded" /\ worker'[w].pc \notin {"scraping", "answered", "recorded"}
<1>1. worker \in [Workers -> WorkerState]
    BY DEF Shape
<1>2. \A v \in Workers : \/ worker'[v] = worker[v]
                         \/ worker[v].pc = "parked" /\ worker'[v].pc = "top"
    BY <1>1, WokenIs
<1>. QED BY <1>2 DEF Busy

\* So does a worker that wakes, leaves or fails.
LEMMA LeaveIdles ==
    ASSUME IInv, NEW w \in Workers, HostReady(w) \/ Quit(w) \/ NoticeCancel(w) \/ StepFails(w)
    PROVE  Idles
<1>1. /\ Shape /\ worker \in [Workers -> WorkerState] /\ run \in RunState
      /\ task.urls \in Seq(Urls)
    BY RowsAre DEF IInv, Shape
<1>2. /\ task' = task /\ attempts' = attempts /\ steps' = steps /\ process' = process
      /\ frontier' = frontier /\ events' = events
      /\ worker[w].pc \in {"waiting", "top", "scraping", "answered"}
    BY DEF HostReady, Quit, NoticeCancel, StepFails, store
<1>3. PICK woken, top : woken = Woken(worker) /\ top = [NoItem EXCEPT !.pc = "top"]
    OBVIOUS
<1>4. /\ woken \in [Workers -> WorkerState]
      /\ \A v \in Workers : \/ woken[v] = worker[v]
                            \/ worker[v].pc = "parked" /\ woken[v].pc = "top"
      /\ top.pc = "top" /\ NoItem.pc = "done"
    BY <1>1, <1>3, WokenIs DEF NoItem
<1>5. CASE HostReady(w)
  <2>1. worker' = [worker EXCEPT ![w] = top] /\ run' = run /\ worker[w].pc = "waiting"
      BY <1>3, <1>5 DEF HostReady
  <2>2. worker'[w] = top /\ \A v \in Workers \ {w} : worker'[v] = worker[v]
      BY <1>1, <2>1
  <2>3. Busy' = Busy
      BY <1>4, <2>1, <2>2 DEF Busy
  <2>. QED BY <1>1, <1>2, <1>4, <2>1, <2>2, <2>3 DEF Idles, Latest
<1>6. CASE Quit(w)
  <2>1. worker' = [worker EXCEPT ![w] = NoItem] /\ run' = run /\ run.aborts # {}
      BY <1>6 DEF Quit, Stopped
  <2>2. worker'[w] = NoItem /\ \A v \in Workers \ {w} : worker'[v] = worker[v]
      BY <1>1, <2>1
  <2>. QED BY <1>1, <1>2, <1>4, <2>1, <2>2 DEF Idles, Latest
<1>7. CASE NoticeCancel(w) \/ StepFails(w)
  <2>1. worker' = [woken EXCEPT ![w] = NoItem]
      BY <1>3, <1>7 DEF NoticeCancel, StepFails
  <2>2. worker'[w] = NoItem /\ \A v \in Workers \ {w} : worker'[v] = woken[v]
      BY <1>4, <2>1
  <2>3. run'.aborts # {} /\ run'.phase = run.phase /\ run'.taskUrls = run.taskUrls
        /\ run'.told = run.told
    <3>1. PICK reason : run' = [run EXCEPT !.aborts = run.aborts \cup {reason}]
        BY <1>7 DEF NoticeCancel, StepFails
    <3>. QED BY <1>1, <3>1 DEF RunState
  <2>4. \A v \in Workers :
            \/ worker'[v] = worker[v]
            \/ worker[v].pc # "recorded" /\ worker'[v].pc \notin {"scraping", "answered", "recorded"}
    <3>. SUFFICES ASSUME NEW v \in Workers
                  PROVE  \/ worker'[v] = worker[v]
                         \/ worker[v].pc # "recorded" /\ worker'[v].pc \notin {"scraping", "answered", "recorded"}
        OBVIOUS
    <3>1. CASE v = w
        BY <1>2, <1>4, <2>2, <3>1
    <3>2. CASE v # w
        BY <1>4, <2>2, <3>2
    <3>. QED BY <3>1, <3>2
  <2>. QED BY <1>1, <1>2, <2>3, <2>4 DEF Idles, Latest
<1>. QED BY <1>5, <1>6, <1>7

\* So do the poll of the status and the end of the time budget.
LEMMA PollIdles ==
    ASSUME IInv, Poll \/ TimeUp
    PROVE  Idles
<1>1. Shape /\ MemoryInv /\ StepsInv /\ run \in RunState /\ task.urls \in Seq(Urls)
      /\ run.phase = "working"
    BY RowsAre DEF IInv, Shape, Poll, TimeUp, Turn
<1>2. /\ task' = task /\ attempts' = attempts /\ steps' = steps /\ process' = process
      /\ events' = events
    BY DEF Poll, TimeUp, store
<1>3. worker' = Woken(worker)
    BY DEF Poll, TimeUp, Aborting, FedWorkers
<1>4. frontier' = frontier \/ frontier' = Fed
    BY DEF Poll, TimeUp
<1>5. /\ frontier'.lastStart = frontier.lastStart /\ frontier'.delay = frontier.delay
      /\ frontier'.robotsKnown = frontier.robotsKnown
  <2>1. Extends(frontier, Fed, ToSet(task.urls))
      BY <1>1, FedIs
  <2>. QED BY <1>4, <2>1 DEF Extends
<1>6. /\ run'.phase = run.phase /\ run'.taskUrls = run.taskUrls /\ run'.told = run.told
      /\ run'.aborts = {} => run.aborts = {}
    BY <1>1 DEF Poll, TimeUp, Aborting, RunState, Stopped
<1>. QED BY <1>1, <1>2, <1>3, <1>5, <1>6, WokenIdles DEF Idles, Latest

\* So do the requests, the clock, an exit and a stutter.
LEMMA RequestIdles ==
    ASSUME IInv,
           \/ \E here \in BOOLEAN : Cancel(here)
           \/ AskToAppend \/ AskToResume \/ (AnswerRequest /\ InFlight)
           \/ Shutdown \/ Exit \/ Tick \/ UNCHANGED vars
    PROVE  Idles
<1>1. Shape /\ run \in RunState /\ task.urls \in Seq(Urls)
      /\ task \in [status : Unfinished \cup Terminal, urls : Seq(Urls)]
    BY RowsAre DEF IInv, Shape
<1>2. ASSUME (run' = run /\ worker' = worker) \/ \E reason : Aborting(reason)
      PROVE  /\ run'.phase = run.phase /\ run'.taskUrls = run.taskUrls /\ run'.told = run.told
             /\ \A w \in Workers :
                  \/ worker'[w] = worker[w]
                  \/ worker[w].pc # "recorded" /\ worker'[w].pc \notin {"scraping", "answered", "recorded"}
             /\ run.phase = "working" /\ run'.aborts = {} => run.aborts = {} /\ Busy' = Busy
  <2>1. CASE run' = run /\ worker' = worker
      BY <2>1 DEF Busy
  <2>2. ASSUME NEW reason, Aborting(reason)
        PROVE  run'.phase = run.phase /\ run'.taskUrls = run.taskUrls /\ run'.aborts # {}
               /\ run'.told = run.told
               /\ worker' = Woken(worker)
      BY <1>1, <2>2 DEF Aborting, RunState
  <2>. QED BY <1>1, <1>2, <2>1, <2>2, WokenIdles
<1>3. ASSUME NEW here \in BOOLEAN, Cancel(here) PROVE Idles
  <2>1. /\ task' = [task EXCEPT !.status = "cancelled"] /\ attempts' = Closed(attempts, "cancelled")
        /\ steps' = steps /\ process' = process /\ frontier' = frontier
        /\ \/ Aborting("cancel") /\ events' = events /\ run.phase # "none"
           \/ run' = run /\ worker' = worker /\ events' = FinishJob("cancelled")
      BY <1>3 DEF Cancel, InFlight
  <2>2. Latest' = Latest /\ task'.urls = task.urls /\ task'.status = "cancelled"
    <3>1. "cancelled" \in Terminal
        BY DEF Terminal
    <3>. QED BY <1>1, <2>1, <3>1, Marked DEF Latest
  <2>3. events \subseteq events'
      BY <2>1 DEF FinishJob
  <2>4. run'.phase = "none" => TerminalEvent(task'.status, Latest) \in events'
    <3>1. CASE run' = run /\ events' = FinishJob("cancelled")
        BY <2>2, <3>1 DEF FinishJob
    <3>2. CASE Aborting("cancel") /\ run.phase # "none"
        BY <1>2, <3>2
    <3>. QED BY <2>1, <3>1, <3>2
  <2>. QED BY <1>1, <1>2, <2>1, <2>2, <2>3, <2>4 DEF Idles
<1>4. ASSUME AskToAppend \/ AskToResume \/ (AnswerRequest /\ InFlight) PROVE Idles
  <2>1. /\ attempts' = attempts /\ steps' = steps /\ worker' = worker
        /\ frontier' = frontier /\ process' = process /\ events' = events
      BY <1>4 DEF AskToAppend, AskToResume, AnswerRequest, store
  <2>2. PICK next : run' = [run EXCEPT !.next = next]
      BY <1>4 DEF AskToAppend, AskToResume, AnswerRequest
  <2>3. /\ run'.phase = run.phase /\ run'.taskUrls = run.taskUrls /\ run'.told = run.told
        /\ run'.aborts = run.aborts
      BY <1>1, <2>2 DEF RunState
  <2>4. task'.urls \in Seq(Urls) /\ (run'.phase = "none" => task' = task)
    <3>1. CASE AskToAppend \/ AskToResume
        BY <1>1, <3>1 DEF AskToAppend, AskToResume, store
    <3>2. CASE AnswerRequest /\ InFlight
      <4>1. run.phase # "none"
          BY <3>2 DEF InFlight
      <4>. QED BY <1>1, <2>3, <3>2, <4>1, AnswerIs DEF IInv
    <3>. QED BY <1>4, <3>1, <3>2
  <2>. QED BY <2>1, <2>3, <2>4 DEF Idles, Latest, Busy
<1>5. ASSUME Shutdown \/ Exit \/ Tick \/ UNCHANGED vars PROVE Idles
  <2>1. /\ task' = task /\ attempts' = attempts /\ steps' = steps /\ frontier' = frontier
        /\ events' = events
        /\ Aborting("shutdown") \/ (run' = run /\ worker' = worker)
      BY <1>5 DEF Shutdown, Exit, Tick, vars, store, memory
  <2>2. process' # "down" => process # "down"
      BY <1>5 DEF Shutdown, Exit, Tick, vars
  <2>. QED BY <1>1, <1>2, <2>1, <2>2 DEF Idles, Latest
<1>. QED BY <1>3, <1>4, <1>5

(* A stage of a launch before its attempt, or of the end of a run, the loss   *)
(* of the process, and its restart.                                          *)
StageStep ==
    \/ Open \/ RefuseToOpen \/ OpenTask
    \/ Decide \/ Finish \/ Relaunch \/ EndJob
    \/ AnswerRequest /\ ~InFlight
    \/ Crash \/ Restart

\* Every step is idle in this sense, a stage, the opening of an attempt, or one
\* of those that move a page.
LEMMA StepKinds ==
    ASSUME IInv, [Next]_vars
    PROVE  \/ Idles
           \/ StageStep
           \/ OpenAttempt
           \/ \E w \in Workers :
                 TakePage(w) \/ Record(w) \/ Settle(w) \/ \E o \in Outcomes : Answer(w, o)
<1>1. ASSUME NEW w \in Workers, WaitForHost(w) \/ Park(w) \/ Leave(w) PROVE Idles
    BY <1>1, LookIdles
<1>2. ASSUME NEW w \in Workers, HostReady(w) \/ Quit(w) \/ NoticeCancel(w) \/ StepFails(w)
       PROVE  Idles
    BY <1>2, LeaveIdles
<1>3. CASE Poll \/ TimeUp
    BY <1>3, PollIdles
<1>4. CASE \/ \E here \in BOOLEAN : Cancel(here)
           \/ AskToAppend \/ AskToResume \/ (AnswerRequest /\ InFlight)
           \/ Shutdown \/ Exit \/ Tick \/ UNCHANGED vars
    BY <1>4, RequestIdles
<1>5. ASSUME NEW w \in Workers, WorkerStep(w)
      PROVE  \/ Idles
             \/ TakePage(w) \/ Record(w) \/ Settle(w) \/ \E o \in Outcomes : Answer(w, o)
    BY <1>1, <1>2, <1>5 DEF WorkerStep
<1>6. CASE JobStep
    BY <1>3, <1>4, <1>6 DEF JobStep, StageStep
<1>7. Crash \/ Restart => StageStep
    BY DEF StageStep
<1>8. CASE \E w \in Workers : WorkerStep(w) \/ StepFails(w)
    BY <1>2, <1>5, <1>8
<1>. QED BY <1>3, <1>4, <1>6, <1>7, <1>8 DEF Next

(* What a stage leaves: the rows of the pages, and no worker at work.        *)
LEMMA StageLeaves ==
    ASSUME IInv, StageStep
    PROVE  /\ steps' = steps /\ Latest' = Latest /\ UrlsStay /\ events \subseteq events'
           /\ Kind = "crawl" => task'.urls = task.urls
           /\ run'.phase # "working" /\ \A w \in Workers : worker'[w].pc = "done"
           /\ Crash \/ Recorded = {}
<1>1. Shape /\ MemoryInv /\ run \in RunState /\ attempts \in Seq(AttemptRow)
      /\ task \in [status : Unfinished \cup Terminal, urls : Seq(Urls)]
    BY DEF IInv, Shape
<1>2. IInv'
    BY StagesKeep DEF StageStep
<1>3. ASSUME AnswerRequest, ~InFlight
      PROVE  UrlsStay /\ (Kind = "crawl" => task'.urls = task.urls) /\ run' = Submitted
             /\ attempts' = attempts /\ steps' = steps /\ events' = events /\ worker' = worker
             /\ run.phase = "none"
    BY <1>1, <1>3, AnswerIs DEF InFlight
<1>4. steps' = steps /\ events \subseteq events'
    BY <1>3 DEF StageStep, Open, RefuseToOpen, OpenTask, Decide, Finish, Relaunch, EndJob, Crash,
                Restart, store, FinishJob, ReconciledPages
<1>5. UrlsStay /\ (Kind = "crawl" => task'.urls = task.urls)
  <2>1. CASE AnswerRequest /\ ~InFlight
      BY <1>3, <2>1
  <2>2. CASE ~(AnswerRequest /\ ~InFlight)
    <3>1. task' = task \/ \E status : task' = [task EXCEPT !.status = status]
        BY <2>2 DEF StageStep, Open, RefuseToOpen, OpenTask, Decide, Finish, Relaunch, EndJob,
                    Crash, Restart, store
    <3>2. task'.urls = task.urls
        BY <1>1, <3>1
    <3>. QED BY <1>1, <3>2, RowsAre DEF UrlsStay
  <2>. QED BY <2>1, <2>2
<1>6. Latest' = Latest
  <2>1. CASE Decide
    <3>1. PICK rows, i, row : /\ rows = attempts /\ i = Latest
                              /\ row = [status |-> IF Outcome = "paused" THEN "interrupted" ELSE Outcome,
                                        budget |-> run.budget]
        OBVIOUS
    <3>2. attempts' = [rows EXCEPT ![i] = row] /\ rows \in Seq(AttemptRow)
        BY <1>1, <2>1, <3>1, Zenon DEF Decide
    <3>3. Len([rows EXCEPT ![i] = row]) = Len(rows)
        BY <3>2
    <3>. QED BY <3>1, <3>2, <3>3 DEF Latest
  <2>2. CASE RefuseToOpen \/ OpenTask
    <3>1. "failed" \in Terminal
        BY DEF Terminal
    <3>2. attempts' = Closed(attempts, "failed") \/ attempts' = Interrupted(attempts)
        BY <2>2 DEF RefuseToOpen, OpenTask
    <3>. QED BY <1>1, <3>1, <3>2, Marked DEF Latest
  <2>3. CASE ~(Decide \/ RefuseToOpen \/ OpenTask)
    <3>1. attempts' = attempts
        BY <1>3, <2>3 DEF StageStep, Open, Finish, Relaunch, EndJob, Crash, Restart, store
    <3>. QED BY <3>1 DEF Latest
  <2>. QED BY <2>1, <2>2, <2>3
<1>7. run'.phase # "working"
  <2>1. CASE RefuseToOpen \/ EndJob \/ Crash \/ Relaunch \/ (AnswerRequest /\ ~InFlight)
    <3>1. run' = NoRun \/ run' = Submitted
        BY <1>3, <2>1 DEF RefuseToOpen, EndJob, Crash, Relaunch
    <3>. QED BY <3>1 DEF NoRun, Submitted
  <2>2. CASE Open \/ OpenTask \/ Decide \/ Finish
    <3>1. PICK phase \in {"opening", "opened", "ending", "ended"} : \E next :
             run' = [run EXCEPT !.phase = phase, !.next = next]
      <4>1. CASE Open
        <5>1. run' = [run EXCEPT !.phase = "opening", !.next = "running"]
            BY <1>1, <4>1 DEF Open, Shape, RunState
        <5>. QED BY <5>1
      <4>2. CASE OpenTask
        <5>1. run' = [run EXCEPT !.phase = "opened", !.next = None]
            BY <1>1, <4>2 DEF OpenTask, Shape, RunState
        <5>. QED BY <5>1
      <4>3. CASE Decide
        <5>1. run' = [run EXCEPT !.phase = "ending", !.next = Outcome]
            BY <1>1, <4>3 DEF Decide, Shape, RunState
        <5>. QED BY <5>1
      <4>4. CASE Finish
        <5>1. run' = [run EXCEPT !.phase = "ended", !.next = None]
            BY <1>1, <4>4 DEF Finish, Shape, RunState
        <5>. QED BY <5>1
      <4>. QED BY <2>2, <4>1, <4>2, <4>3, <4>4
    <3>. QED BY <1>1, <3>1 DEF RunState
  <2>3. CASE Restart
    <3>1. run' = Submitted \/ (run' = run /\ run.phase = "none")
        BY <1>1, <2>3 DEF Restart, store, MemoryInv
    <3>. QED BY <3>1 DEF Submitted, NoRun
  <2>. QED BY <2>1, <2>2, <2>3 DEF StageStep
<1>8. \A w \in Workers : worker'[w].pc = "done"
    BY <1>2, <1>7 DEF IInv, MemoryInv
<1>9. Crash \/ worker' = worker
    BY <1>3 DEF StageStep, Open, RefuseToOpen, OpenTask, Decide, Finish, Relaunch, EndJob, Restart
<1>10. Crash \/ Recorded = {}
    BY <1>8, <1>9 DEF Recorded
<1>. QED BY <1>4, <1>5, <1>6, <1>7, <1>8, <1>10

(* What taking a page leaves.                                               *)
LEMMA TakeLeaves ==
    ASSUME IInv, NEW w \in Workers, TakePage(w)
    PROVE  /\ run.phase = "working" /\ run'.phase = "working" /\ run.aborts = {}
           /\ worker[w].pc = "top" /\ worker'[w].pc = "scraping"
           /\ worker'[w].item = Look.item /\ Look.item # None
           /\ \A v \in Workers \ {w} :
                \/ worker'[v] = worker[v]
                \/ worker[v].pc = "parked" /\ worker'[v].pc = "top"
           /\ Busy' = Busy \cup {w} /\ w \notin Busy
           /\ \A v \in Busy : v # w /\ worker'[v] = worker[v]
           /\ frontier' = Look.frontier
           /\ run'.taskUrls = run.taskUrls /\ run'.aborts = run.aborts /\ run'.told = run.told
           /\ run'.budget = IF Look.refused THEN "pages" ELSE run.budget
           /\ task' = task /\ attempts' = attempts /\ steps' = steps /\ Latest' = Latest
           /\ events' = events /\ process' = process /\ now' = now
<1>1. Shape /\ MemoryInv /\ StepsInv /\ AtTop(w) /\ run.phase = "working" /\ run.aborts = {}
      /\ worker[w].pc = "top" /\ Look.item # None
    BY DEF IInv, TakePage, AtTop, Turn, Stopped
<1>2. PICK look, to : look = Look /\ to = [NoItem EXCEPT !.pc = "scraping", !.item = look.item]
    OBVIOUS
<1>3. look.item \in Item
  <2>1. Look.item = None \/ Look.item \in Item
      BY <1>1, LookIs
  <2>. QED BY <1>1, <1>2, <2>1
<1>4. to \in WorkerState /\ to.pc = "scraping" /\ to.item = look.item
    BY <1>2, <1>3 DEF NoItem, WorkerState
<1>5. Looked(w, to)
    BY <1>2 DEF TakePage
<1>6. /\ worker' \in [Workers -> WorkerState] /\ worker'[w] = to
      /\ \A v \in Workers \ {w} :
           \/ worker'[v] = worker[v]
           \/ worker[v].pc = "parked" /\ worker'[v].pc = "top"
      /\ frontier' = Look.frontier
      /\ run'.budget = IF Look.refused THEN "pages" ELSE run.budget
      /\ run'.phase = run.phase /\ run'.taskUrls = run.taskUrls /\ run'.aborts = run.aborts
      /\ run'.told = run.told
      /\ task' = task /\ attempts' = attempts /\ steps' = steps /\ Latest' = Latest
      /\ events' = events /\ process' = process /\ now' = now
    BY <1>1, <1>4, <1>5, LookLeaves
<1>7. /\ Busy' = Busy \cup {w} /\ w \notin Busy
      /\ \A v \in Busy : v # w /\ worker'[v] = worker[v]
    BY <1>1, <1>4, <1>6 DEF Busy
<1>. QED BY <1>1, <1>2, <1>4, <1>6, <1>7

(* What letting a page go leaves.                                           *)
LEMMA SettleLeaves ==
    ASSUME IInv, NEW w \in Workers, Settle(w)
    PROVE  /\ run.phase = "working" /\ run'.phase = "working"
           /\ worker[w].pc = "recorded" /\ worker'[w].pc = "top"
           /\ \A v \in Workers \ {w} :
                \/ worker'[v] = worker[v]
                \/ worker[v].pc = "parked" /\ worker'[v].pc = "top"
           /\ Busy' = Busy \ {w} /\ w \in Busy
           /\ run'.taskUrls = run.taskUrls \cup {worker[w].item.url}
           /\ run'.aborts = run.aborts /\ run'.budget = run.budget /\ run'.told = run.told
           /\ events' = events \cup {PageEvent(Written(w))}
           /\ task' = task /\ steps' = steps /\ Latest' = Latest
           /\ frontier' = frontier /\ process' = process /\ now' = now
<1>1. Shape /\ MemoryInv /\ worker \in [Workers -> WorkerState] /\ run \in RunState
      /\ worker[w].pc = "recorded" /\ w \in Busy /\ run.phase = "working"
    BY DEF IInv, Shape, Settle, Turn, Busy
<1>2. PICK woken, top : woken = Woken(worker) /\ top = [NoItem EXCEPT !.pc = "top"]
    OBVIOUS
<1>3. /\ woken \in [Workers -> WorkerState]
      /\ \A v \in Workers : \/ woken[v] = worker[v]
                            \/ worker[v].pc = "parked" /\ woken[v].pc = "top"
      /\ top.pc = "top"
    BY <1>1, <1>2, WokenIs DEF NoItem
<1>4. worker' = [woken EXCEPT ![w] = top]
    BY <1>2, Zenon DEF Settle, Released
<1>5. worker'[w] = top /\ \A v \in Workers \ {w} : worker'[v] = woken[v]
    BY <1>3, <1>4
<1>6. /\ run'.phase = "working" /\ run'.taskUrls = run.taskUrls \cup {worker[w].item.url}
      /\ run'.aborts = run.aborts /\ run'.budget = run.budget /\ run'.told = run.told
    BY <1>1 DEF Settle, RunState
<1>7. /\ events' = events \cup {PageEvent(Written(w))}
      /\ task' = task /\ steps' = steps
      /\ frontier' = frontier /\ process' = process /\ now' = now
    BY DEF Settle
<1>7a. Latest' = Latest
  <2>1. PICK row : row = [status |-> "running", budget |-> run.budget]
      OBVIOUS
  <2>2. row \in AttemptRow
      BY <1>1, <2>1 DEF AttemptRow, RunState
  <2>3. attempts' = [attempts EXCEPT ![Latest] = row] /\ attempts # << >>
      BY <1>1, <2>1 DEF Settle, MemoryInv
  <2>. QED BY <1>1, <2>2, <2>3, AttemptWritten
<1>8. Busy' = Busy \ {w}
    BY <1>1, <1>3, <1>5 DEF Busy
<1>. QED BY <1>1, <1>3, <1>5, <1>6, <1>7, <1>7a, <1>8

-----------------------------------------------------------------------------
(* A cancelled job.                                                        *)

(* The row: it is written by a launch, the end of a run and a request, each   *)
(* with what was decided before, and none decides once it says cancelled.     *)
LEMMA RowStays ==
    ASSUME IInv, [Next]_vars, task.status = "cancelled", ~UnawareOfRow
    PROVE  task'.status = "cancelled" /\ ~UnawareOfRow'
<1>1. run.next \in {None, "cancelled"} /\ Shape /\ MemoryInv /\ NextInv
    BY DEF UnawareOfRow, IInv, MemoryInv
<1>2. None \notin Unfinished \cup Terminal
    BY CrawlAssumption DEF Unfinished, Terminal
<1>3. CASE OpenTask \/ OpenAttempt
  <2>1. ~OpenTask
      BY <1>1, CrawlAssumption DEF NextInv, OpenTask
  <2>2. task' = task /\ run'.next = None
      BY <1>1, <1>3, <2>1, OpenLeaves
  <2>. QED BY <2>2 DEF UnawareOfRow
<1>4. CASE Finish
  <2>1. run.next = "cancelled"
      BY <1>1, <1>2, <1>4 DEF Finish, NextInv, Terminal, Unfinished
  <2>2. task' = [task EXCEPT !.status = "cancelled"] /\ run' = [run EXCEPT !.phase = "ended", !.next = None]
      BY <1>4, <2>1 DEF Finish
  <2>3. task'.status = "cancelled" /\ run'.next = None
      BY <1>1, <2>2 DEF Shape, RunState
  <2>. QED BY <2>3 DEF UnawareOfRow
<1>5. CASE Decide
  <2>1. Outcome = "cancelled"
      BY DEF Outcome
  <2>2. task' = task /\ run' = [run EXCEPT !.phase = "ending", !.next = "cancelled"]
      BY <1>5, <2>1 DEF Decide
  <2>3. run'.next = "cancelled"
      BY <1>1, <2>2 DEF Shape, RunState
  <2>. QED BY <2>2, <2>3 DEF UnawareOfRow
<1>6. CASE AnswerRequest
  <2>1. run.next = "cancelled"
      BY <1>1, <1>6 DEF AnswerRequest
  <2>2. run.phase \in {"none", "working"}
      BY <1>6 DEF AnswerRequest
  <2>. QED BY <1>1, <2>1, <2>2, CrawlAssumption DEF NextInv, Unfinished
<1>7. CASE RefuseToOpen \/ EndJob \/ Crash
  <2>1. task' = task /\ run' = NoRun
      BY <1>7 DEF RefuseToOpen, EndJob, Crash, store
  <2>. QED BY <2>1 DEF UnawareOfRow, NoRun
<1>8. ~Open /\ ~Relaunch /\ ~(\E here \in BOOLEAN : Cancel(here)) /\ ~AskToAppend /\ ~AskToResume
    BY DEF Open, Relaunch, AppendedWithoutStep, Cancel, AskToAppend, AskToResume, Unfinished
<1>9. CASE Restart
  <2>1. task' = task /\ run' = run
      BY <1>9 DEF Restart, store, Unfinished
  <2>. QED BY <1>1, <2>1 DEF UnawareOfRow
<1>10. ASSUME NEW w \in Workers, WorkerStep(w) \/ StepFails(w)
       PROVE  task' = task /\ run'.next = run.next
  <2>1. CASE \E o \in Outcomes : Answer(w, o)
      BY <1>1, <2>1, AnswerLeaves
  <2>2. CASE Record(w)
      BY <1>1, <2>2, RecordLeaves
  <2>3. CASE ~Record(w) /\ ~\E o \in Outcomes : Answer(w, o)
    <3>1. task' = task
        BY <1>10, <2>3 DEF WorkerStep, TakePage, WaitForHost, Park, Leave, Looked, HostReady,
                           Quit, NoticeCancel, Settle, StepFails, store
    <3>2. run'.next = run.next
        BY <1>1, <1>10, <2>3 DEF WorkerStep, TakePage, WaitForHost, Park, Leave, Looked, HostReady,
                           Quit, NoticeCancel, Settle, StepFails, Shape, RunState
    <3>. QED BY <3>1, <3>2
  <2>. QED BY <2>1, <2>2, <2>3
<1>11. CASE Poll \/ TimeUp \/ Shutdown \/ Exit \/ Tick \/ UNCHANGED vars
  <2>1. task' = task
      BY <1>11 DEF Poll, TimeUp, Shutdown, Exit, Tick, vars, store
  <2>2. run'.next = run.next
      BY <1>1, <1>11 DEF Poll, TimeUp, Shutdown, Exit, Tick, Aborting, vars, memory, Shape, RunState
  <2>. QED BY <1>1, <2>1, <2>2 DEF UnawareOfRow
<1>. QED BY <1>1, <1>3, <1>4, <1>5, <1>6, <1>7, <1>8, <1>9, <1>10, <1>11 DEF Next, JobStep, UnawareOfRow

(* The pages: one is recorded for a worker that has its answer, and none is   *)
(* answered once the row says cancelled.                                      *)
LEMMA PagesStay ==
    ASSUME IInv, [Next]_vars, task.status = "cancelled", ~UnawareOfPage
    PROVE  steps' = steps /\ ~UnawareOfPage'
<1>1. Shape /\ MemoryInv /\ \A w \in Workers : worker[w].pc # "answered"
    BY DEF UnawareOfPage, IInv
<1>2. \A w \in Workers : ~Record(w) /\ ~\E o \in Outcomes : Answer(w, o)
    BY <1>1 DEF Record, Answer
<1>3. CASE Idles
    BY <1>1, <1>3 DEF Idles, UnawareOfPage
<1>4. CASE StageStep
    BY <1>4, StageLeaves DEF UnawareOfPage
<1>5. CASE OpenAttempt
    BY <1>1, <1>5, OpenLeaves DEF UnawareOfPage
<1>6. ASSUME NEW w \in Workers, TakePage(w) PROVE steps' = steps /\ ~UnawareOfPage'
    BY <1>1, <1>6, TakeLeaves DEF UnawareOfPage
<1>7. ASSUME NEW w \in Workers, Settle(w) PROVE steps' = steps /\ ~UnawareOfPage'
    BY <1>1, <1>7, SettleLeaves DEF UnawareOfPage
<1>. QED BY <1>2, <1>3, <1>4, <1>5, <1>6, <1>7, StepKinds

(* The attempts: one is opened by a launch that read the row before.          *)
LEMMA AttemptsStay ==
    ASSUME IInv, [Next]_vars, task.status = "cancelled", ~UnawareOfAttempt
    PROVE  Latest' = Latest /\ ~UnawareOfAttempt'
<1>1. Shape /\ MemoryInv /\ run \in RunState /\ run.phase \notin {"opening", "opened"}
    BY DEF UnawareOfAttempt, IInv, Shape
<1>2. ~OpenAttempt /\ ~Open /\ ~OpenTask
    BY <1>1 DEF OpenAttempt, Open, OpenTask
<1>3. CASE Idles
    BY <1>1, <1>3 DEF Idles, UnawareOfAttempt
<1>4. CASE StageStep
  <2>1. CASE RefuseToOpen \/ EndJob \/ Crash \/ Relaunch \/ (AnswerRequest /\ ~InFlight)
    <3>1. run' = NoRun \/ run' = Submitted
        BY <1>1, <2>1, AnswerIs DEF RefuseToOpen, EndJob, Crash, Relaunch, InFlight
    <3>2. run'.phase \notin {"opening", "opened"}
        BY <3>1 DEF NoRun, Submitted
    <3>. QED BY <1>4, <3>2, StageLeaves DEF UnawareOfAttempt
  <2>2. CASE Decide \/ Finish
    <3>1. PICK phase \in {"ending", "ended"} : \E next :
             run' = [run EXCEPT !.phase = phase, !.next = next]
      <4>1. CASE Decide
        <5>1. run' = [run EXCEPT !.phase = "ending", !.next = Outcome]
            BY <1>1, <4>1 DEF Decide, Shape, RunState
        <5>. QED BY <5>1
      <4>2. CASE Finish
        <5>1. run' = [run EXCEPT !.phase = "ended", !.next = None]
            BY <1>1, <4>2 DEF Finish, Shape, RunState
        <5>. QED BY <5>1
      <4>. QED BY <2>2, <4>1, <4>2
    <3>2. run'.phase \notin {"opening", "opened"}
        BY <1>1, <3>1 DEF RunState
    <3>. QED BY <1>4, <3>2, StageLeaves DEF UnawareOfAttempt
  <2>3. CASE Restart
    <3>1. run' = Submitted \/ run' = run
        BY <2>3 DEF Restart
    <3>2. run'.phase \notin {"opening", "opened"}
        BY <1>1, <3>1 DEF NoRun, Submitted
    <3>. QED BY <1>4, <3>2, StageLeaves DEF UnawareOfAttempt
  <2>. QED BY <1>2, <1>4, <2>1, <2>2, <2>3 DEF StageStep
<1>5. ASSUME NEW w \in Workers,
             \/ TakePage(w) \/ Record(w) \/ Settle(w) \/ \E o \in Outcomes : Answer(w, o)
      PROVE  Latest' = Latest /\ run'.phase = "working"
  <2>1. CASE TakePage(w) \/ Settle(w)
      BY <2>1, TakeLeaves, SettleLeaves
  <2>2. CASE Record(w)
      BY <1>1, <2>2, RecordLeaves
  <2>3. CASE \E o \in Outcomes : Answer(w, o)
      BY <1>1, <2>3, AnswerLeaves
  <2>. QED BY <1>5, <2>1, <2>2, <2>3
<1>. QED BY <1>2, <1>3, <1>4, <1>5, StepKinds DEF UnawareOfAttempt

(* A cancelled job stays cancelled, records no page and starts no attempt    *)
(* but by what was decided before the cancellation came; and nothing is       *)
(* decided any more: for any number of workers, processes that cancel,        *)
(* requests and crashes.                                                      *)
THEOREM CancelSafety == Spec => CancelIsFinal
<1>1. IInv /\ [Next]_vars =>
        [task.status = "cancelled" =>
           /\ ~UnawareOfRow => task'.status = "cancelled" /\ ~UnawareOfRow'
           /\ ~UnawareOfPage => steps' = steps /\ ~UnawareOfPage'
           /\ ~UnawareOfAttempt => Len(attempts') = Len(attempts) /\ ~UnawareOfAttempt']_vars
    BY RowStays, PagesStay, AttemptsStay DEF Latest
<1>. QED BY <1>1, Invariance, PTL DEF Spec, CancelIsFinal

-----------------------------------------------------------------------------
(* The webhook is told.                                                    *)

\* No step loses the event of a page recorded before the process died
\* (engine.ts, the webhook of a page).
LEMMA EventsKeep ==
    ASSUME IInv, EventsInv, [Next]_vars
    PROVE  EventsInv'
<1>. DEFINE Told(i) == \/ PageEvent(i) \in events
                       \/ \E w \in Recorded :
                             steps[i].url = worker[w].item.url /\ steps[i].attempt = Latest
<1>1. Shape /\ MemoryInv /\ StepsInv
    BY DEF IInv
<1>2. process # "down" /\ run.phase # "submitted" => \A i \in DOMAIN steps : Told(i)
    BY DEF EventsInv
<1>3. CASE Idles
  <2>1. \A w \in Recorded : w \in Recorded' /\ worker'[w] = worker[w]
      BY <1>3 DEF Idles, Recorded
  <2>2. (process # "down" /\ run.phase # "submitted" => \A i \in DOMAIN steps : Told(i))'
      BY <1>2, <1>3, <2>1 DEF Idles
  <2>3. (process # "down" /\ run.phase = "none" /\ task.status \in Terminal
            => TerminalEvent(task.status, Latest) \in events)'
      BY <1>3 DEF EventsInv, Idles
  <2>. QED BY <2>2, <2>3 DEF EventsInv
<1>4. CASE StageStep
  <2>1. steps' = steps /\ Latest' = Latest /\ events \subseteq events' /\ (Crash \/ Recorded = {})
      BY <1>4, StageLeaves
  <2>2. CASE Crash
      BY <2>2 DEF Crash, EventsInv
  <2>3. CASE Open \/ OpenTask \/ Decide \/ Finish
    <3>1. PICK phase \in {"opening", "opened", "ending", "ended"} : \E next :
             run' = [run EXCEPT !.phase = phase, !.next = next]
      <4>1. CASE Open
        <5>1. run' = [run EXCEPT !.phase = "opening", !.next = "running"]
            BY <1>1, <4>1 DEF Open, Shape, RunState
        <5>. QED BY <5>1
      <4>2. CASE OpenTask
        <5>1. run' = [run EXCEPT !.phase = "opened", !.next = None]
            BY <1>1, <4>2 DEF OpenTask, Shape, RunState
        <5>. QED BY <5>1
      <4>3. CASE Decide
        <5>1. run' = [run EXCEPT !.phase = "ending", !.next = Outcome]
            BY <1>1, <4>3 DEF Decide, Shape, RunState
        <5>. QED BY <5>1
      <4>4. CASE Finish
        <5>1. run' = [run EXCEPT !.phase = "ended", !.next = None]
            BY <1>1, <4>4 DEF Finish, Shape, RunState
        <5>. QED BY <5>1
      <4>. QED BY <2>3, <4>1, <4>2, <4>3, <4>4
    <3>2. run'.phase = phase
        BY <1>1, <3>1 DEF Shape, RunState
    <3>3. process' # "down" => \A i \in DOMAIN steps : PageEvent(i) \in events'
      <4>1. CASE Open
          BY <4>1 DEF Open, ReconciledPages
      <4>2. CASE ~Open
        <5>1. process' = process /\ run.phase # "submitted" /\ ~Crash
            BY <1>1, <2>3, <4>2 DEF OpenTask, Decide, Finish, Turn, Crash, MemoryInv
        <5>. QED BY <1>2, <2>1, <5>1
      <4>. QED BY <4>1, <4>2
    <3>. QED BY <2>1, <3>2, <3>3 DEF EventsInv
  <2>4. CASE RefuseToOpen \/ (Restart /\ task.status \notin Unfinished)
    <3>1. /\ events' = FinishJob(task.status) \cup ReconciledPages
          /\ task' = task
        BY <2>4 DEF RefuseToOpen, Restart, store
    <3>. QED BY <2>1, <3>1 DEF EventsInv, ReconciledPages, FinishJob
  <2>5. CASE Relaunch \/ (AnswerRequest /\ ~InFlight) \/ (Restart /\ task.status \in Unfinished)
    <3>1. run'.phase = "submitted"
        BY <1>1, <2>5, AnswerIs DEF Relaunch, Restart, Submitted, NoRun, InFlight
    <3>. QED BY <3>1 DEF EventsInv
  <2>6. CASE EndJob
    <3>1. /\ task' = task /\ process' = process /\ run.phase = "ended"
          /\ task.status \in Terminal => TerminalEvent(task.status, Latest) \in events'
        BY <2>6 DEF EndJob, FinishJob, store
    <3>2. ~Crash \/ process' = "down"
        BY DEF Crash
    <3>. QED BY <1>2, <2>1, <3>1, <3>2 DEF EventsInv
  <2>. QED BY <1>4, <2>2, <2>3, <2>4, <2>5, <2>6 DEF StageStep
<1>6. ASSUME NEW w \in Workers, TakePage(w) PROVE EventsInv'
  <2>1. /\ run.phase = "working" /\ run'.phase = "working" /\ steps' = steps /\ Latest' = Latest /\ events' = events
        /\ process' = process
        /\ \A v \in Recorded : v \in Recorded' /\ worker'[v] = worker[v]
      BY <1>6, TakeLeaves DEF Recorded
  <2>2. (process # "down" => \A i \in DOMAIN steps : Told(i))'
      BY <1>2, <2>1
  <2>. QED BY <2>1, <2>2 DEF EventsInv
<1>7a. ASSUME NEW w \in Workers, NEW outcome \in Outcomes, Answer(w, outcome) PROVE EventsInv'
  <2>1. /\ run.phase = "working" /\ run'.phase = "working" /\ steps' = steps /\ Latest' = Latest
        /\ events' = events /\ process' = process /\ worker[w].pc = "scraping"
        /\ \A v \in Workers \ {w} : worker'[v] = worker[v]
      BY <1>1, <1>7a, AnswerLeaves
  <2>2. \A v \in Recorded : v \in Recorded' /\ worker'[v] = worker[v]
      BY <2>1 DEF Recorded
  <2>3. (process # "down" => \A i \in DOMAIN steps : Told(i))'
      BY <1>2, <2>1, <2>2
  <2>. QED BY <2>1, <2>3 DEF EventsInv
<1>7. ASSUME NEW w \in Workers, Record(w) PROVE EventsInv'
  <2>1. /\ run.phase = "working" /\ run'.phase = "working" /\ Latest' = Latest /\ events' = events
        /\ process' = process
        /\ worker'[w].pc = "recorded" /\ worker'[w].item = worker[w].item
        /\ \A v \in Workers \ {w} : worker'[v] = worker[v]
        /\ worker[w].pc = "answered"
        /\ DOMAIN steps' = 1 .. Len(steps) + 1
        /\ \A i \in DOMAIN steps : i \in DOMAIN steps' /\ steps'[i] = steps[i]
        /\ steps'[Len(steps) + 1].url = worker[w].item.url
        /\ steps'[Len(steps) + 1].attempt = Latest
      BY <1>1, <1>7, RecordLeaves
  <2>2. w \in Recorded' /\ \A v \in Recorded : v \in Recorded' /\ worker'[v] = worker[v]
      BY <2>1 DEF Recorded
  <2>3. DOMAIN steps = 1 .. Len(steps) /\ Len(steps) \in Nat
      BY <1>1, RowsAre
  <2>4. \A i \in DOMAIN steps' : i \in DOMAIN steps \/ i = Len(steps) + 1
      BY <2>1, <2>3
  <2>5. (process # "down" => \A i \in DOMAIN steps : Told(i))'
    <3>. SUFFICES ASSUME process' # "down", NEW i \in DOMAIN steps' PROVE Told(i)'
        OBVIOUS
    <3>1. CASE i = Len(steps) + 1
        BY <2>1, <2>2, <3>1
    <3>2. CASE i \in DOMAIN steps
        BY <1>2, <2>1, <2>2, <3>2
    <3>. QED BY <2>4, <3>1, <3>2
  <2>. QED BY <2>1, <2>5 DEF EventsInv
<1>8. ASSUME NEW w \in Workers, Settle(w) PROVE EventsInv'
  <2>1. /\ run.phase = "working" /\ run'.phase = "working" /\ steps' = steps /\ Latest' = Latest
        /\ events' = events \cup {PageEvent(Written(w))} /\ process' = process
        /\ worker[w].pc = "recorded"
        /\ \A v \in Workers \ {w} :
             \/ worker'[v] = worker[v]
             \/ worker[v].pc = "parked" /\ worker'[v].pc = "top"
      BY <1>8, SettleLeaves
  <2>2. \A v \in Recorded \ {w} : v \in Recorded' /\ worker'[v] = worker[v]
      BY <2>1 DEF Recorded
  <2>3. ASSUME NEW i \in DOMAIN steps, steps[i].url = worker[w].item.url, steps[i].attempt = Latest
        PROVE  i = Written(w)
    <3>1. PICK j : j = Written(w)
        OBVIOUS
    <3>2. j \in DOMAIN steps /\ steps[j].url = worker[w].item.url /\ steps[j].attempt = Latest
        BY <2>3, <3>1 DEF Written
    <3>. QED BY <1>1, <2>3, <3>1, <3>2 DEF StepsInv, NoPageTwice
  <2>4. (process # "down" => \A i \in DOMAIN steps : Told(i))'
    <3>. SUFFICES ASSUME process' # "down", NEW i \in DOMAIN steps PROVE Told(i)'
        BY <2>1
    <3>1. CASE PageEvent(i) \in events
        BY <2>1, <3>1
    <3>2. CASE PageEvent(i) \notin events
      <4>1. PICK v \in Recorded : steps[i].url = worker[v].item.url /\ steps[i].attempt = Latest
          BY <1>2, <2>1, <3>2
      <4>2. CASE v = w
          BY <2>1, <2>3, <4>1, <4>2
      <4>3. CASE v # w
          BY <2>1, <2>2, <4>1, <4>3
      <4>. QED BY <4>2, <4>3
    <3>. QED BY <3>1, <3>2
  <2>. QED BY <2>1, <2>4 DEF EventsInv
<1>9. CASE OpenAttempt
  <2>1. /\ steps' = steps /\ run.phase = "opened" /\ run'.phase = "working" /\ events' = events
        /\ process' = process
      BY <1>1, <1>9, OpenLeaves
  <2>2. Recorded = {}
      BY <1>1, <2>1 DEF MemoryInv, Recorded
  <2>3. process # "down" => \A i \in DOMAIN steps : PageEvent(i) \in events
      BY <1>2, <2>1, <2>2
  <2>. QED BY <2>1, <2>3 DEF EventsInv
<1>. QED BY <1>3, <1>4, <1>6, <1>7, <1>7a, <1>8, <1>9, StepKinds

(* Once a job has ended its webhook was told of every page and of the end,   *)
(* even when the process was lost between a write and its event.             *)
THEOREM WebhookSafety == Spec => []WebhookIsTold
<1>1. Init => EventsInv
    BY EmptySeq DEF Init, EventsInv, Terminal, NoRun, Submitted
<1>2. IInv /\ EventsInv /\ [Next]_vars => EventsInv'
    BY EventsKeep
<1>3. IInv /\ EventsInv => WebhookIsTold
  <2>. SUFFICES ASSUME IInv, EventsInv, AtRest, task.status \in Terminal
                PROVE  /\ \A i \in DOMAIN steps : PageEvent(i) \in events
                       /\ TerminalEvent(task.status, Latest) \in events
      BY DEF WebhookIsTold
  <2>1. run.phase = "none" /\ process # "down"
      BY DEF AtRest, InFlight
  <2>2. Recorded = {}
      BY <2>1 DEF IInv, MemoryInv, Recorded
  <2>. QED BY <2>1, <2>2 DEF EventsInv
<1>. QED BY <1>1, <1>2, <1>3, Invariance, PTL DEF Spec

-----------------------------------------------------------------------------
(* The page budget.                                                        *)

(* What the budget counts is finite, and at most one more with a page taken. *)
LEMMA CountedIs ==
    ASSUME Shape, MemoryInv, IsFiniteSet(run.taskUrls)
    PROVE  /\ IsFiniteSet(Counted) /\ Cardinality(Counted) \in Nat
           /\ Cardinality(run.taskUrls) \in Nat /\ Cardinality(NewPagesReserved) \in Nat
           /\ Cardinality(Counted) <= Cardinality(run.taskUrls) + Cardinality(NewPagesReserved)
<1>1. PICK S, N, T : /\ S = run.taskUrls /\ N = NewPagesReserved
                     /\ T = {worker[w].item.url : w \in NewPagesReserved}
    OBVIOUS
<1>2. N \subseteq Busy /\ IsFiniteSet(N)
  <2>1. N \subseteq Busy
      BY <1>1 DEF NewPagesReserved
  <2>. QED BY <2>1, WorkersAre, FS_Subset
<1>3. PICK url : url = [w \in N |-> worker[w].item.url]
    OBVIOUS
<1>4. url \in Surjection(N, T)
    BY <1>1, <1>3 DEF Surjection
<1>5. IsFiniteSet(T) /\ Cardinality(T) <= Cardinality(N)
    BY <1>2, <1>4, FS_Surjection
<1>6. Counted = S \cup T
    BY <1>1 DEF Counted, NewPagesReserved
<1>7. /\ IsFiniteSet(S \cup T)
      /\ Cardinality(S \cup T) = Cardinality(S) + Cardinality(T) - Cardinality(S \cap T)
    BY <1>1, <1>5, FS_Union
<1>8. Cardinality(S \cap T) \in Nat /\ Cardinality(S) \in Nat /\ Cardinality(T) \in Nat
      /\ Cardinality(N) \in Nat
  <2>1. IsFiniteSet(S \cap T)
      BY <1>5, FS_Intersection
  <2>. QED BY <1>1, <1>2, <1>5, <2>1, FS_CardinalityType
<1>9. Cardinality(S \cup T) \in Nat
    BY <1>7, FS_CardinalityType
<1>. QED BY <1>1, <1>5, <1>6, <1>7, <1>8, <1>9

(* The URLs that have a step are finitely many.                             *)
LEMMA FetchedIs ==
    ASSUME Shape
    PROVE  IsFiniteSet(FetchedUrls(steps)) /\ FetchedUrls(steps) \subseteq Urls
<1>1. IsFiniteSet(DOMAIN steps) /\ \A i \in DOMAIN steps : steps[i].url \in Urls
    BY RowsAre, FS_Interval
<1>2. PICK D, T, url : /\ D = DOMAIN steps /\ T = FetchedUrls(steps)
                       /\ url = [i \in DOMAIN steps |-> steps[i].url]
    OBVIOUS
<1>3. url \in Surjection(D, T)
    BY <1>2 DEF Surjection, FetchedUrls
<1>4. IsFiniteSet(T)
    BY <1>1, <1>2, <1>3, FS_Surjection
<1>. QED BY <1>1, <1>2, <1>4 DEF FetchedUrls

(* A set no larger than what the budget counts is within it.                *)
LEMMA WithinBudget ==
    ASSUME NEW S, NEW T, IsFiniteSet(T), S \subseteq T,
           MaxPages # None => Cardinality(T) <= MaxPages
    PROVE  IsFiniteSet(S) /\ (MaxPages # None => Cardinality(S) <= MaxPages)
<1>1. IsFiniteSet(S) /\ Cardinality(S) <= Cardinality(T)
    BY FS_Subset
<1>2. Cardinality(S) \in Nat /\ Cardinality(T) \in Nat
    BY <1>1, FS_CardinalityType
<1>3. MaxPages # None => MaxPages \in Nat
    BY CrawlAssumption
<1>. QED BY <1>1, <1>2, <1>3

\* No step lets the pages fetched, those in hand counted, exceed the budget.
LEMMA BudgetKeeps ==
    ASSUME IInv, BudgetInv, [Next]_vars
    PROVE  BudgetInv'
<1>1. Shape /\ MemoryInv /\ StepsInv
    BY DEF IInv
<1>. DEFINE InHand == {worker[w].item.url : w \in Recorded}
<1>2. ASSUME run.phase = "working"
      PROVE  /\ FetchedUrls(steps) \subseteq run.taskUrls \cup InHand
             /\ IsFiniteSet(run.taskUrls) /\ IsFiniteSet(Counted)
             /\ MaxPages # None => Cardinality(Counted) <= MaxPages
  <2>1. /\ FetchedUrls(steps) \subseteq run.taskUrls \cup InHand
        /\ IsFiniteSet(run.taskUrls)
        /\ MaxPages # None => Cardinality(Counted) <= MaxPages
      BY <1>2 DEF BudgetInv
  <2>. QED BY <1>1, <2>1, CountedIs
<1>3. ASSUME steps' = steps PROVE PagesWithinBudget' /\ FetchedUrls(steps') = FetchedUrls(steps)
    BY <1>3 DEF BudgetInv, PagesWithinBudget
<1>4. CASE Idles
  <2>1. /\ steps' = steps /\ run'.phase = run.phase /\ run'.taskUrls = run.taskUrls
        /\ \A w \in Workers :
              \/ worker'[w] = worker[w]
              \/ worker[w].pc # "recorded" /\ worker'[w].pc \notin {"scraping", "answered", "recorded"}
      BY <1>4 DEF Idles
  <2>2. Recorded' = Recorded /\ \A w \in Recorded : worker'[w] = worker[w]
      BY <2>1 DEF Recorded
  <2>3. Busy' \subseteq Busy /\ \A w \in Busy' : worker'[w] = worker[w]
      BY <2>1 DEF Busy
  <2>4. Counted' \subseteq Counted
      BY <2>1, <2>3 DEF Counted
  <2>5. ASSUME run.phase = "working"
        PROVE  MaxPages # None => Cardinality(Counted') <= MaxPages
    <3>1. PICK S, T : S = Counted' /\ T = Counted
        OBVIOUS
    <3>2. IsFiniteSet(T) /\ S \subseteq T /\ (MaxPages # None => Cardinality(T) <= MaxPages)
        BY <1>2, <2>4, <2>5, <3>1
    <3>. QED BY <3>1, <3>2, WithinBudget
  <2>6. InHand' = InHand
      BY <2>2
  <2>. QED BY <1>2, <1>3, <2>1, <2>5, <2>6 DEF BudgetInv
<1>5. ASSUME steps' = steps, run'.phase # "working" PROVE BudgetInv'
    BY <1>3, <1>5 DEF BudgetInv
<1>6. CASE StageStep
    BY <1>5, <1>6, StageLeaves
<1>7. CASE OpenAttempt
  <2>1. /\ steps' = steps /\ run'.taskUrls = FetchedUrls(steps)
        /\ \A w \in Workers : worker'[w].pc = "top"
      BY <1>1, <1>7, OpenLeaves
  <2>2. Counted' = FetchedUrls(steps)
      BY <2>1 DEF Counted, Busy
  <2>. QED BY <1>1, <1>3, <2>1, <2>2, FetchedIs DEF BudgetInv, PagesWithinBudget
<1>8. ASSUME NEW w \in Workers, NEW outcome \in Outcomes, Answer(w, outcome) PROVE BudgetInv'
  <2>1. /\ run.phase = "working" /\ run'.phase = "working" /\ run'.taskUrls = run.taskUrls
        /\ worker[w].pc = "scraping" /\ worker'[w].pc = "answered"
        /\ \A v \in Workers \ {w} : worker'[v] = worker[v]
        /\ Busy' = Busy
        /\ \A v \in Busy : worker'[v].item = worker[v].item
        /\ steps' = steps
      BY <1>1, <1>8, AnswerLeaves
  <2>2. Recorded' = Recorded /\ \A v \in Recorded : worker'[v] = worker[v]
      BY <2>1 DEF Recorded
  <2>3. Counted' = Counted
      BY <2>1 DEF Counted
  <2>4. InHand' = InHand
      BY <2>2
  <2>. QED BY <1>2, <1>3, <2>1, <2>3, <2>4 DEF BudgetInv
<1>9. ASSUME NEW w \in Workers, TakePage(w) PROVE BudgetInv'
  <2>1. /\ run.phase = "working" /\ run'.phase = "working"
        /\ worker'[w].item = Look.item /\ Look.item # None
        /\ worker[w].pc = "top" /\ worker'[w].pc = "scraping"
        /\ \A v \in Workers \ {w} :
             \/ worker'[v] = worker[v]
             \/ worker[v].pc = "parked" /\ worker'[v].pc = "top"
        /\ Busy' = Busy \cup {w} /\ w \notin Busy
        /\ \A v \in Busy : v # w /\ worker'[v] = worker[v]
        /\ run'.taskUrls = run.taskUrls /\ steps' = steps
      BY <1>9, TakeLeaves
  <2>2. Recorded' = Recorded /\ \A v \in Recorded : worker'[v] = worker[v]
      BY <2>1 DEF Recorded
  <2>3. InHand' = InHand
      BY <2>2
  <2>4. PICK item, may : item = Look.item /\ may = Admitted
      OBVIOUS
  <2>5. item.url \in may
    <3>1. Look.item = None \/ Look.item.url \in Admitted
        BY <1>1, <2>1, LookIs
    <3>. QED BY <2>1, <2>4, <3>1
  <2>6. PICK S, T, u : S = Counted' /\ T = Counted /\ u = item.url
      OBVIOUS
  <2>7. S = T \cup {u}
      BY <2>1, <2>4, <2>6 DEF Counted
  <2>8. IsFiniteSet(T) /\ (MaxPages # None => Cardinality(T) <= MaxPages)
      BY <1>2, <2>1, <2>6
  <2>9. MaxPages # None => Cardinality(S) <= MaxPages
    <3>. SUFFICES ASSUME MaxPages # None PROVE Cardinality(S) <= MaxPages
        OBVIOUS
    <3>1. CASE u \in T
      <4>1. S = T
          BY <2>7, <3>1
      <4>. QED BY <2>8, <4>1
    <3>2. CASE u \notin T
      <4>1. u \notin run.taskUrls
          BY <2>6, <3>2 DEF Counted
      <4>2. Cardinality(run.taskUrls) + Cardinality(NewPagesReserved) < MaxPages
          BY <2>4, <2>5, <2>6, <4>1 DEF Admitted
      <4>3. /\ Cardinality(T) \in Nat
            /\ Cardinality(run.taskUrls) \in Nat /\ Cardinality(NewPagesReserved) \in Nat
            /\ Cardinality(T) <= Cardinality(run.taskUrls) + Cardinality(NewPagesReserved)
          BY <1>1, <1>2, <2>1, <2>6, CountedIs
      <4>4. Cardinality(S) = Cardinality(T) + 1
          BY <2>7, <2>8, <3>2, FS_AddElement
      <4>5. MaxPages \in Nat
          BY CrawlAssumption
      <4>6. PICK a \in Nat, b \in Nat, c \in Nat :
                a = Cardinality(run.taskUrls) /\ b = Cardinality(NewPagesReserved) /\ c = Cardinality(T)
          BY <4>3
      <4>. QED BY <4>2, <4>3, <4>4, <4>5, <4>6
    <3>. QED BY <3>1, <3>2
  <2>. QED BY <1>2, <1>3, <2>1, <2>3, <2>6, <2>9 DEF BudgetInv
<1>10. ASSUME NEW w \in Workers, Record(w) PROVE BudgetInv'
  <2>1. /\ run.phase = "working" /\ run'.phase = "working" /\ run'.taskUrls = run.taskUrls
        /\ w \in Busy /\ worker[w].pc = "answered"
        /\ worker'[w].pc = "recorded" /\ worker'[w].item = worker[w].item
        /\ \A v \in Workers \ {w} : worker'[v] = worker[v]
        /\ Busy' = Busy
        /\ \A v \in Busy : worker'[v].item = worker[v].item
        /\ DOMAIN steps' = 1 .. Len(steps) + 1
        /\ \A i \in DOMAIN steps : i \in DOMAIN steps' /\ steps'[i] = steps[i]
        /\ steps'[Len(steps) + 1].url = worker[w].item.url
      BY <1>1, <1>10, RecordLeaves
  <2>2. Recorded' = Recorded \cup {w} /\ \A v \in Recorded' : worker'[v].item = worker[v].item
      BY <2>1 DEF Recorded
  <2>3. Counted' = Counted
      BY <2>1 DEF Counted
  <2>4. \A i \in DOMAIN steps' : i \in DOMAIN steps \/ i = Len(steps) + 1
      BY <1>1, <2>1, RowsAre
  <2>5. FetchedUrls(steps') \subseteq FetchedUrls(steps) \cup {worker[w].item.url}
      BY <2>1, <2>4 DEF FetchedUrls
  <2>6. InHand' = InHand \cup {worker[w].item.url}
      BY <2>2
  <2>7. FetchedUrls(steps') \subseteq run'.taskUrls \cup InHand'
      BY <1>2, <2>1, <2>5, <2>6
  <2>8. FetchedUrls(steps') \subseteq Counted
    <3>1. InHand \subseteq Counted /\ worker[w].item.url \in Counted
        BY <2>1 DEF Counted, Recorded, Busy
    <3>2. run.taskUrls \subseteq Counted
        BY DEF Counted
    <3>. QED BY <2>1, <2>6, <2>7, <3>1, <3>2
  <2>9. PagesWithinBudget'
    <3>1. PICK S, T : S = FetchedUrls(steps') /\ T = Counted
        OBVIOUS
    <3>2. IsFiniteSet(T) /\ S \subseteq T /\ (MaxPages # None => Cardinality(T) <= MaxPages)
        BY <1>2, <2>1, <2>8, <3>1
    <3>3. MaxPages # None => Cardinality(S) <= MaxPages
        BY <3>2, WithinBudget
    <3>. QED BY <3>1, <3>3 DEF PagesWithinBudget
  <2>. QED BY <1>2, <2>1, <2>3, <2>7, <2>9 DEF BudgetInv
<1>11. ASSUME NEW w \in Workers, Settle(w) PROVE BudgetInv'
  <2>1. /\ run.phase = "working" /\ run'.phase = "working"
        /\ worker[w].pc = "recorded" /\ worker'[w].pc = "top"
        /\ \A v \in Workers \ {w} :
             \/ worker'[v] = worker[v]
             \/ worker[v].pc = "parked" /\ worker'[v].pc = "top"
        /\ Busy' = Busy \ {w} /\ w \in Busy
        /\ run'.taskUrls = run.taskUrls \cup {worker[w].item.url}
        /\ steps' = steps
      BY <1>11, SettleLeaves
  <2>2. Recorded' = Recorded \ {w} /\ \A v \in Recorded' : worker'[v] = worker[v]
      BY <2>1 DEF Recorded
  <2>3. InHand \subseteq InHand' \cup {worker[w].item.url}
      BY <2>2
  <2>4. \A v \in Busy' : worker'[v] = worker[v]
      BY <2>1 DEF Busy
  <2>5. Counted' \subseteq Counted
      BY <2>1, <2>4 DEF Counted
  <2>6. PICK S, T, U : S = Counted' /\ T = Counted /\ U = run'.taskUrls
      OBVIOUS
  <2>7. IsFiniteSet(T) /\ S \subseteq T /\ U \subseteq T
        /\ (MaxPages # None => Cardinality(T) <= MaxPages)
      BY <1>2, <2>1, <2>5, <2>6 DEF Counted
  <2>8. IsFiniteSet(U) /\ (MaxPages # None => Cardinality(S) <= MaxPages)
      BY <2>7, WithinBudget
  <2>. QED BY <1>2, <1>3, <2>1, <2>3, <2>6, <2>8 DEF BudgetInv
<1>. QED BY <1>4, <1>6, <1>7, <1>8, <1>9, <1>10, <1>11, StepKinds

(* The page budget of a task holds over every run of it, whatever number of  *)
(* workers took pages at once: a page is counted from when it is taken.      *)
THEOREM BudgetSafety == Spec => []PagesWithinBudget
<1>1. Init => BudgetInv
  <2>. SUFFICES ASSUME Init PROVE BudgetInv
      OBVIOUS
  <2>1. run.phase # "working" /\ FetchedUrls(steps) = {}
      BY EmptySeq DEF Init, Submitted, NoRun, FetchedUrls
  <2>2. MaxPages # None => Cardinality({}) <= MaxPages
      BY FS_EmptySet, CrawlAssumption
  <2>. QED BY <2>1, <2>2 DEF BudgetInv, PagesWithinBudget
<1>2. IInv /\ BudgetInv /\ [Next]_vars => BudgetInv'
    BY BudgetKeeps
<1>3. BudgetInv => PagesWithinBudget
    BY DEF BudgetInv
<1>. QED BY <1>1, <1>2, <1>3, Invariance, PTL DEF Spec

-----------------------------------------------------------------------------
(* The politeness a host is owed.                                          *)

(* A host whose robots.txt is not known has a slot while nobody is on it.    *)
LEMMA FirstOnHost ==
    ASSUME Shape, MemoryInv, NEW f, NEW h \in Hosts, h \notin f.robotsKnown,
           HasSlot(f, h, SlotsTaken)
    PROVE  \A w \in Busy : HostOf[worker[w].item.url] # h
<1>1. PICK S : S = {w \in Busy : HostOf[worker[w].item.url] = h}
    OBVIOUS
<1>2. IsFiniteSet(S) /\ Cardinality(S) \in Nat
  <2>1. S \subseteq Busy /\ IsFiniteSet(Busy)
      BY <1>1, WorkersAre
  <2>. QED BY <2>1, FS_Subset, FS_CardinalityType
<1>3. Cardinality(S) < 1
    BY <1>1 DEF HasSlot, SlotsTaken
<1>4. S = {}
    BY <1>2, <1>3, FS_EmptySet
<1>. QED BY <1>1, <1>4

(* The page a worker takes comes no sooner than its host is owed, and it is   *)
(* the only one on a host that was not heard of.                             *)
LEMMA TakenInTime ==
    ASSUME IInv, DelayInv, NEW w \in Workers, TakePage(w), NEW h, h = HostOf[Look.item.url]
    PROVE  LET delay == IF h \in run.told THEN RobotsDelay[h] ELSE 0
           IN  /\ \/ frontier.lastStart[h] = None
                  \/ now - frontier.lastStart[h] >= Max({PerHostMinDelay, delay})
               /\ \/ h \in frontier.robotsKnown
                  \/ \A v \in Busy : HostOf[worker[v].item.url] # h
<1>1. /\ Shape /\ MemoryInv /\ StepsInv /\ run.phase = "working"
      /\ Look.item # None /\ frontier' = Look.frontier
    BY TakeLeaves DEF IInv
<1>2. PICK look, f : look = Look /\ f = Fed
    OBVIOUS
<1>3. look.item \in Item /\ HasSlot(f, h, SlotsTaken) /\ ReadyAt(f, h) <= now
  <2>1. \/ look.item = None
        \/ /\ look.item \in Item
           /\ HasSlot(f, HostOf[look.item.url], SlotsTaken)
           /\ ReadyAt(f, HostOf[look.item.url]) <= now
      BY <1>1, <1>2, LookIs
  <2>. QED BY <1>1, <1>2, <2>1
<1>4. h \in Hosts
    BY <1>2, <1>3, FrontierAssumption DEF Item
<1>5. f \in Frontiers /\ f.robotsKnown = frontier.robotsKnown /\ f.delay = frontier.delay
      /\ f.lastStart = frontier.lastStart
    BY <1>1, <1>2, FedIs DEF Extends
<1>6. h \in frontier.robotsKnown \/ \A v \in Busy : HostOf[worker[v].item.url] # h
    BY <1>1, <1>3, <1>4, <1>5, FirstOnHost
<1>7. PICK delay : delay = IF h \in run.told THEN RobotsDelay[h] ELSE 0
    OBVIOUS
<1>8. ASSUME frontier.lastStart[h] # None
      PROVE  now - frontier.lastStart[h] >= Max({PerHostMinDelay, delay})
  <2>1. PICK last \in Nat : last = f.lastStart[h]
      BY <1>4, <1>5, <1>8 DEF Frontiers
  <2>2. f.delay[h] \in Nat /\ RobotsDelay[h] \in Nat /\ PerHostMinDelay \in Nat /\ now \in Nat
      BY <1>1, <1>4, <1>5, FrontierAssumption, CrawlAssumption DEF Frontiers, MemoryInv
  <2>3. delay \in Nat /\ f.delay[h] >= delay
      BY <1>1, <1>5, <1>7, <2>2 DEF DelayInv
  <2>4. /\ ReadyAt(f, h) \in Nat
        /\ ReadyAt(f, h) >= last + PerHostMinDelay /\ ReadyAt(f, h) >= last + f.delay[h]
      BY <1>4, <1>5, <2>1, ReadyAtIs
  <2>5. PICK a \in Nat : a = PerHostMinDelay
      BY <2>2
  <2>6. Max({a, delay}) \in {a, delay}
      BY <2>3, MaxOfTwo
  <2>7. now - last >= a /\ now - last >= delay
      BY <1>3, <2>1, <2>2, <2>3, <2>4, <2>5
  <2>. QED BY <1>5, <2>1, <2>5, <2>6, <2>7
<1>. QED BY <1>6, <1>7, <1>8

\* Whatever an answer tells, leaves out or takes from the cache, a delay that
\* was told is kept to.
LEMMA DelayKeeps ==
    ASSUME IInv, DelayInv, [Next]_vars
    PROVE  DelayInv'
<1>1. Shape /\ MemoryInv /\ StepsInv /\ frontier \in Frontiers /\ run \in RunState
    BY DEF IInv, Shape
<1>2. ASSUME run'.phase = run.phase, run'.told = run.told, frontier'.delay = frontier.delay
      PROVE  DelayInv'
    BY <1>2 DEF DelayInv
<1>3. CASE Idles
    BY <1>2, <1>3 DEF Idles
<1>4. CASE StageStep
    BY <1>4, StageLeaves DEF DelayInv
<1>5. CASE OpenAttempt
    BY <1>1, <1>5, OpenLeaves DEF DelayInv
<1>6. ASSUME NEW w \in Workers, TakePage(w) PROVE DelayInv'
  <2>1. run.phase = "working" /\ run'.phase = "working" /\ run'.told = run.told
        /\ frontier' = Look.frontier
      BY <1>6, TakeLeaves
  <2>2. Look.frontier.delay = frontier.delay
      BY <1>1, <2>1, LookIs
  <2>. QED BY <1>2, <2>1, <2>2
<1>7. ASSUME NEW w \in Workers, NEW outcome \in Outcomes, Answer(w, outcome) PROVE DelayInv'
  <2>1. /\ run.phase = "working"
        /\ Heard(frontier, frontier', HostOf[worker[w].item.url])
        /\ \A k \in run'.told :
             \/ k \in run.told
             \/ k = HostOf[worker[w].item.url] /\ frontier'.delay[k] >= RobotsDelay[k]
        /\ run' \in RunState
      BY <1>1, <1>7, AnswerLeaves
  <2>2. ASSUME NEW k \in run'.told PROVE frontier'.delay[k] >= RobotsDelay[k]
    <3>1. k \in Hosts
        BY <2>1 DEF RunState
    <3>2. /\ frontier'.delay[k] >= frontier.delay[k]
          /\ frontier.delay[k] \in Nat /\ frontier'.delay[k] \in Nat /\ RobotsDelay[k] \in Nat
        BY <1>1, <2>1, <3>1, CrawlAssumption DEF Heard, Frontiers
    <3>3. CASE k \in run.told
        BY <2>1, <3>2, <3>3 DEF DelayInv
    <3>. QED BY <2>1, <3>3
  <2>. QED BY <2>2 DEF DelayInv
<1>8. ASSUME NEW w \in Workers, Record(w) PROVE DelayInv'
  <2>1. PICK g : g = frontier'
      OBVIOUS
  <2>2. Recorder(w, g)
      BY <1>1, <1>8, <2>1, RecorderIs
  <2>3. g.delay = frontier.delay
      BY <2>2 DEF Recorder
  <2>4. run'.phase = run.phase /\ run'.told = run.told
      BY <1>1, <1>8, RecordLeaves
  <2>. QED BY <1>2, <2>1, <2>3, <2>4
<1>9. ASSUME NEW w \in Workers, Settle(w) PROVE DelayInv'
    BY <1>2, <1>9, SettleLeaves
<1>. QED BY <1>3, <1>4, <1>5, <1>6, <1>7, <1>8, <1>9, StepKinds

(* Only a worker that takes a page starts to scrape.                        *)
LEMMA OnlyTaken ==
    ASSUME IInv, [Next]_vars, NEW v \in Workers,
           worker[v].pc # "scraping", worker'[v].pc = "scraping"
    PROVE  TakePage(v)
<1>1. Shape /\ MemoryInv /\ StepsInv /\ worker \in [Workers -> WorkerState]
    BY DEF IInv, Shape
<1>2. ~Idles
    BY DEF Idles
<1>3. ~StageStep
    BY StageLeaves
<1>4. ~OpenAttempt
    BY <1>1, OpenLeaves
<1>5. ASSUME NEW w \in Workers, Record(w) \/ \E o \in Outcomes : Answer(w, o) PROVE FALSE
  <2>1. worker'[w].pc \in {"answered", "recorded"} /\ \A k \in Workers \ {w} : worker'[k] = worker[k]
      BY <1>1, <1>5, AnswerLeaves, RecordLeaves
  <2>. QED BY <2>1
<1>6. ASSUME NEW w \in Workers, Settle(w) PROVE FALSE
  <2>1. /\ worker'[w].pc = "top"
        /\ \A k \in Workers \ {w} :
             \/ worker'[k] = worker[k]
             \/ worker[k].pc = "parked" /\ worker'[k].pc = "top"
      BY <1>6, SettleLeaves
  <2>. QED BY <2>1
<1>7. PICK w \in Workers : TakePage(w)
    BY <1>2, <1>3, <1>4, <1>5, <1>6, StepKinds
<1>8. \A k \in Workers \ {w} :
          \/ worker'[k] = worker[k]
          \/ worker[k].pc = "parked" /\ worker'[k].pc = "top"
    BY <1>7, TakeLeaves
<1>9. v = w
    BY <1>8
<1>. QED BY <1>7, <1>9

(* Within an attempt a host's pages start its Crawl-delay apart from the      *)
(* first answer on that told it, whatever later answers tell or leave out;    *)
(* and before any answer of the host it has one page at a time: for any       *)
(* number of workers, hosts and delays.                                       *)
THEOREM DelaySafety == Spec => CrawlDelayHeld
<1>1. Init => DelayInv
    BY DEF Init, DelayInv, Submitted, NoRun
<1>2. IInv /\ DelayInv /\ [Next]_vars => DelayInv'
    BY DelayKeeps
<1>3. ASSUME IInv, DelayInv, [Next]_vars, NEW w \in Workers,
             worker[w].pc # "scraping", worker'[w].pc = "scraping"
      PROVE  LET h     == HostOf[worker'[w].item.url]
                 delay == IF h \in run.told THEN RobotsDelay[h] ELSE 0
             IN  /\ \/ frontier.lastStart[h] = None
                    \/ now - frontier.lastStart[h] >= Max({PerHostMinDelay, delay})
                 /\ \/ h \in frontier.robotsKnown
                    \/ \A v \in Busy : HostOf[worker[v].item.url] # h
  <2>1. TakePage(w)
      BY <1>3, OnlyTaken
  <2>2. worker'[w].item = Look.item
      BY <1>3, <2>1, TakeLeaves
  <2>3. PICK h : h = HostOf[Look.item.url]
      OBVIOUS
  <2>4. LET delay == IF h \in run.told THEN RobotsDelay[h] ELSE 0
        IN  /\ \/ frontier.lastStart[h] = None
               \/ now - frontier.lastStart[h] >= Max({PerHostMinDelay, delay})
            /\ \/ h \in frontier.robotsKnown
               \/ \A v \in Busy : HostOf[worker[v].item.url] # h
      BY <1>3, <2>1, <2>3, TakenInTime
  <2>. QED BY <2>2, <2>3, <2>4
<1>4. IInv /\ DelayInv /\ [Next]_vars =>
        [\A w \in Workers :
           worker[w].pc # "scraping" /\ worker'[w].pc = "scraping" =>
             LET h     == HostOf[worker'[w].item.url]
                 delay == IF h \in run.told THEN RobotsDelay[h] ELSE 0
             IN  /\ \/ frontier.lastStart[h] = None
                    \/ now - frontier.lastStart[h] >= Max({PerHostMinDelay, delay})
                 /\ \/ h \in frontier.robotsKnown
                    \/ \A v \in Busy : HostOf[worker[v].item.url] # h]_vars
    BY <1>3
<1>. QED BY <1>1, <1>2, <1>4, Invariance, PTL DEF Spec, CrawlDelayHeld

-----------------------------------------------------------------------------
(* No link of a crawl is lost.                                             *)

(* Nothing moves but the workers, the reasons to stop, a request and a        *)
(* cancellation: the queue stays, and no worker leaves a run that goes on.    *)
Stays ==
    /\ Idles
    /\ frontier' = frontier /\ task'.urls = task.urls
    /\ \/ task' = task /\ attempts' = attempts
       \/ run.phase = "working" /\ task'.status \in Unfinished
       \/ /\ task'.status = "cancelled"
          /\ run.phase = "ending" => attempts'[Latest].budget = attempts[Latest].budget
    /\ \/ run' = run
       \/ run.phase \in {"none", "working"} /\ \E next : run' = [run EXCEPT !.next = next]
       \/ \E reason \in {"cancel", "shutdown", "failed"} : run' = [run EXCEPT !.aborts = @ \cup {reason}]
       \/ run' = [run EXCEPT !.aborts = {"time"}, !.budget = "time"]
    /\ run'.aborts = {} =>
          \A w \in Workers : worker'[w] = worker[w] \/ worker'[w].pc = "top"

(* Closing an attempt leaves the budget that cut it.                          *)
LEMMA ClosedKeeps ==
    ASSUME Shape, attempts # << >>, NEW status \in Terminal
    PROVE  Closed(attempts, status)[Latest].budget = attempts[Latest].budget
<1>1. attempts \in Seq(AttemptRow)
    BY DEF Shape
<1>2. Latest \in DOMAIN attempts /\ attempts[Latest] \in AttemptRow
  <2>1. Latest \in 1 .. Len(attempts) /\ DOMAIN attempts = 1 .. Len(attempts)
      BY <1>1, LenProperties, EmptySeq DEF Latest
  <2>. QED BY <1>1, <2>1, ElementOfSeq
<1>3. Closed(attempts, status)[Latest] =
        IF attempts[Latest].status = "running" THEN [attempts[Latest] EXCEPT !.status = status]
        ELSE attempts[Latest]
    BY <1>2 DEF Closed, Latest
<1>. QED BY <1>2, <1>3 DEF AttemptRow

\* The steps of a crawl that change neither a page nor the frontier, nor end or
\* start a run.
LEMMA StaysKinds ==
    ASSUME IInv, Kind = "crawl",
           \/ \E w \in Workers : HostReady(w) \/ Quit(w) \/ NoticeCancel(w) \/ StepFails(w)
           \/ Poll \/ TimeUp
           \/ \E here \in BOOLEAN : Cancel(here)
           \/ AskToResume \/ (AnswerRequest /\ InFlight)
           \/ Shutdown \/ Exit \/ Tick \/ UNCHANGED vars
    PROVE  Stays
<1>1. Shape /\ MemoryInv /\ worker \in [Workers -> WorkerState] /\ run \in RunState
      /\ task \in [status : Unfinished \cup Terminal, urls : Seq(Urls)]
    BY DEF IInv, Shape
<1>2. ASSUME Idles, frontier' = frontier, task' = task, attempts' = attempts,
             NEW reason \in {"cancel", "shutdown", "failed"}, Aborting(reason)
      PROVE  Stays
  <2>1. run'.aborts # {} /\ run' = [run EXCEPT !.aborts = @ \cup {reason}]
      BY <1>1, <1>2 DEF Aborting, RunState
  <2>. QED BY <1>2, <2>1 DEF Stays
<1>3. ASSUME Idles, frontier' = frontier, task' = task, attempts' = attempts,
             run' = run, worker' = worker
      PROVE  Stays
    BY <1>3 DEF Stays
<1>4. ASSUME NEW w \in Workers, HostReady(w) \/ Quit(w) \/ NoticeCancel(w) \/ StepFails(w)
      PROVE  Stays
  <2>1. Idles
      BY <1>4, LeaveIdles
  <2>2. frontier' = frontier /\ task' = task /\ attempts' = attempts
      BY <1>4 DEF HostReady, Quit, NoticeCancel, StepFails, store
  <2>3. CASE HostReady(w)
    <3>1. PICK top : top = [NoItem EXCEPT !.pc = "top"]
        OBVIOUS
    <3>2. run' = run /\ worker' = [worker EXCEPT ![w] = top] /\ top.pc = "top"
        BY <2>3, <3>1 DEF HostReady, NoItem
    <3>3. \A v \in Workers : worker'[v] = worker[v] \/ worker'[v].pc = "top"
        BY <1>1, <3>2
    <3>. QED BY <2>1, <2>2, <3>2, <3>3 DEF Stays
  <2>4. CASE Quit(w)
    <3>1. run' = run /\ run'.aborts # {}
        BY <2>4 DEF Quit, Stopped
    <3>. QED BY <2>1, <2>2, <3>1 DEF Stays
  <2>5. CASE NoticeCancel(w) \/ StepFails(w)
    <3>1. PICK reason \in {"cancel", "shutdown", "failed"} :
              run' = [run EXCEPT !.aborts = @ \cup {reason}]
        BY <2>5 DEF NoticeCancel, StepFails
    <3>2. run'.aborts # {}
        BY <1>1, <3>1 DEF RunState
    <3>. QED BY <2>1, <2>2, <3>1, <3>2 DEF Stays
  <2>. QED BY <1>4, <2>3, <2>4, <2>5
<1>5. ASSUME Poll \/ TimeUp PROVE Stays
  <2>1. Idles
      BY <1>5, PollIdles
  <2>2. frontier' = frontier /\ task' = task /\ attempts' = attempts
      BY <1>5 DEF Poll, TimeUp, HasAppended, store
  <2>3. CASE Poll
    <3>1. Aborting("cancel")
        BY <2>3 DEF Poll, HasAppended
    <3>. QED BY <1>2, <2>1, <2>2, <3>1
  <2>4. CASE TimeUp
    <3>1. run' = [run EXCEPT !.aborts = {"time"}, !.budget = "time"]
        BY <2>4 DEF TimeUp
    <3>2. run'.aborts # {}
        BY <1>1, <3>1 DEF RunState
    <3>. QED BY <2>1, <2>2, <3>1, <3>2 DEF Stays
  <2>. QED BY <1>5, <2>3, <2>4
<1>6. ASSUME NEW here \in BOOLEAN, Cancel(here) PROVE Stays
  <2>1. Idles
      BY <1>6, RequestIdles
  <2>2. /\ frontier' = frontier /\ task'.urls = task.urls /\ task'.status = "cancelled"
        /\ attempts' = Closed(attempts, "cancelled")
        /\ Aborting("cancel") \/ (run' = run /\ worker' = worker)
      BY <1>1, <1>6 DEF Cancel
  <2>3. run.phase = "ending" => attempts'[Latest].budget = attempts[Latest].budget
      BY <1>1, <2>2, ClosedKeeps DEF MemoryInv, Terminal
  <2>4. CASE Aborting("cancel")
    <3>1. run'.aborts # {} /\ run' = [run EXCEPT !.aborts = @ \cup {"cancel"}]
        BY <1>1, <2>4 DEF Aborting, RunState
    <3>. QED BY <2>1, <2>2, <2>3, <3>1 DEF Stays
  <2>5. CASE run' = run /\ worker' = worker
      BY <2>1, <2>2, <2>3, <2>5 DEF Stays
  <2>. QED BY <2>2, <2>4, <2>5
<1>7. ASSUME Shutdown \/ Exit \/ Tick \/ UNCHANGED vars PROVE Stays
  <2>1. Idles
      BY <1>7, RequestIdles
  <2>2. /\ frontier' = frontier /\ task' = task /\ attempts' = attempts
        /\ Aborting("shutdown") \/ (run' = run /\ worker' = worker)
      BY <1>7 DEF Shutdown, Exit, Tick, vars, store, memory
  <2>. QED BY <1>2, <1>3, <2>1, <2>2
<1>8. ASSUME AskToResume PROVE Stays
  <2>1. Idles
      BY <1>8, RequestIdles
  <2>2. /\ frontier' = frontier /\ task' = task /\ attempts' = attempts /\ worker' = worker
        /\ run' = [run EXCEPT !.next = "pending"] /\ run.phase = "none"
      BY <1>8 DEF AskToResume, InFlight, store
  <2>. QED BY <2>1, <2>2 DEF Stays
<1>9. ASSUME AnswerRequest, InFlight PROVE Stays
  <2>1. Idles
      BY <1>9, RequestIdles
  <2>2. /\ run.phase = "working" /\ run' = [run EXCEPT !.next = None] /\ run.next \in Unfinished
        /\ frontier' = frontier /\ worker' = worker
      BY <1>1, <1>9 DEF AnswerRequest, InFlight, MemoryInv, NextInv
  <2>3. task'.status = run.next /\ task'.urls = task.urls
      BY <1>1, <1>9, AnswerIs
  <2>. QED BY <2>1, <2>2, <2>3 DEF Stays
<1>. QED BY <1>4, <1>5, <1>6, <1>7, <1>8, <1>9

(* The steps of a crawl, for what it owes.                                  *)
LEMMA CrawlKinds ==
    ASSUME IInv, Kind = "crawl", [Next]_vars
    PROVE  \/ Stays
           \/ \E w \in Workers : WaitForHost(w) \/ Park(w) \/ Leave(w)
           \/ \E w \in Workers :
                 TakePage(w) \/ Record(w) \/ Settle(w) \/ \E o \in Outcomes : Answer(w, o)
           \/ StageStep
           \/ OpenAttempt
<1>1. ASSUME \/ \E w \in Workers : HostReady(w) \/ Quit(w) \/ NoticeCancel(w) \/ StepFails(w)
             \/ Poll \/ TimeUp
             \/ \E here \in BOOLEAN : Cancel(here)
             \/ AskToResume \/ (AnswerRequest /\ InFlight)
             \/ Shutdown \/ Exit \/ Tick \/ UNCHANGED vars
      PROVE  Stays
    BY <1>1, StaysKinds
<1>2. ~AskToAppend
    BY DEF AskToAppend
<1>3. ASSUME NEW w \in Workers, WorkerStep(w) \/ StepFails(w)
      PROVE  \/ Stays
             \/ WaitForHost(w) \/ Park(w) \/ Leave(w)
             \/ TakePage(w) \/ Record(w) \/ Settle(w) \/ \E o \in Outcomes : Answer(w, o)
    BY <1>1, <1>3 DEF WorkerStep
<1>4. CASE JobStep
    BY <1>1, <1>4 DEF JobStep, StageStep
<1>5. Crash \/ Restart => StageStep
    BY DEF StageStep
<1>. QED BY <1>1, <1>2, <1>3, <1>4, <1>5 DEF Next

(* A crawl's steps but its pages and its stages: the queue and the workers   *)
(* stay.                                                                     *)
LEMMA StaysLinks ==
    ASSUME IInv, LinksInv, Stays
    PROVE  LinksInv'
<1>1. /\ run \in RunState /\ steps' = steps /\ Latest' = Latest
      /\ run'.phase = run.phase /\ frontier' = frontier /\ task'.urls = task.urls
      /\ run.phase = "working" /\ run'.aborts = {} => run.aborts = {} /\ Busy' = Busy
    BY DEF Stays, Idles, IInv, Shape
<1>2. DoneKeys' = DoneKeys
    BY <1>1 DEF DoneKeys, DoneSteps
<1>3. /\ "time" \in run'.aborts =>
            run'.budget = "time" \/ ("time" \in run.aborts /\ run'.budget = run.budget)
      /\ run'.aborts = {} => run'.budget = run.budget
      /\ run.phase = "ending" => run'.next = run.next
  <2>1. CASE run' = run
      BY <2>1
  <2>2. ASSUME NEW reason \in {"cancel", "shutdown", "failed"},
               run' = [run EXCEPT !.aborts = @ \cup {reason}]
        PROVE  /\ "time" \in run'.aborts => "time" \in run.aborts
               /\ run'.budget = run.budget /\ run'.next = run.next
      BY <1>1, <2>2 DEF RunState
  <2>3. CASE run' = [run EXCEPT !.aborts = {"time"}, !.budget = "time"]
    <3>1. run'.aborts = {"time"} /\ run'.budget = "time" /\ run'.next = run.next
        BY <1>1, <2>3 DEF RunState
    <3>. QED BY <3>1
  <2>4. ASSUME NEW next, run' = [run EXCEPT !.next = next], run.phase \in {"none", "working"}
        PROVE  run'.aborts = run.aborts /\ run'.budget = run.budget /\ run.phase # "ending"
      BY <1>1, <2>4 DEF RunState
  <2>. QED BY <2>1, <2>2, <2>3, <2>4 DEF Stays
<1>4. ASSUME run'.phase = "working", run'.aborts = {} PROVE CrawlRunInv'
  <2>1. run'.budget = run.budget
      BY <1>3, <1>4
  <2>2. CrawlRunInv /\ Busy' = Busy
      BY <1>1, <1>4 DEF LinksInv, Stopped
  <2>3. \A w \in Workers : worker'[w] = worker[w] \/ worker'[w].pc = "top"
      BY <1>4 DEF Stays
  <2>4. \A w \in Busy : worker'[w] = worker[w]
      BY <2>2, <2>3 DEF Busy
  <2>5. BusyKeys' = BusyKeys
      BY <2>2, <2>4 DEF BusyKeys
  <2>6. (\A i \in DOMAIN steps : ~steps[i].content)' =>
          (QueuedUrls(frontier) \subseteq {Given[1]}
           /\ \A w \in Busy : worker[w].pc \in {"scraping", "answered"}
                => worker[w].item.url = Given[1])'
      BY <1>1, <2>2, <2>4 DEF CrawlRunInv
  <2>7. ((\E w \in Workers : worker[w].pc = "done") => QueuedUrls(frontier) = {} /\ Busy = {})'
      BY <1>1, <2>2, <2>3 DEF CrawlRunInv
  <2>. QED BY <1>1, <1>2, <2>1, <2>2, <2>5, <2>6, <2>7 DEF CrawlRunInv
<1>5. "time" # None
    BY CrawlAssumption
<1>6. run'.phase \notin {"ended", "none"} => task'.status # "completed"
    BY <1>1 DEF Stays, LinksInv, Unfinished
<1>7. ASSUME Completes', (attempts[Latest].budget = None)'
      PROVE  Completes /\ attempts[Latest].budget = None
  <2>1. CASE run'.phase \in {"ended", "none"} /\ task'.status = "completed"
    <3>1. task' = task /\ attempts' = attempts
        BY <1>1, <2>1 DEF Stays
    <3>. QED BY <1>1, <1>7, <2>1, <3>1 DEF Completes
  <2>2. CASE run'.phase = "ending" /\ run'.next = "completed"
    <3>1. run.phase = "ending" /\ run.next = "completed"
        BY <1>1, <1>3, <2>2
    <3>2. attempts'[Latest].budget = attempts[Latest].budget
        BY <3>1 DEF Stays
    <3>. QED BY <1>1, <1>7, <3>1, <3>2 DEF Completes
  <2>. QED BY <1>7, <2>1, <2>2 DEF Completes
<1>. QED BY <1>1, <1>2, <1>3, <1>4, <1>5, <1>6, <1>7 DEF LinksInv, Stopped

(* While a run is idle every host has a slot.                               *)
LEMMA IdleHasSlots ==
    ASSUME Busy = {}, NEW f, NEW h \in Hosts
    PROVE  HasSlot(f, h, SlotsTaken)
<1>1. {w \in Busy : HostOf[worker[w].item.url] = h} = {}
    OBVIOUS
<1>2. SlotsTaken[h] = 0
    BY <1>1, FS_EmptySet DEF SlotsTaken
<1>. QED BY <1>2, FrontierAssumption DEF HasSlot

(* A worker that finds no page: the queue loses what the budget refuses, and  *)
(* it leaves for good only when nothing is queued and nobody works.           *)
LEMMA LookLinks ==
    ASSUME IInv, Kind = "crawl", LinksInv, NEW w \in Workers, WaitForHost(w) \/ Park(w) \/ Leave(w)
    PROVE  LinksInv'
<1>1. /\ Shape /\ MemoryInv /\ StepsInv /\ run.phase = "working" /\ worker[w].pc = "top"
      /\ Look.item = None /\ run.aborts = {}
    BY DEF IInv, AtTop, Turn, WaitForHost, Park, Leave, Stopped
<1>2. PICK look, f, refused : look = Look /\ f = frontier /\ refused = Look.refused
    OBVIOUS
<1>3. Fed = f
    BY <1>1, <1>2, FedIs
<1>4. /\ look.frontier.visited = f.visited
      /\ QueuedUrls(look.frontier) \subseteq QueuedUrls(f)
      /\ look.refused \/ QueuedKeys(f) \subseteq QueuedKeys(look.frontier)
      /\ look.nextReadyAt # None
            \/ \A u \in QueuedUrls(look.frontier) : ~HasSlot(f, HostOf[u], SlotsTaken)
      /\ look.nextReadyAt \in Nat \cup {None}
      /\ look.frontier \in Frontiers
  <2>1. /\ look.frontier.visited = Fed.visited
        /\ QueuedUrls(look.frontier) \subseteq QueuedUrls(Fed)
        /\ look.nextReadyAt \in Nat \cup {None}
        /\ look.frontier \in Frontiers
      BY <1>1, <1>2, LookIs
  <2>2. look.refused \/ QueuedKeys(Fed) \subseteq QueuedKeys(look.frontier)
      BY <1>1, <1>2, LookIs
  <2>3. look.nextReadyAt # None
            \/ \A u \in QueuedUrls(look.frontier) : ~HasSlot(Fed, HostOf[u], SlotsTaken)
      BY <1>1, <1>2, LookIs
  <2>. QED BY <1>3, <2>1, <2>2, <2>3
<1>5. PICK to \in WorkerState :
          /\ Looked(w, to) /\ to.pc \in {"waiting", "parked", "done"}
          /\ to.pc = "done" => look.nextReadyAt = None /\ Busy = {}
  <2>1. CASE WaitForHost(w)
    <3>1. look.nextReadyAt \in Nat
        BY <1>2, <1>4, <2>1 DEF WaitForHost
    <3>2. [NoItem EXCEPT !.pc = "waiting", !.until = look.nextReadyAt] \in WorkerState
          /\ [NoItem EXCEPT !.pc = "waiting", !.until = look.nextReadyAt].pc = "waiting"
        BY <3>1 DEF NoItem, WorkerState
    <3>. QED BY <1>2, <2>1, <3>2 DEF WaitForHost
  <2>2. CASE Park(w)
    <3>1. [NoItem EXCEPT !.pc = "parked"] \in WorkerState
          /\ [NoItem EXCEPT !.pc = "parked"].pc = "parked"
        BY DEF NoItem, WorkerState
    <3>. QED BY <2>2, <3>1 DEF Park
  <2>3. CASE Leave(w)
    <3>1. NoItem \in WorkerState /\ NoItem.pc = "done"
        BY DEF NoItem, WorkerState
    <3>. QED BY <1>2, <2>3, <3>1 DEF Leave
  <2>. QED BY <2>1, <2>2, <2>3
<1>6. /\ worker'[w] = to
      /\ \A v \in Workers \ {w} :
           \/ worker'[v] = worker[v]
           \/ worker[v].pc = "parked" /\ worker'[v].pc = "top"
      /\ frontier' = look.frontier
      /\ run'.budget = IF refused THEN "pages" ELSE run.budget
      /\ run'.phase = run.phase /\ run'.aborts = run.aborts
      /\ task' = task /\ attempts' = attempts /\ steps' = steps /\ Latest' = Latest
    BY <1>1, <1>2, <1>5, LookLeaves
<1>7. Busy' = Busy /\ \A v \in Busy : worker'[v] = worker[v]
    BY <1>1, <1>5, <1>6 DEF Busy
<1>8. BusyKeys' = BusyKeys /\ DoneKeys' = DoneKeys
    BY <1>6, <1>7 DEF BusyKeys, DoneKeys, DoneSteps
<1>9. CrawlRunInv /\ task.status # "completed"
    BY <1>1 DEF LinksInv, Stopped
<1>10. CrawlRunInv'
  <2>1. (run.budget = None =>
            frontier.visited \subseteq DoneKeys \cup BusyKeys \cup QueuedKeys(frontier))'
    <3>1. "pages" # None
        BY CrawlAssumption
    <3>. QED BY <1>2, <1>4, <1>6, <1>8, <1>9, <3>1 DEF CrawlRunInv
  <2>2. (\A i \in DOMAIN steps : ~steps[i].content)' =>
          (QueuedUrls(frontier) \subseteq {Given[1]}
           /\ \A v \in Busy : worker[v].pc \in {"scraping", "answered"}
                => worker[v].item.url = Given[1])'
      BY <1>2, <1>4, <1>6, <1>7, <1>9 DEF CrawlRunInv
  <2>3. CASE to.pc = "done"
    <3>1. Busy = {} /\ \A u \in QueuedUrls(look.frontier) : ~HasSlot(f, HostOf[u], SlotsTaken)
      <4>1. look.nextReadyAt = None
          BY <1>5, <2>3
      <4>. QED BY <1>4, <1>5, <2>3, <4>1
    <3>2. \A u \in QueuedUrls(look.frontier) : HostOf[u] \in Hosts
        BY <1>4, Queued, FrontierAssumption
    <3>3. QueuedUrls(look.frontier) = {}
        BY <3>1, <3>2, IdleHasSlots
    <3>4. (QueuedUrls(frontier) = {} /\ Busy = {})'
        BY <1>6, <1>7, <3>1, <3>3
    <3>. QED BY <1>2, <1>4, <1>6, <1>9, <2>1, <2>2, <3>4 DEF CrawlRunInv
  <2>4. CASE to.pc # "done"
    <3>1. \A v \in Workers : worker'[v].pc = "done" => worker[v].pc = "done"
        BY <1>6, <2>4
    <3>2. ((\E v \in Workers : worker[v].pc = "done") => QueuedUrls(frontier) = {} /\ Busy = {})'
        BY <1>2, <1>4, <1>6, <1>7, <1>9, <3>1 DEF CrawlRunInv
    <3>. QED BY <1>2, <1>4, <1>6, <1>9, <2>1, <2>2, <3>2 DEF CrawlRunInv
  <2>. QED BY <2>3, <2>4
<1>11. ~Completes'
    BY <1>1, <1>6 DEF Completes
<1>. QED BY <1>1, <1>6, <1>9, <1>10, <1>11 DEF LinksInv

(* A worker takes a page: it is in hand instead of queued.                   *)
LEMMA TakeLinks ==
    ASSUME IInv, Kind = "crawl", LinksInv, NEW w \in Workers, TakePage(w)
    PROVE  LinksInv'
<1>1. Shape /\ MemoryInv /\ StepsInv
    BY DEF IInv
<1>2. /\ run.phase = "working" /\ run'.phase = "working" /\ run.aborts = {}
      /\ worker'[w].pc = "scraping"
      /\ worker'[w].item = Look.item /\ Look.item # None
      /\ \A v \in Workers \ {w} :
           \/ worker'[v] = worker[v]
           \/ worker[v].pc = "parked" /\ worker'[v].pc = "top"
      /\ Busy' = Busy \cup {w} /\ w \notin Busy
      /\ \A v \in Busy : v # w /\ worker'[v] = worker[v]
      /\ frontier' = Look.frontier
      /\ run'.aborts = run.aborts
      /\ run'.budget = IF Look.refused THEN "pages" ELSE run.budget
      /\ task' = task /\ attempts' = attempts /\ steps' = steps /\ Latest' = Latest
    BY TakeLeaves
<1>3. PICK look, f, u : look = Look /\ f = frontier /\ u = Look.item.url
    OBVIOUS
<1>4. Fed = f
    BY <1>1, <1>2, <1>3, FedIs
<1>5. /\ look.frontier.visited = f.visited
      /\ QueuedUrls(look.frontier) \subseteq QueuedUrls(f)
      /\ u \in QueuedUrls(f)
      /\ look.refused \/ QueuedKeys(f) \subseteq QueuedKeys(look.frontier) \cup {KeyOf[u]}
  <2>1. /\ look.frontier.visited = Fed.visited
        /\ QueuedUrls(look.frontier) \subseteq QueuedUrls(Fed)
      BY <1>1, <1>2, <1>3, LookIs
  <2>2. /\ look.item.url \in QueuedUrls(Fed)
        /\ look.refused
              \/ QueuedKeys(Fed) \subseteq QueuedKeys(look.frontier) \cup {KeyOf[look.item.url]}
      BY <1>1, <1>2, <1>3, LookIs
  <2>. QED BY <1>3, <1>4, <2>1, <2>2
<1>6. BusyKeys' = BusyKeys \cup {KeyOf[u]} /\ DoneKeys' = DoneKeys
    BY <1>2, <1>3 DEF BusyKeys, DoneKeys, DoneSteps
<1>7. CrawlRunInv /\ task.status # "completed"
    BY <1>2 DEF LinksInv, Stopped
<1>8. \A v \in Workers : worker[v].pc # "done" /\ worker'[v].pc # "done"
    BY <1>2, <1>3, <1>5, <1>7 DEF CrawlRunInv
<1>9. (run.budget = None =>
          frontier.visited \subseteq DoneKeys \cup BusyKeys \cup QueuedKeys(frontier))'
  <2>1. "pages" # None
      BY CrawlAssumption
  <2>. QED BY <1>2, <1>3, <1>5, <1>6, <1>7, <2>1 DEF CrawlRunInv
<1>10. (\A i \in DOMAIN steps : ~steps[i].content)' =>
          (QueuedUrls(frontier) \subseteq {Given[1]}
           /\ \A v \in Busy : worker[v].pc \in {"scraping", "answered"}
                => worker[v].item.url = Given[1])'
    BY <1>2, <1>3, <1>5, <1>7 DEF CrawlRunInv
<1>11. CrawlRunInv'
    BY <1>2, <1>3, <1>5, <1>7, <1>8, <1>9, <1>10 DEF CrawlRunInv
<1>12. ~Completes'
    BY <1>2 DEF Completes
<1>. QED BY <1>2, <1>7, <1>11, <1>12 DEF LinksInv

(* A page is answered: it is in hand still, and the queue is as it was.       *)
LEMMA AnswerLinks ==
    ASSUME IInv, Kind = "crawl", LinksInv, NEW w \in Workers, NEW outcome, Answer(w, outcome)
    PROVE  LinksInv'
<1>1. Shape /\ MemoryInv
    BY DEF IInv
<1>2. /\ w \in Busy /\ worker[w].pc = "scraping" /\ run.phase = "working" /\ run.aborts = {}
      /\ worker'[w].pc = "answered" /\ worker'[w].item = worker[w].item
      /\ \A v \in Workers \ {w} : worker'[v] = worker[v]
      /\ Busy' = Busy /\ BusyKeys' = BusyKeys
      /\ run'.phase = run.phase /\ run'.aborts = run.aborts /\ run'.budget = run.budget
      /\ frontier'.pending = frontier.pending /\ frontier'.visited = frontier.visited
      /\ task' = task /\ attempts' = attempts /\ steps' = steps /\ Latest' = Latest
    BY <1>1, AnswerLeaves DEF Stopped, Heard
<1>3. CrawlRunInv /\ task.status # "completed"
    BY <1>2 DEF LinksInv, Stopped
<1>4. /\ QueuedUrls(frontier)' = QueuedUrls(frontier) /\ QueuedKeys(frontier)' = QueuedKeys(frontier)
      /\ DoneKeys' = DoneKeys
    BY <1>2 DEF QueuedUrls, QueuedKeys, DoneKeys, DoneSteps
<1>5. (\A i \in DOMAIN steps : ~steps[i].content)' =>
          (QueuedUrls(frontier) \subseteq {Given[1]}
           /\ \A v \in Busy : worker[v].pc \in {"scraping", "answered"}
                => worker[v].item.url = Given[1])'
  <2>1. \A v \in Busy : worker'[v].pc \in {"scraping", "answered"}
            => worker[v].pc \in {"scraping", "answered"} /\ worker'[v].item = worker[v].item
      BY <1>2 DEF Busy
  <2>. QED BY <1>2, <1>3, <1>4, <2>1 DEF CrawlRunInv
<1>6. \A v \in Workers : worker'[v].pc # "done"
    BY <1>2, <1>3 DEF CrawlRunInv
<1>7. CrawlRunInv'
    BY <1>2, <1>3, <1>4, <1>5, <1>6 DEF CrawlRunInv
<1>8. ~Completes'
    BY <1>2 DEF Completes
<1>. QED BY <1>2, <1>3, <1>7, <1>8 DEF LinksInv, Stopped

(* A page is recorded: its links are queued, and the first page with content  *)
(* is the seed.                                                              *)
LEMMA RecordLinks ==
    ASSUME IInv, Kind = "crawl", LinksInv, NEW w \in Workers, Record(w)
    PROVE  LinksInv'
<1>1. Shape /\ MemoryInv /\ StepsInv
    BY DEF IInv
<1>2. PICK g, n, row, u : /\ g = frontier' /\ n = Len(steps) + 1 /\ row = steps'[Len(steps) + 1]
                          /\ u = worker[w].item.url
    OBVIOUS
<1>3. /\ w \in Busy /\ worker[w].pc = "answered" /\ run.phase = "working" /\ run.aborts = {}
      /\ worker'[w].pc = "recorded"
      /\ \A v \in Workers \ {w} : worker'[v] = worker[v]
      /\ Busy' = Busy /\ BusyKeys' = BusyKeys
      /\ run'.phase = run.phase /\ run'.aborts = run.aborts /\ run'.budget = run.budget
      /\ DOMAIN steps' = 1 .. n /\ n \in DOMAIN steps'
      /\ \A i \in DOMAIN steps : i \in DOMAIN steps' /\ steps'[i] = steps[i]
      /\ row.url = u /\ row.depth = worker[w].item.depth
      /\ row.attempt = Latest /\ row.content = Content(w)
      /\ task' = task /\ attempts' = attempts /\ Latest' = Latest
      /\ \A i \in DOMAIN steps' : i \in DOMAIN steps \/ i = n
  <2>1. DOMAIN steps = 1 .. Len(steps) /\ Len(steps) \in Nat
      BY <1>1, RowsAre
  <2>2. /\ w \in Busy /\ worker[w].pc = "answered" /\ run.phase = "working" /\ run.aborts = {}
        /\ worker'[w].pc = "recorded"
        /\ \A v \in Workers \ {w} : worker'[v] = worker[v]
        /\ Busy' = Busy /\ BusyKeys' = BusyKeys
        /\ run'.phase = run.phase /\ run'.aborts = run.aborts /\ run'.budget = run.budget
        /\ DOMAIN steps' = 1 .. n
        /\ \A i \in DOMAIN steps : i \in DOMAIN steps' /\ steps'[i] = steps[i]
        /\ row.url = u /\ row.depth = worker[w].item.depth
        /\ row.attempt = Latest /\ row.content = Content(w)
        /\ task' = task /\ attempts' = attempts /\ Latest' = Latest
      BY <1>1, <1>2, RecordLeaves DEF Stopped
  <2>. QED BY <1>2, <2>1, <2>2
<1>4. Recorder(w, g)
    BY <1>1, <1>2, RecorderIs
<1>5. /\ frontier.visited \subseteq g.visited
      /\ QueuedKeys(frontier) \subseteq QueuedKeys(g)
      /\ g.visited \subseteq frontier.visited \cup QueuedKeys(g)
      /\ ~Content(w) => g.pending = frontier.pending
      /\ Content(w) /\ row.depth < MaxDepth =>
            \A v \in ToSet(Links[u]) : KeyOf[v] \in g.visited
    BY <1>2, <1>3, <1>4 DEF Recorder
<1>6. CrawlRunInv /\ PagesInv /\ task.status # "completed"
    BY <1>1, <1>3 DEF LinksInv, StepsInv, Stopped
<1>7. KeyOf[u] \in g.visited
  <2>1. KeyOf[u] \in BusyKeys /\ BusyKeys \subseteq frontier.visited
      BY <1>2, <1>3, <1>6 DEF BusyKeys, PagesInv, Clean
  <2>. QED BY <1>5, <2>1
<1>8. DoneKeys \subseteq DoneKeys'
    BY <1>3 DEF DoneKeys, DoneSteps
<1>9. ASSUME row.content PROVE Owed(row) \subseteq g.visited
    BY <1>3, <1>5, <1>7, <1>9 DEF Owed
<1>10. (\A i \in DOMAIN steps : steps[i].content => Owed(steps[i]) \subseteq frontier.visited)'
  <2>. SUFFICES ASSUME NEW i \in DOMAIN steps', steps'[i].content
                PROVE  Owed(steps'[i]) \subseteq g.visited
      BY <1>2 DEF Owed
  <2>1. CASE i = n
      BY <1>2, <1>9, <2>1
  <2>2. CASE i \in DOMAIN steps
      BY <1>3, <1>5, <1>6, <2>2 DEF CrawlRunInv
  <2>. QED BY <1>3, <2>1, <2>2
<1>11. (run.budget = None =>
          frontier.visited \subseteq DoneKeys \cup BusyKeys \cup QueuedKeys(frontier))'
    BY <1>2, <1>3, <1>5, <1>6, <1>8 DEF CrawlRunInv
<1>12. ASSUME \A i \in DOMAIN steps' : ~steps'[i].content
       PROVE  (QueuedUrls(frontier) \subseteq {Given[1]}
               /\ \A v \in Busy : worker[v].pc \in {"scraping", "answered"}
                => worker[v].item.url = Given[1])'
  <2>1. ~row.content /\ \A i \in DOMAIN steps : ~steps[i].content
      BY <1>2, <1>3, <1>12
  <2>2. QueuedUrls(g) = QueuedUrls(frontier)
      BY <1>3, <1>5, <2>1 DEF QueuedUrls
  <2>3. \A v \in Busy : worker'[v].pc \in {"scraping", "answered"} => worker'[v] = worker[v]
      BY <1>3 DEF Busy
  <2>. QED BY <1>2, <1>3, <1>6, <2>1, <2>2, <2>3 DEF CrawlRunInv
<1>13. \A v \in Workers : worker'[v].pc # "done"
    BY <1>3, <1>6 DEF CrawlRunInv
<1>14. CrawlRunInv'
    BY <1>2, <1>5, <1>6, <1>10, <1>11, <1>12, <1>13 DEF CrawlRunInv
<1>15. (\E i \in DOMAIN steps : steps[i].content)' =>
          (\E i \in DOMAIN steps : steps[i].content /\ steps[i].url = Given[1])'
  <2>1. CASE \E i \in DOMAIN steps : steps[i].content
      BY <1>3, <2>1 DEF LinksInv
  <2>2. CASE \A i \in DOMAIN steps : ~steps[i].content
    <3>1. u = Given[1]
        BY <1>2, <1>3, <1>6, <2>2 DEF CrawlRunInv
    <3>. QED BY <1>2, <1>3, <2>2, <3>1
  <2>. QED BY <2>1, <2>2
<1>16. ~Completes'
    BY <1>3 DEF Completes
<1>. QED BY <1>3, <1>6, <1>14, <1>15, <1>16 DEF LinksInv, Stopped

(* A page is let go: it is done instead of in hand.                          *)
LEMMA SettleLinks ==
    ASSUME IInv, Kind = "crawl", LinksInv, NEW w \in Workers, Settle(w)
    PROVE  LinksInv'
<1>1. /\ run.phase = "working" /\ run'.phase = "working"
      /\ worker[w].pc = "recorded" /\ worker'[w].pc = "top"
      /\ \A v \in Workers \ {w} :
           \/ worker'[v] = worker[v]
           \/ worker[v].pc = "parked" /\ worker'[v].pc = "top"
      /\ Busy' = Busy \ {w} /\ w \in Busy
      /\ run'.aborts = run.aborts /\ run'.budget = run.budget
      /\ task' = task /\ steps' = steps /\ Latest' = Latest
      /\ frontier' = frontier
    BY SettleLeaves
<1>2. DoneKeys' = DoneKeys
    BY <1>1 DEF DoneKeys, DoneSteps
<1>3. \A v \in Busy' : worker'[v] = worker[v]
    BY <1>1 DEF Busy
<1>4. PagesInv
    BY <1>1 DEF IInv, StepsInv
<1>5. KeyOf[worker[w].item.url] \in DoneKeys
    BY <1>1, <1>4 DEF PagesInv, DoneKeys, DoneSteps
<1>6. BusyKeys \subseteq BusyKeys' \cup DoneKeys
    BY <1>1, <1>3, <1>5 DEF BusyKeys
<1>7. ASSUME run.aborts = {} PROVE CrawlRunInv'
  <2>1. CrawlRunInv
      BY <1>1, <1>7 DEF LinksInv, Stopped
  <2>2. \A v \in Workers : worker'[v].pc # "done"
      BY <1>1, <2>1 DEF CrawlRunInv
  <2>3. (run.budget = None =>
            frontier.visited \subseteq DoneKeys \cup BusyKeys \cup QueuedKeys(frontier))'
      BY <1>1, <1>2, <1>6, <2>1 DEF CrawlRunInv
  <2>4. (\A i \in DOMAIN steps : ~steps[i].content)' =>
          (QueuedUrls(frontier) \subseteq {Given[1]}
           /\ \A v \in Busy : worker[v].pc \in {"scraping", "answered"}
                => worker[v].item.url = Given[1])'
      BY <1>1, <1>3, <2>1 DEF CrawlRunInv
  <2>. QED BY <1>1, <2>1, <2>2, <2>3, <2>4 DEF CrawlRunInv
<1>8. task.status # "completed"
    BY <1>1 DEF LinksInv
<1>9. ~Completes'
    BY <1>1 DEF Completes
<1>. QED BY <1>1, <1>7, <1>8, <1>9 DEF LinksInv, Stopped

(* An attempt opens with all the rows owe queued.                           *)
LEMMA OpenLinks ==
    ASSUME IInv, Kind = "crawl", LinksInv, OpenAttempt
    PROVE  LinksInv'
<1>1. Shape /\ MemoryInv /\ StepsInv
    BY DEF IInv
<1>2. /\ run.phase = "opened" /\ task' = task
      /\ steps' = steps /\ frontier' = RestoredFrontier
      /\ run'.phase = "working"
      /\ run'.aborts = {} \/ run'.aborts = {"shutdown"}
      /\ \A w \in Workers : worker'[w].pc = "top"
    BY <1>1, OpenLeaves
<1>3. task.urls[1] = Given[1] /\ Given[1] \in Urls
  <2>1. Len(Given) \in Nat /\ Len(Given) # 0
      BY LenProperties, EmptySeq, CrawlAssumption
  <2>2. 1 \in 1 .. Len(Given)
      BY <2>1
  <2>. QED BY <2>2, ElementOfSeq, CrawlAssumption DEF LinksInv
<1>4. PICK f : f = frontier'
    OBVIOUS
<1>5. /\ Grows(EmptyFrontier, f, Relayed)
      /\ (\A i \in DOMAIN steps : ~steps[i].content) => QueuedUrls(f) \subseteq {Given[1]}
  <2>1. f = RestoredFrontier /\ task.urls[1] \in Urls
      BY <1>2, <1>3, <1>4
  <2>2. /\ Grows(EmptyFrontier, f, Relayed)
        /\ (\A i \in DOMAIN steps : ~steps[i].content) => QueuedUrls(f) \subseteq {task.urls[1]}
      BY <1>1, <2>1, CrawlRestored
  <2>. QED BY <1>3, <2>2
<1>6. Relayed \subseteq f.visited /\ f.visited \subseteq QueuedKeys(f)
    BY <1>5 DEF Grows, EmptyFrontier
<1>7. \A i \in DOMAIN steps : steps[i].content => Owed(steps[i]) \subseteq f.visited
    BY <1>6 DEF Relayed
<1>8. KeyOf[Given[1]] \in f.visited
  <2>1. CASE \E i \in DOMAIN steps : steps[i].content
    <3>1. PICK i \in DOMAIN steps : steps[i].content /\ steps[i].url = Given[1]
        BY <2>1 DEF LinksInv
    <3>. QED BY <1>7, <3>1 DEF Owed
  <2>2. CASE ~(\E i \in DOMAIN steps : steps[i].content)
      BY <1>3, <1>6, <2>2 DEF Relayed
  <2>. QED BY <2>1, <2>2
<1>9. Busy' = {}
    BY <1>2 DEF Busy
<1>10. CrawlRunInv'
    BY <1>2, <1>4, <1>5, <1>6, <1>7, <1>8, <1>9 DEF CrawlRunInv, Owed
<1>11. task.status # "completed"
    BY <1>2 DEF LinksInv
<1>12. ~Completes'
    BY <1>2 DEF Completes
<1>. QED BY <1>2, <1>10, <1>11, <1>12 DEF LinksInv

(* A crawl that decides on "completed", with no budget cut, was not stopped:  *)
(* its workers had left because nothing was queued and nobody worked.         *)
LEMMA DecideLinks ==
    ASSUME IInv, Kind = "crawl", LinksInv, Decide
    PROVE  LinksInv'
<1>1. /\ Shape /\ MemoryInv /\ run \in RunState /\ attempts \in Seq(AttemptRow)
    BY DEF IInv, Shape
<1>2. /\ run.phase = "working" /\ \A w \in Workers : worker[w].pc = "done"
      /\ run' = [run EXCEPT !.phase = "ending", !.next = Outcome]
      /\ task' = task /\ steps' = steps
    BY DEF Decide, Turn
<1>3. run'.phase = "ending" /\ run'.next = Outcome
    BY <1>1, <1>2 DEF RunState
<1>4. PICK row : row = [status |-> IF Outcome = "paused" THEN "interrupted" ELSE Outcome,
                        budget |-> run.budget]
    OBVIOUS
<1>5. row \in AttemptRow /\ row.budget = run.budget
    BY <1>1, <1>4 DEF AttemptRow, RunState, Outcome, Terminal
<1>6. attempts' = [attempts EXCEPT ![Latest] = row]
    BY <1>4, Zenon DEF Decide
<1>7. Latest' = Latest /\ attempts'[Latest].budget = run.budget
    BY <1>1, <1>2, <1>5, <1>6, AttemptWritten DEF MemoryInv
<1>8. DoneKeys' = DoneKeys
    BY <1>2, <1>7 DEF DoneKeys, DoneSteps
<1>9. ASSUME Outcome = "completed", run.budget = None
      PROVE  /\ KeyOf[Given[1]] \in DoneKeys
             /\ \A k \in DOMAIN steps : steps[k].content => Owed(steps[k]) \subseteq DoneKeys
  <2>1. run.aborts \subseteq {"time"}
      BY <1>1, <1>9 DEF Outcome, RunState
  <2>2. run.aborts = {}
      BY <1>2, <1>9, <2>1 DEF LinksInv
  <2>3. CrawlRunInv
      BY <1>2, <2>2 DEF LinksInv, Stopped
  <2>4. PICK w \in Workers : worker[w].pc = "done"
      BY <1>2, CrawlAssumption
  <2>5. QueuedUrls(frontier) = {} /\ Busy = {}
      BY <2>3, <2>4 DEF CrawlRunInv
  <2>6. QueuedKeys(frontier) = {} /\ BusyKeys = {}
      BY <2>5 DEF QueuedUrls, QueuedKeys, BusyKeys
  <2>7. frontier.visited \subseteq DoneKeys
      BY <1>9, <2>3, <2>6 DEF CrawlRunInv
  <2>. QED BY <2>3, <2>7 DEF CrawlRunInv
<1>10. Completes' /\ (attempts[Latest].budget = None)' => Outcome = "completed" /\ run.budget = None
    BY <1>3, <1>7 DEF Completes
<1>11. task.status # "completed"
    BY <1>2 DEF LinksInv
<1>. QED BY <1>2, <1>3, <1>8, <1>9, <1>10, <1>11 DEF LinksInv, Owed

\* The other stages of a crawl pass on what was decided.
LEMMA StageLinks ==
    ASSUME IInv, Kind = "crawl", LinksInv, StageStep, ~Decide
    PROVE  LinksInv'
<1>1. /\ Shape /\ MemoryInv /\ run \in RunState
      /\ task \in [status : Unfinished \cup Terminal, urls : Seq(Urls)]
    BY DEF IInv, Shape
<1>2. /\ steps' = steps /\ Latest' = Latest /\ task'.urls = task.urls /\ run'.phase # "working"
    BY StageLeaves
<1>3. DoneKeys' = DoneKeys
    BY <1>2 DEF DoneKeys, DoneSteps
<1>4. ASSUME ~Completes', run'.phase \notin {"ended", "none"} => task'.status # "completed"
      PROVE  LinksInv'
    BY <1>2, <1>4 DEF LinksInv
<1>5. ASSUME attempts' = attempts, Completes' => Completes,
             run'.phase \notin {"ended", "none"} => task'.status # "completed"
      PROVE  LinksInv'
    BY <1>2, <1>3, <1>5 DEF LinksInv
<1>6. CASE Open
  <2>1. run'.phase = "opening" /\ task' = task /\ run.phase = "submitted"
      BY <1>1, <1>6 DEF Open, RunState, store
  <2>2. task.status # "completed"
      BY <2>1 DEF LinksInv
  <2>. QED BY <1>4, <2>1, <2>2 DEF Completes
<1>7. CASE RefuseToOpen
  <2>1. run'.phase = "none" /\ task' = task /\ task.status = "cancelled"
      BY <1>7 DEF RefuseToOpen, NoRun
  <2>. QED BY <1>4, <2>1 DEF Completes
<1>8. CASE OpenTask
  <2>1. run'.phase = "opened" /\ run.next = "running" /\ task'.status = run.next
      BY <1>1, <1>8 DEF OpenTask, RunState, MemoryInv, NextInv
  <2>. QED BY <1>4, <2>1 DEF Completes
<1>9. CASE Finish
  <2>1. /\ run'.phase = "ended" /\ task'.status = run.next /\ run.phase = "ending"
        /\ attempts' = attempts
      BY <1>1, <1>9 DEF Finish, RunState
  <2>2. Completes' => Completes
      BY <2>1 DEF Completes
  <2>. QED BY <1>5, <2>1, <2>2
<1>10. ~Relaunch
    BY DEF Relaunch, AppendedWithoutStep
<1>11. CASE EndJob \/ Crash
  <2>1. run'.phase = "none" /\ task' = task /\ attempts' = attempts
      BY <1>11 DEF EndJob, Crash, NoRun, store
  <2>2. Completes' => Completes
      BY <2>1 DEF Completes, LinksInv
  <2>. QED BY <1>5, <2>1, <2>2
<1>12. CASE AnswerRequest /\ ~InFlight
  <2>1. run'.phase = "submitted" /\ task'.status = run.next
      BY <1>1, <1>12, AnswerIs DEF InFlight, Submitted, NoRun
  <2>2. run.next \in Unfinished
      BY <1>1, <1>12 DEF AnswerRequest, MemoryInv, NextInv
  <2>. QED BY <1>4, <2>1, <2>2 DEF Completes, Unfinished
<1>13. CASE Restart
  <2>1. /\ task' = task /\ attempts' = attempts
        /\ \/ run' = run /\ run.phase = "none"
           \/ run'.phase = "submitted" /\ task.status \in Unfinished
      BY <1>1, <1>13 DEF Restart, MemoryInv, store, Submitted, NoRun
  <2>2. Completes' => Completes
      BY <2>1 DEF Completes
  <2>. QED BY <1>5, <2>1, <2>2 DEF Unfinished
<1>. QED BY <1>6, <1>7, <1>8, <1>9, <1>10, <1>11, <1>12, <1>13 DEF StageStep

\* No step loses a link of a page recorded: it is queued, in hand, done, seen
\* or named by the run.
LEMMA LinksKept ==
    ASSUME IInv, Kind = "crawl", LinksInv, [Next]_vars
    PROVE  LinksInv'
<1>1. ASSUME NEW w \in Workers, NEW o \in Outcomes, Answer(w, o) PROVE LinksInv'
    BY <1>1, AnswerLinks
<1>2. CASE StageStep
    BY <1>2, DecideLinks, StageLinks
<1>. QED
  BY <1>1, <1>2, CrawlKinds, StaysLinks, LookLinks, TakeLinks, RecordLinks, SettleLinks, OpenLinks

(* A crawl that completes with no budget cut has answered, in its last        *)
(* attempt, for its seed, for every page it ever read and for every link of   *)
(* those within the depth: none was lost between two workers, when the last   *)
(* of them left, or over a restart.                                          *)
THEOREM LinkSafety == Spec => []CrawlLeavesNoLink
<1>1. Init /\ Kind = "crawl" => LinksInv
    BY EmptySeq DEF Init, LinksInv, Submitted, NoRun, Completes, Owed
<1>2. IInv /\ Kind = "crawl" /\ LinksInv /\ [Next]_vars => LinksInv'
    BY LinksKept
<1>3. IInv /\ (Kind = "crawl" => LinksInv) => CrawlLeavesNoLink
  <2>. SUFFICES ASSUME IInv, Kind = "crawl", LinksInv, CompletedInFull
                PROVE  LET last == {KeyOf[steps[i].url] : i \in {j \in DOMAIN steps : steps[j].attempt = Latest}}
                           owed(s) == {s.url} \cup (IF s.depth < MaxDepth THEN ToSet(Links[s.url]) ELSE {})
                       IN  /\ KeyOf[Given[1]] \in last
                           /\ \A s \in ToSet(ContentSteps) : {KeyOf[u] : u \in owed(s)} \subseteq last
      BY DEF CrawlLeavesNoLink
  <2>1. DoneKeys = {KeyOf[steps[i].url] : i \in {j \in DOMAIN steps : steps[j].attempt = Latest}}
      BY DEF DoneKeys, DoneSteps
  <2>2. /\ KeyOf[Given[1]] \in DoneKeys
        /\ \A i \in DOMAIN steps : steps[i].content => Owed(steps[i]) \subseteq DoneKeys
      BY DEF LinksInv, Completes, CompletedInFull, AtRest, InFlight
  <2>3. \A s \in ToSet(ContentSteps) : \E i \in DOMAIN steps : s = steps[i] /\ steps[i].content
      BY ContentStepsAre DEF IInv
  <2>4. \A s : {KeyOf[u] : u \in {s.url} \cup (IF s.depth < MaxDepth THEN ToSet(Links[s.url]) ELSE {})}
                 = Owed(s)
      BY DEF Owed
  <2>. QED BY <2>1, <2>2, <2>3, <2>4
<1>4. CASE Kind = "crawl"
  <2>1. Init => LinksInv
      BY <1>1, <1>4
  <2>2. IInv /\ LinksInv /\ [Next]_vars => LinksInv'
      BY <1>2, <1>4
  <2>3. IInv /\ LinksInv => CrawlLeavesNoLink
      BY <1>3
  <2>. QED BY <2>1, <2>2, <2>3, Invariance, PTL DEF Spec
<1>5. CASE Kind # "crawl"
  <2>1. IInv => CrawlLeavesNoLink
      BY <1>5, <1>3
  <2>. QED BY <2>1, Invariance, PTL
<1>. QED BY <1>4, <1>5
=============================================================================
