------------------------------- MODULE Ladder -------------------------------
(***************************************************************************)
(* LadderRunner.run (ladder.ts): one URL is tried rung by rung, the local   *)
(* rungs first and the vendors after them, until a rung's answer is good    *)
(* enough. Which page is the answer when rungs disagree, are cut short by   *)
(* the caller's deadline or need a person is what the module is about. The  *)
(* runs of a behaviour are of one host, one after the other, and share the  *)
(* history of its vendors (vendorRouter.ts) and its saved session           *)
(* (sessionStore.ts).                                                       *)
(*                                                                         *)
(* The clients: the API (deadlines, cancellation, waits, robots overrides;  *)
(* a read-only session store and nobody at the screen) and the command line *)
(* (none of these, a store that is written and perhaps a person). A page is *)
(* its size; a result is a record of what the run asks about it.            *)
(***************************************************************************)
EXTENDS Integers, Sequences, FiniteSets, SequencesExt

CONSTANTS
    Vendors,   \* vendors with a rung, in declaration order
    Modes,     \* CrawlMode
    MaxSize,   \* content sizes are 0..MaxSize
    MaxRuns,
    None

ASSUME LadderAssumption ==
    /\ Modes \subseteq {"standard", "research", "authed"}
    /\ {MaxSize, MaxRuns} \subseteq Nat
    \* Each vendor has one rung (ladderCli.ts:462-468).
    /\ Vendors \in Seq(Range(Vendors)) /\ IsInjective(Vendors)
    /\ Range(Vendors) \cap {"http", "browser_local", "authed_session", None} = {}
    /\ None \notin {"http", "browser_local", "authed_session"}

VARIABLES
    setting,   \* client, mode and whether a person is there: fixed
    phase,
    runs,      \* runs begun
    run,       \* what the run was begun with
    rungs,     \* rungs left, the current one first
    attempts,  \* results so far, in order
    best,      \* attempt kept as the best page, 0 for none
    overrode,  \* a local rung set a robots rule aside
    answer,    \* attempt the run answers with, and as what
    history,   \* the host's last vendor, and the vendors broken when last used
    saved      \* the session kept for the host

vars == << setting, phase, runs, run, rungs, attempts, best, overrode, answer,
           history, saved >>

VendorRungs == Range(Vendors)
Rungs == {"http", "browser_local", "authed_session"} \cup VendorRungs

(* -------------------------------- results ------------------------------- *)

\* A failure without a class: a timeout, a refusal, a connection error.
Failure == [is |-> "failed", size |-> 0, thin |-> FALSE, clean |-> TRUE, cls |-> "none",
            asked |-> FALSE, evidence |-> FALSE, later |-> FALSE, door |-> FALSE,
            login |-> FALSE, resume |-> FALSE]
Page(n) == [Failure EXCEPT !.is = "page", !.size = n]
Block(class) == [Failure EXCEPT !.is = "blocked", !.cls = class]

\* No main content found: the whole page is kept as evidence.
Evidence == [Failure EXCEPT !.evidence = TRUE]
RateLimit == [Block("rate") EXCEPT !.later = TRUE]

HttpResults ==
    {Page(n) : n \in 0..MaxSize} \cup {[Page(n) EXCEPT !.thin = TRUE] : n \in 0..MaxSize}
      \cup {Block("gate"), RateLimit, Failure, [Evidence EXCEPT !.asked = TRUE]}
\* A page under an identity the wire contradicts is not converted here.
BrowserResults ==
    {Page(n) : n \in 0..MaxSize}
      \cup {[Page(MaxSize) EXCEPT !.clean = FALSE], Block("gate"), RateLimit, Failure, Evidence}
\* The site sends an expired login to its login page, or refuses it outright.
LoginResults == BrowserResults \cup {[Page(MaxSize) EXCEPT !.login = TRUE], Block("login")}
NoLogin == [Failure EXCEPT !.asked = TRUE]
\* The vendor may keep what resumes its session, of a block only with a live view.
VendorPage(n, kept) == [Page(n) EXCEPT !.resume = kept]
VendorBlock(door, kept) == [Block("gate") EXCEPT !.door = door, !.resume = door /\ kept]
\* cls "vendor": provider_error, or identity_mismatch on a converted page.
VendorResults(mayResume, doors) ==
    {VendorPage(n, k) : n \in 0..MaxSize, k \in mayResume}
      \cup {VendorBlock(d, k) : d \in doors, k \in mayResume}
      \cup {Block("rate"), Failure, [Failure EXCEPT !.cls = "vendor"], Evidence}

FromAPI == setting.client = "api"
Authed == setting.mode = "authed"
\* Resume material and a live view come with the command line's vendor policy.
Optional == IF FromAPI THEN {FALSE} ELSE BOOLEAN

Results(c) ==
    CASE c = "http" -> HttpResults
      [] c = "browser_local" -> BrowserResults
      [] c = "authed_session" -> IF run.login THEN LoginResults ELSE {NoLogin}
      [] OTHER -> VendorResults(Optional, Optional)

AllResults == HttpResults \cup LoginResults \cup {NoLogin} \cup VendorResults(BOOLEAN, BOOLEAN)

\* again: of the rung a person has unblocked.
Attempt == [rung : Rungs, res : AllResults, again : BOOLEAN]

NoAnswer == [at |-> 0, as |-> "none"]
NoRun == [login |-> FALSE, wait |-> FALSE, avoid |-> None]

TypeOK ==
    /\ phase \in {"idle", "walk", "fetch", "human", "retry", "ended"}
    /\ runs \in 0..MaxRuns
    /\ run \in [login : BOOLEAN, wait : BOOLEAN, avoid : VendorRungs \cup {None}]
    /\ rungs \in Seq(Rungs)
    /\ attempts \in Seq(Attempt)
    /\ Len(attempts) <= Cardinality(Rungs) + 1
    /\ best \in 0..Len(attempts)
    /\ overrode \in BOOLEAN
    /\ answer \in [at : 0..Len(attempts),
                   as : {"none", "itself", "partial", "timeout", "compromised", "rejected",
                         "paused", "refused", "stopped"}]
    /\ history \in [last : VendorRungs \cup {None}, broken : SUBSET VendorRungs]
    /\ saved \in {"none", "login", "vendor"}

Init ==
    /\ setting \in [client : {"api", "cli"}, mode : Modes, person : BOOLEAN]
    /\ FromAPI => ~setting.person
    /\ phase = "idle" /\ runs = 0 /\ run = NoRun /\ rungs = << >> /\ attempts = << >>
    /\ best = 0 /\ overrode = FALSE /\ answer = NoAnswer
    /\ history = [last |-> None, broken |-> {}]
    /\ saved \in {"none", "login"}

(* ------------------------------- beginning ------------------------------ *)

\* mutant: the vendor that broke last goes first again
StartingVendorTop(ranked) == Head(ranked)
\* The vendor that broke last gives way to the next one down.
StartingVendor(ranked) ==
    IF history.last \in history.broken
    THEN ranked[((CHOOSE i \in DOMAIN ranked : ranked[i] = history.last) % Len(ranked)) + 1]
    ELSE Head(ranked)

OrderProviders(ranked) ==
    IF Len(Vendors) <= 1 THEN Vendors
    ELSE LET at == CHOOSE i \in DOMAIN Vendors : Vendors[i] = StartingVendor(ranked)
         IN  << StartingVendor(ranked) >> \o RemoveAt(Vendors, at)

\* The rungs the mode permits, a saved login's before the public ones, and
\* under waitFor those alone that can wait.
Ordered(login, wait, ranked) ==
    LET public == IF wait THEN << "browser_local" >> ELSE << "http", "browser_local" >>
        local == IF ~Authed THEN public
                 ELSE IF login THEN << "authed_session" >> \o public
                 ELSE public \o << "authed_session" >>
    IN  IF wait \/ setting.mode = "standard" THEN local
        ELSE local \o OrderProviders(ranked)

\* How far a vendor's median latency and cost move its score is left open: any
\* ranking.
Begin(wait, ranked) ==
    /\ phase \in {"idle", "ended"} /\ runs < MaxRuns
    /\ wait => FromAPI
    /\ LET login == Authed /\ saved = "login"
       IN  /\ run' = [login |-> login, wait |-> wait,
                      avoid |-> IF history.last \in history.broken /\ Len(Vendors) > 1
                                THEN history.last ELSE None]
           /\ rungs' = Ordered(login, wait, ranked)
    /\ phase' = "walk" /\ runs' = runs + 1
    /\ attempts' = << >> /\ best' = 0 /\ overrode' = FALSE /\ answer' = NoAnswer
    /\ UNCHANGED << setting, history, saved >>

\* A host off the allowlist.
RefuseHost ==
    /\ phase \in {"idle", "ended"} /\ runs < MaxRuns
    /\ runs' = runs + 1 /\ run' = NoRun /\ rungs' = << >>
    /\ attempts' = << >> /\ best' = 0 /\ overrode' = FALSE
    /\ phase' = "ended" /\ answer' = [at |-> 0, as |-> "refused"]
    /\ UNCHANGED << setting, history, saved >>

(* -------------------------------- walking ------------------------------- *)

\* mutant: any rung is tried after an override
BarredNever(c) == FALSE
\* An override is for the local rungs.
Barred(c) == c \in VendorRungs /\ overrode

SkippedStays == rungs  \* mutant: a skipped rung is looked at again
Skipped == Tail(rungs)

SkipVendor ==
    /\ phase = "walk" /\ rungs # << >> /\ Barred(Head(rungs))
    /\ rungs' = Skipped
    /\ UNCHANGED << setting, phase, runs, run, attempts, best, overrode, answer, history, saved >>

\* onRobotsOverride runs before the rung's request goes out.
Fetch(sets) ==
    /\ phase = "walk" /\ rungs # << >> /\ ~Barred(Head(rungs))
    /\ sets => FromAPI /\ Head(rungs) \in {"http", "browser_local"}
    /\ overrode' = (overrode \/ sets)
    /\ phase' = "fetch"
    /\ UNCHANGED << setting, runs, run, rungs, attempts, best, answer, history, saved >>

\* A rung has returned: what the attempts are with its result.
With(o) == Append(attempts, [rung |-> Head(rungs), res |-> o, again |-> phase = "retry"])
HereNext == Len(attempts) + 2  \* mutant: an attempt is numbered one too far
Here == Len(attempts) + 1

Answer(at, as) == phase' = "ended" /\ answer' = [at |-> at, as |-> as]
Left == Tail(rungs)
GoOn == phase' = "walk" /\ rungs' = Left /\ UNCHANGED answer

\* noMainContentEvidence: the latest attempt that kept its page.
LatestEvidence(tried) == Max({0} \cup {i \in DOMAIN tried : tried[i].res.evidence})

\* failedAnswer: a failure without a page does not erase such a page.
FailedAnswer(tried) ==
    LET o == Last(tried).res
    IN  IF o.is = "failed" /\ ~o.evidence /\ o.cls = "none" /\ LatestEvidence(tried) # 0
        THEN LatestEvidence(tried) ELSE Len(tried)

\* The run is over: the page kept, else what the last rung said of it.
Conclude(tried, kept) ==
    IF kept # 0 THEN Answer(kept, "itself")
    ELSE LET at == FailedAnswer(tried)
         IN  Answer(at, IF tried[at].res.clean THEN "itself" ELSE "compromised")

Exhausted ==
    /\ phase = "walk" /\ rungs = << >>
    /\ Conclude(attempts, best)
    /\ UNCHANGED << setting, runs, run, rungs, attempts, best, overrode, history, saved >>

(* ---------------------------- a rung returns ---------------------------- *)

\* What the rung at work may come back with.
Offered == IF phase \in {"fetch", "retry"} THEN Results(Head(rungs)) ELSE {}

Returns(o) ==
    /\ phase = "fetch" /\ o \in Offered
    /\ attempts' = With(o)
    /\ UNCHANGED << setting, runs, run, overrode >>

\* The site asks to wait: the fetch's own retries have used up the time.
ReturnLater(o) ==
    /\ Returns(o) /\ o.later
    /\ Answer(Here, "itself")
    /\ UNCHANGED << rungs, best, history, saved >>

\* sessionRejection: the saved login is refused.
Rejects(o) == Head(rungs) = "authed_session" /\ (o.login \/ o.cls = "login")

ReturnRejected(o) ==
    /\ Returns(o) /\ ~o.later /\ Rejects(o)
    /\ Answer(Here, "rejected")
    /\ UNCHANGED << rungs, best, history, saved >>

Judged(o) == ~o.later /\ ~Rejects(o)

\* recordVendorOutcome.
Recorded(o) ==
    LET v == Head(rungs)
    IN  history' = IF v \notin VendorRungs THEN history
                   ELSE [last |-> v,
                         broken |-> IF o.cls = "vendor" THEN history.broken \cup {v}
                                    ELSE history.broken \ {v}]

BestSize == IF best = 0 THEN -1 ELSE attempts[best].res.size
\* mutant: a later page of the same size is taken for a better one
ImprovesOrEquals(o) == o.clean /\ o.size >= BestSize
Improves(o) == o.clean /\ o.size > BestSize
Worse(o) == o.clean /\ best # 0 /\ o.size <= BestSize
\* A second rung repeats an answer without content.
EmptyConfirmed(o) == ~o.thin /\ Worse(o) /\ BestSize = 0
Accepted(o) == ~o.thin /\ o.clean /\ ~Worse(o)

ReturnPage(o) ==
    /\ Returns(o) /\ Judged(o) /\ o.is = "page"
    /\ Recorded(o)
    /\ best' = IF Improves(o) THEN Here ELSE best
    /\ saved' = IF o.resume THEN "vendor" ELSE saved
    /\ \/ Accepted(o) /\ Answer(Here, "itself") /\ UNCHANGED rungs
       \/ EmptyConfirmed(o) /\ Conclude(With(o), best) /\ UNCHANGED rungs
       \/ ~Accepted(o) /\ ~EmptyConfirmed(o) /\ GoOn

\* A block gives up an answer without content.
Kept(o) == IF o.is = "blocked" /\ BestSize = 0 THEN 0 ELSE best

ReturnNoPage(o) ==
    /\ Returns(o) /\ Judged(o) /\ o.is # "page"
    /\ Recorded(o)
    /\ best' = Kept(o)

\* attemptHandoff: who is asked finds the blocked session saved.
ReturnDoor(o) ==
    /\ ReturnNoPage(o) /\ o.door /\ Authed
    /\ saved' = IF o.resume THEN "vendor" ELSE saved
    /\ IF setting.person THEN phase' = "human" /\ UNCHANGED answer
       ELSE Answer(IF Kept(o) # 0 THEN Kept(o) ELSE Here, "paused")
    /\ UNCHANGED rungs

\* A failure, or a rate limit, that no other rung answers.
Stops(o) == ~o.asked /\ o.cls \in {"none", "rate"}

ReturnStop(o) ==
    /\ ReturnNoPage(o) /\ ~o.door /\ Stops(o)
    /\ Conclude(With(o), Kept(o))
    /\ UNCHANGED << rungs, saved >>

ReturnNext(o) ==
    /\ ReturnNoPage(o)
    /\ IF o.door THEN ~Authed ELSE ~Stops(o)
    /\ GoOn /\ UNCHANGED saved

(* ----------------------- deadlines and cancellation --------------------- *)

\* deadlineOutcome reads the attempts again, those of the rung cut short too.
LateBest(tried) ==
    LET keep[i \in 0..Len(tried)] ==
          IF i = 0 THEN 0
          ELSE LET o == tried[i].res
                   size(j) == IF j = 0 THEN -1 ELSE tried[j].res.size
                   k == IF o.is = "blocked" /\ size(keep[i - 1]) = 0 THEN 0 ELSE keep[i - 1]
               IN  IF o.is = "page" /\ o.clean /\ o.size > size(k) THEN i ELSE k
    IN  keep[Len(tried)]

DeadlineOutcome(tried) ==
    IF LateBest(tried) # 0 THEN Answer(LateBest(tried), "partial")
    ELSE Answer(LatestEvidence(tried), "timeout")

Deadline ==
    /\ FromAPI /\ phase \in {"walk", "fetch"}
    /\ DeadlineOutcome(attempts)
    /\ UNCHANGED << setting, runs, run, rungs, attempts, best, overrode, history, saved >>

\* The deadline cuts a rung that still returns: a timeout, the page as it was
\* when its wait was cut short, or as much of a file as was read.
ReturnLate(o) ==
    /\ Returns(o) /\ FromAPI
    /\ \/ o = Failure
       \/ o.is = "page" /\ ~o.thin /\ (run.wait \/ Head(rungs) = "http")
    /\ DeadlineOutcome(With(o))
    /\ UNCHANGED << rungs, best, history, saved >>

Cancel ==
    /\ FromAPI /\ phase \in {"walk", "fetch"}
    /\ Answer(0, "stopped")
    /\ UNCHANGED << setting, runs, run, rungs, attempts, best, overrode, history, saved >>

(* ------------------------------- the person ----------------------------- *)

\* Enter is pressed: the stored session is what the person produced.
TakeOver ==
    /\ phase = "human"
    /\ IF saved = "none" THEN Answer(IF best # 0 THEN best ELSE Len(attempts), "paused")
       ELSE phase' = "retry" /\ UNCHANGED answer
    /\ UNCHANGED << setting, runs, run, rungs, attempts, best, overrode, history, saved >>

\* One retry, on the rung the person unblocked; it is not judged again.
Retried(o) ==
    /\ phase = "retry" /\ o \in Offered
    /\ attempts' = With(o)
    /\ Answer(IF o.is = "page" \/ best = 0 THEN Here ELSE best, "itself")
    /\ UNCHANGED << setting, runs, run, rungs, best, overrode, history, saved >>

(* ----------------------------- specification ---------------------------- *)

Step ==
    \/ SkipVendor \/ Exhausted
    \/ \E sets \in BOOLEAN : Fetch(sets)
    \/ \E o \in Offered :
         \/ ReturnLater(o) \/ ReturnRejected(o) \/ ReturnPage(o) \/ ReturnDoor(o)
         \/ ReturnStop(o) \/ ReturnNext(o) \/ ReturnLate(o) \/ Retried(o)

Next ==
    \/ Step \/ Deadline \/ Cancel \/ TakeOver \/ RefuseHost
    \/ \E wait \in BOOLEAN, ranked \in SetToSeqs(VendorRungs) : Begin(wait, ranked)

Spec == Init /\ [][Next]_vars

\* Every rung bounds its own fetch. Nothing says that a person answers, that a
\* caller cancels or that its deadline comes.
FairSpec == Spec /\ WF_vars(Step)

(* ------------------------------- properties ----------------------------- *)

Ended == phase = "ended" /\ answer.as \notin {"refused", "stopped"}

\* A page that still stands at attempt i: clean, and not an empty one that a
\* later rung found blocked.
Stands(i) ==
    LET o == attempts[i].res
    IN  /\ o.is = "page" /\ o.clean
        /\ ~(o.size = 0 /\ \E j \in DOMAIN attempts : j > i /\ attempts[j].res.is = "blocked")
\* Where the last word is the last rung's, whatever stands: a wait the site
\* asks for, a login it refuses, a page read after a person's help.
LastWord ==
    LET l == Last(attempts)
    IN  \/ l.res.later /\ ~l.again
        \/ answer.as = "rejected"
        \/ l.again /\ l.res.is = "page"

\* But where the last rung has the last word, the answer is the first of the
\* largest pages that still stand, whether the rungs ran out or the deadline
\* cut the run, and without one the latest page kept as evidence when all there
\* is besides is a failure; a page under a contradicted identity is never the
\* answer's content (ladder.ts:463-672, deadlineOutcome).
BestPageIsKept ==
    Ended /\ attempts # << >> /\ ~LastWord =>
      LET pages == {i \in DOMAIN attempts : Stands(i)}
          o == attempts[answer.at].res
      IN  IF pages # {}
          THEN /\ answer.at \in pages
               /\ \A i \in pages : \/ attempts[i].res.size < o.size
                                   \/ attempts[i].res.size = o.size /\ i >= answer.at
          ELSE IF answer.at = 0 THEN LatestEvidence(attempts) = 0
          ELSE /\ o.is = "page" => answer.as = "compromised"
               /\ /\ o.is = "failed" /\ o.cls = "none" /\ ~o.evidence
                  /\ ~Last(attempts).again
                  => LatestEvidence(attempts) = 0

\* Login state and a person's help belong to authed runs; nothing is tried
\* after a refused login; once an override is recorded no vendor is; the
\* vendor that broke last is not the first one of the next run; a person is
\* asked for one retry (ladder.ts:337-387, :409-419, :446-450).
RungsAsPermitted ==
    /\ ~Authed => \A i \in DOMAIN attempts :
                    attempts[i].rung # "authed_session" /\ ~attempts[i].again
    /\ overrode => \A i \in DOMAIN attempts : attempts[i].rung \notin VendorRungs
    /\ \A i \in DOMAIN attempts :
         LET a == attempts[i]
         IN  /\ run.login /\ (a.res.login \/ a.res.cls = "login") => i = Len(attempts)
             /\ a.again => i = Len(attempts)
             /\ a.rung = run.avoid =>
                  \E j \in 1..(i - 1) : attempts[j].rung \in VendorRungs \ {run.avoid}

\* A run that is walking or fetching ends, or waits for a person
\* (ladder.ts:409-672).
RunEnds == phase \in {"walk", "fetch", "retry"} ~> phase \in {"ended", "human"}

\* sessionRejection: the site's login page is not the page asked for, so it is
\* never answered as its content (ladder.ts:1058-1059).
LoginPageIsNotContent ==
    Ended /\ answer.at # 0 /\ attempts[answer.at].res.login => answer.as = "rejected"
=============================================================================
