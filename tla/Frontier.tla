------------------------------- MODULE Frontier -------------------------------
(***************************************************************************)
(* The crawl frontier of packages/runtime/src/frontier.ts: the in-memory   *)
(* queue of pages one attempt of a crawl or batch still has to fetch, the  *)
(* URLs it has seen, and the politeness each host is owed.                 *)
(*                                                                         *)
(* The frontier is a value here (the field of a run in module Crawl), and  *)
(* each method of the class is an operator from that value to the next     *)
(* one.  What a page links to, after the scope, subtree, asset and path    *)
(* filters have refused what they refuse, is the constant Links; the URL   *)
(* forms a crawl takes for one page share a visit key, KeyOf.              *)
(***************************************************************************)
EXTENDS Integers, Sequences, FiniteSets, SequencesExt, FiniteSetsExt

CONSTANTS
  Urls,               \* canonical URLs
  Hosts,              \* the hosts they are on
  HostOf,             \* [Urls -> Hosts]
  KeyOf,              \* [Urls -> visit keys]: equal for the variants of one page
  Links,              \* [Urls -> Seq(Urls)]: the links a page offers, in order
  MaxDepth,           \* the deepest page followed, in link hops
  PerHostConcurrency, \* pages at once on a host whose robots.txt is known
  PerHostMinDelay,    \* the least time between two starts on a host
  None                \* no value yet

ASSUME FrontierAssumption ==
  /\ HostOf \in [Urls -> Hosts]
  /\ DOMAIN KeyOf = Urls
  /\ DOMAIN Links = Urls
  /\ \A u \in Urls : Links[u] \in Seq(Urls)
  /\ MaxDepth \in Nat
  /\ PerHostConcurrency \in Nat \ {0}
  /\ PerHostMinDelay \in Nat
  /\ None \notin Nat \cup [url : Urls, depth : 0 .. MaxDepth]

Keys == {KeyOf[u] : u \in Urls}
Item == [url : Urls, depth : 0 .. MaxDepth]

EmptyFrontier ==
  [pending     |-> << >>,
   visited     |-> {},
   robotsKnown |-> {},
   delay       |-> [h \in Hosts |-> 0],
   lastStart   |-> [h \in Hosts |-> None]]

\* The rows of a sequence that are in good, in their order.
Kept(rows, good) ==
  FoldLeft(LAMBDA kept, row : IF row \in good THEN Append(kept, row) ELSE kept, << >>, rows)

Frontiers ==
  [pending     : Seq(Item),
   visited     : SUBSET Keys,
   robotsKnown : SUBSET Hosts,
   delay       : [Hosts -> Nat],
   lastStart   : [Hosts -> Nat \cup {None}]]

-----------------------------------------------------------------------------
(* Filling it.                                                             *)

\* Mutants: links followed beyond the depth; a page queued again each time.
OfferAnyDepth(f, u, depth) ==
  IF KeyOf[u] \in f.visited
  THEN f
  ELSE [f EXCEPT !.visited = @ \cup {KeyOf[u]},
                 !.pending = Append(@, [url |-> u, depth |-> depth])]
OfferAgain(f, u, depth) ==
  IF depth > MaxDepth
  THEN f
  ELSE [f EXCEPT !.visited = @ \cup {KeyOf[u]},
                 !.pending = Append(@, [url |-> u, depth |-> depth])]

Offer(f, u, depth) ==
  IF depth > MaxDepth \/ KeyOf[u] \in f.visited
  THEN f
  ELSE [f EXCEPT !.visited = @ \cup {KeyOf[u]},
                 !.pending = Append(@, [url |-> u, depth |-> depth])]

OfferAll(f, urls, depth) ==
  FoldLeft(LAMBDA g, u : Offer(g, u, depth), f, urls)

MarkVisited(f, u) == [f EXCEPT !.visited = @ \cup {KeyOf[u]}]

\* A batch's URLs: one that is fetched already is only remembered.
SeedBatchUrls(f, urls, fetched) ==
  FoldLeft(LAMBDA g, u : IF u \in fetched THEN MarkVisited(g, u) ELSE Offer(g, u, 0), f, urls)

-----------------------------------------------------------------------------
(* Politeness.                                                             *)

HostDelay(f, h) == Max({PerHostMinDelay, f.delay[h]})

\* Mutant: the last page answered has its way, also one that tells no delay.
SetCrawlDelayLast(f, h, delay) ==
  [f EXCEPT !.robotsKnown = @ \cup {h}, !.delay[h] = delay]

\* A page on h was answered, with the Crawl-delay of robots.txt or with none (0):
\* the strictest delay seen holds.
SetCrawlDelay(f, h, delay) ==
  [f EXCEPT !.robotsKnown = @ \cup {h}, !.delay[h] = Max({@, delay})]

HasSlot(f, h, inFlight) ==
  inFlight[h] < IF h \in f.robotsKnown THEN PerHostConcurrency ELSE 1

ReadyAt(f, h) ==
  IF f.lastStart[h] = None THEN 0 ELSE f.lastStart[h] + HostDelay(f, h)

-----------------------------------------------------------------------------
(* The next page: the first one queued whose host has a slot and whose     *)
(* delay has passed.  The pages in front of it that are not admitted (the  *)
(* page budget) are dropped on the way.  When there is none, nextReadyAt   *)
(* is the time the first delay ends, if a delay is all that is missing.    *)

Dequeue(f, now, inFlight, admitted) ==
  LET n           == Len(f.pending)
      host(i)     == HostOf[f.pending[i].url]
      isAdmitted(item) == item.url \in admitted
      hasSlot(i)  == isAdmitted(f.pending[i]) /\ HasSlot(f, host(i), inFlight)
      startable   == {i \in 1 .. n : hasSlot(i) /\ ReadyAt(f, host(i)) <= now}
      first       == Min(startable \cup {n + 1})
      passed      == SubSeq(f.pending, 1, first - 1)
      kept        == Kept(passed, {item \in ToSet(passed) : isAdmitted(item)})
      delayed     == {ReadyAt(f, host(i)) : i \in {j \in 1 .. n : hasSlot(j)}}
      left        == [f EXCEPT !.pending = kept \o SubSeq(f.pending, first + 1, n)]
  IN  [item        |-> IF startable = {} THEN None ELSE f.pending[first],
       refused     |-> \E i \in 1 .. first - 1 : ~isAdmitted(f.pending[i]),
       nextReadyAt |-> IF startable # {} \/ delayed = {} THEN None ELSE Min(delayed),
       frontier    |-> IF startable = {} THEN left
                       ELSE [left EXCEPT !.lastStart[host(first)] = now]]
=============================================================================
