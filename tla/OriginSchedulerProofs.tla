-------------------------- MODULE OriginSchedulerProofs --------------------------
(* Proofs about OriginScheduler, for every value of its constants.          *)
EXTENDS OriginScheduler, FiniteSetTheorems, SequenceTheorems, TLAPS

(* The properties, as predicates of an origin and its fetches: what a       *)
(* method leaves before it calls pump is no state of the specification.     *)
HoldersOf(fs) == {f \in Fetches : fs[f].permit}

Counted(o, fs) ==
  /\ o.active = Cardinality(HoldersOf(fs))
  /\ o.active <= Limit
  /\ \A f \in Fetches : fs[f].permit => fs[f].pc \in {"ready", "sleeping", "requesting"}
  /\ \A f \in Fetches :
       fs[f].pc = "waiting" <=> \E i \in 1 .. Len(o.waiters) : o.waiters[i] = f
  /\ \A i, j \in 1 .. Len(o.waiters) : o.waiters[i] = o.waiters[j] => i = j

Woken(o) ==
  o.waiters # << >> =>
    o.active = Limit \/ (o.timer # NoTimer /\ o.timer <= Longer(1, StartWait(o)))

Typed(o, fs) == o \in OriginState /\ fs \in [Fetches -> FetchState]

IInv == Typed(origin, fetch) /\ Counted(origin, fetch) /\ Woken(origin)

\* An origin may always have a request.
LEMMA LimitType == Limit \in Nat \ {0}
BY SchedulerAssumption DEF Limit, Shorter

-----------------------------------------------------------------------------
(* What pump gives is within the permits and the queue.                     *)

\* pump grants no more permits than it has waiters and slots for.
LEMMA GrantsBound ==
  ASSUME NEW o \in OriginState, o.active <= Limit
  PROVE  /\ Grants(o) \in Nat
         /\ Grants(o) <= Len(o.waiters)
         /\ o.active + Grants(o) <= Limit
<1>1. /\ o.active \in Nat /\ o.startGap \in Nat /\ o.cooldown \in Nat
      /\ Len(o.waiters) \in Nat
  BY DEF OriginState
<1> DEFINE n == Len(o.waiters)
<1>2. n \in Nat
  BY <1>1
<1> HIDE DEF n
<1>3. Grants(o) = IF o.active >= Limit \/ StartWait(o) > 0 THEN 0
                  ELSE Shorter(IF PerHostMinDelay = 0 THEN Limit - o.active ELSE 1, n)
  BY DEF Grants, n
<1>4. /\ Grants(o) \in Nat /\ Grants(o) <= n /\ o.active + Grants(o) <= Limit
  BY <1>1, <1>2, <1>3, LimitType DEF Shorter
<1> QED
  BY <1>4 DEF n

(* Every waiter that is admitted is one more holder.                        *)
LEMMA AdmittedHolders ==
  ASSUME NEW o, NEW fs, Typed(o, fs), Counted(o, fs)
  PROVE  /\ HoldersOf(Admit(fs, Granted(o))) = HoldersOf(fs) \cup Granted(o)
         /\ Cardinality(HoldersOf(fs) \cup Granted(o)) = o.active + Grants(o)
<1> DEFINE n == Grants(o)
           G == Granted(o)
           H == HoldersOf(fs)
<1>1. n \in Nat /\ n <= Len(o.waiters)
  BY GrantsBound DEF Typed, Counted
<1>2. o.waiters \in Seq(Fetches) /\ Len(o.waiters) \in Nat
  BY DEF Typed, OriginState
<1>3. \A i \in 1 .. n : i \in 1 .. Len(o.waiters) /\ o.waiters[i] \in Fetches
  BY <1>1, <1>2
<1>4. G \subseteq Fetches
  BY <1>3 DEF Granted
<1>5. H \subseteq Fetches /\ IsFiniteSet(H)
  <2>1. H \subseteq Fetches
    BY DEF HoldersOf
  <2> QED
    BY <2>1, SchedulerAssumption, FS_Subset
<1>6. IsFiniteSet(G)
  BY <1>4, SchedulerAssumption, FS_Subset
<1>7. \A f \in G : fs[f].pc = "waiting"
  BY <1>3 DEF Granted, Counted
<1>8. H \cap G = {}
  BY <1>4, <1>7 DEF Counted, HoldersOf
<1>9. Cardinality(G) = n
  <2> DEFINE turn == [i \in 1 .. n |-> o.waiters[i]]
  <2>1. turn \in [1 .. n -> G]
    BY DEF Granted
  <2>2. \A i, j \in 1 .. n : turn[i] = turn[j] => i = j
    BY <1>3 DEF Counted
  <2>3. \A f \in G : \E i \in 1 .. n : turn[i] = f
    BY DEF Granted
  <2>4. turn \in Bijection(1 .. n, G)
    BY <2>1, <2>2, <2>3 DEF Bijection, Injection, Surjection, IsInjective
  <2>5. ExistsBijection(1 .. n, G)
    BY <2>4 DEF ExistsBijection
  <2> QED
    BY <1>1, <2>5, FS_CountingElements
<1>10. Cardinality(H \cup G) = o.active + n
  <2>1. Cardinality(H \cup G) = Cardinality(H) + Cardinality(G) - Cardinality(H \cap G)
    BY <1>5, <1>6, FS_Union
  <2>2. Cardinality(H \cap G) = 0
    BY <1>8, FS_EmptySet
  <2>3. o.active = Cardinality(H) /\ o.active \in Nat
    BY DEF Counted, Typed, OriginState
  <2> QED
    BY <1>1, <1>9, <2>1, <2>2, <2>3
<1>11. HoldersOf(Admit(fs, G)) = H \cup G
  BY <1>4 DEF HoldersOf, Admit, AtRest
<1> QED
  BY <1>10, <1>11

(* An origin with other permits, waiters and spacing is an origin.          *)
Changed(o, a, w, g) == [o EXCEPT !.active = a, !.waiters = w, !.startGap = g]

\* The fields of a changed origin.
LEMMA OriginChanged ==
  ASSUME NEW o \in OriginState, NEW a \in Nat, NEW w \in Seq(Fetches), NEW g \in Nat
  PROVE  /\ Changed(o, a, w, g) \in OriginState
         /\ Changed(o, a, w, g).active = a
         /\ Changed(o, a, w, g).waiters = w
BY DEF OriginState, Changed

(* pump keeps the permits counted and the queue in step with the fetches,   *)
(* and leaves no waiter without someone to wake it.                         *)
LEMMA PumpKeeps ==
  ASSUME NEW o, NEW fs, Typed(o, fs), Counted(o, fs)
  PROVE  /\ Typed(Pumped(o), Admit(fs, Granted(o)))
         /\ Counted(Pumped(o), Admit(fs, Granted(o)))
         /\ Woken(Pumped(o))
<1> DEFINE n == Grants(o)
           left == SubSeq(o.waiters, n + 1, Len(o.waiters))
           gap == IF n > 0 THEN PerHostMinDelay ELSE o.startGap
           after == Changed(o, o.active + n, left, gap)
           gs == Admit(fs, Granted(o))
<1>1. n \in Nat /\ n <= Len(o.waiters) /\ o.active + n <= Limit
  BY GrantsBound DEF Typed, Counted
<1>2. o.waiters \in Seq(Fetches) /\ Len(o.waiters) \in Nat
  BY DEF Typed, OriginState
<1>3. /\ left \in Seq(Fetches)
      /\ Len(left) = Len(o.waiters) - n
      /\ \A i \in 1 .. Len(left) : left[i] = o.waiters[i + n]
  BY <1>1, <1>2
<1>4. Pumped(o) = [after EXCEPT !.timer = NextTimer(after)]
  BY DEF Pumped, Changed
<1> HIDE DEF n, left
<1>5. /\ after \in OriginState
      /\ after.active = o.active + n /\ after.waiters = left
  <2>1. o.active \in Nat /\ o.startGap \in Nat /\ o \in OriginState
    BY DEF Typed, OriginState
  <2>2. o.active + n \in Nat /\ gap \in Nat
    BY <1>1, <2>1, SchedulerAssumption
  <2> HIDE DEF gap
  <2> QED
    <3> DEFINE act == o.active + n
    <3>2. act \in Nat /\ left \in Seq(Fetches) /\ gap \in Nat
      BY <1>3, <2>2
    <3> HIDE DEF act
    <3>1. o \in OriginState
      BY <2>1
    <3>3. Changed(o, act, left, gap) \in OriginState
      BY <3>1, <3>2, OriginChanged
    <3>4. Changed(o, act, left, gap).active = act
      BY <3>1, <3>2, OriginChanged
    <3>5. Changed(o, act, left, gap).waiters = left
      BY <3>1, <3>2, OriginChanged
    <3> QED
      BY <3>3, <3>4, <3>5 DEF act
<1>6. StartWait(after) \in Nat
  BY <1>5 DEF StartWait, Longer, OriginState
<1> HIDE DEF after
<1>7. NextTimer(after) \in Nat \cup {NoTimer}
  BY <1>6 DEF NextTimer, TimerOf
<1>8. /\ Pumped(o) \in OriginState
      /\ Pumped(o).active = o.active + n
      /\ Pumped(o).waiters = left
      /\ Pumped(o).timer = NextTimer(after)
      /\ StartWait(Pumped(o)) = StartWait(after)
  BY <1>4, <1>5, <1>7 DEF OriginState, StartWait
<1>9. gs \in [Fetches -> FetchState]
  BY DEF Admit, AtRest, FetchState, Typed
<1>10. Typed(Pumped(o), gs)
  BY <1>8, <1>9 DEF Typed
<1>11. Counted(Pumped(o), gs)
  <2>1. Pumped(o).active = Cardinality(HoldersOf(gs))
    BY <1>8, AdmittedHolders DEF n
  <2>2. Pumped(o).active <= Limit
    BY <1>1, <1>8
  <2>3. \A f \in Fetches : gs[f].permit => gs[f].pc \in {"ready", "sleeping", "requesting"}
    BY DEF Admit, AtRest, Counted
  <2>4. ASSUME NEW f \in Fetches
        PROVE  gs[f].pc = "waiting" <=> \E i \in 1 .. Len(left) : left[i] = f
    <3>1. gs[f].pc = "waiting" <=> fs[f].pc = "waiting" /\ f \notin Granted(o)
      BY DEF Admit, AtRest
    <3>2. fs[f].pc = "waiting" <=> \E i \in 1 .. Len(o.waiters) : o.waiters[i] = f
      BY DEF Counted
    <3>3. f \in Granted(o) <=> \E i \in 1 .. n : o.waiters[i] = f
      BY DEF Granted, n
    <3>4. ASSUME gs[f].pc = "waiting" PROVE \E i \in 1 .. Len(left) : left[i] = f
      <4>1. PICK i \in 1 .. Len(o.waiters) : o.waiters[i] = f
        BY <3>1, <3>2, <3>4
      <4>2. i \notin 1 .. n
        BY <3>1, <3>3, <3>4, <4>1
      <4>3. i - n \in 1 .. Len(left) /\ left[i - n] = o.waiters[(i - n) + n]
        BY <1>1, <1>2, <1>3, <4>1, <4>2
      <4> QED
        BY <1>1, <4>1, <4>3
    <3>5. ASSUME \E i \in 1 .. Len(left) : left[i] = f PROVE gs[f].pc = "waiting"
      <4>1. PICK i \in 1 .. Len(left) : left[i] = f
        BY <3>5
      <4>2. i + n \in 1 .. Len(o.waiters) /\ o.waiters[i + n] = f /\ i + n \notin 1 .. n
        BY <1>1, <1>2, <1>3, <4>1
      <4>3. \A j \in 1 .. n : o.waiters[j] # f
        BY <1>1, <1>2, <4>2 DEF Counted
      <4> QED
        BY <3>1, <3>2, <3>3, <4>2, <4>3
    <3> QED
      BY <3>4, <3>5
  <2>5. \A i, j \in 1 .. Len(left) : left[i] = left[j] => i = j
    BY <1>1, <1>2, <1>3 DEF Counted
  <2> QED
    BY <1>8, <2>1, <2>2, <2>3, <2>4, <2>5 DEF Counted
<1>12. Woken(Pumped(o))
  <2> SUFFICES ASSUME left # << >>, after.active # Limit
               PROVE  /\ NextTimer(after) # NoTimer
                      /\ NextTimer(after) <= Longer(1, StartWait(after))
    BY <1>5, <1>8 DEF Woken
  <2>1. after.active < Limit
    BY <1>1, <1>5, LimitType DEF Typed, OriginState
  <2>2. NextTimer(after) = TimerOf(StartWait(after))
    BY <1>5, <2>1, LimitType DEF NextTimer, OriginState
  <2> QED
    BY <1>6, <2>2, SchedulerAssumption DEF TimerOf, Longer
<1> QED
  BY <1>10, <1>11, <1>12

-----------------------------------------------------------------------------
(* The state before each pump has its permits counted and its queue in the  *)
(* order of arrival.                                                        *)

\* f is in the queue w before g.
Before(w, f, g) == \E i, j \in 1 .. Len(w) : i < j /\ w[i] = f /\ w[j] = g

\* f waits, and g comes after it or is not in the queue.
Ahead(f, g) ==
  /\ f # g
  /\ fetch[f].pc = "waiting"
  /\ fetch[g].pc # "waiting" \/ Before(origin.waiters, f, g)

\* A method has made the origin o and the fetches fs, and pumps: no permit has
\* been given, and of those that wait each has kept its place before the others.
Prepared(o, fs) ==
  /\ Typed(o, fs) /\ Counted(o, fs)
  /\ Pump(o, fs)
  /\ \A g \in Fetches : fs[g].permit => fetch[g].permit
  /\ \A f, g \in Fetches :
       Ahead(f, g) /\ fs[f].pc = "waiting" /\ fs[g].pc = "waiting" => Before(o.waiters, f, g)

\* A step that ends in pump keeps the invariant.
LEMMA PumpStep ==
  ASSUME NEW o, NEW fs, Prepared(o, fs)
  PROVE  IInv'
<1>1. Typed(origin', fetch') /\ Counted(origin', fetch') /\ Woken(origin')
  BY PumpKeeps DEF Prepared, Pump
<1> QED
  BY <1>1 DEF IInv

\* A fetch that asks for a permit is the last of the queue that is pumped.
LEMMA AcquirePrepares ==
  ASSUME IInv, NEW f \in Fetches, Acquire(f)
  PROVE  \E o, fs : Prepared(o, fs)
<1> DEFINE o == [origin EXCEPT !.waiters = Append(@, f)]
           fs == [fetch EXCEPT ![f].pc = "waiting"]
<1>1. /\ origin \in OriginState /\ fetch \in [Fetches -> FetchState]
      /\ Counted(origin, fetch)
  BY DEF IInv, Typed
<1>2. origin.waiters \in Seq(Fetches) /\ Len(origin.waiters) \in Nat
  BY <1>1 DEF OriginState
<1>3. fetch[f] = AtRest
  BY DEF Acquire
<1>4. Typed(o, fs)
  <2>1. fs \in [Fetches -> FetchState]
    BY <1>1 DEF FetchState
  <2>2. Append(origin.waiters, f) \in Seq(Fetches)
    BY <1>2
  <2>3. o \in OriginState
    BY <1>1, <2>2 DEF OriginState
  <2> QED
    BY <2>1, <2>3 DEF Typed
<1>5. /\ o.active = origin.active
      /\ o.waiters = Append(origin.waiters, f)
      /\ Len(o.waiters) = Len(origin.waiters) + 1
      /\ o.waiters[Len(origin.waiters) + 1] = f
      /\ \A i \in 1 .. Len(origin.waiters) : o.waiters[i] = origin.waiters[i]
  BY <1>1, <1>2 DEF OriginState
<1>6. \A i \in 1 .. Len(origin.waiters) : origin.waiters[i] # f
  BY <1>1, <1>3 DEF Counted, AtRest
<1>7. \A g \in Fetches : fs[g].permit = fetch[g].permit
  BY <1>1 DEF FetchState
<1>8. HoldersOf(fs) = HoldersOf(fetch)
  BY <1>7 DEF HoldersOf
<1>9. \A g \in Fetches : fs[g].pc = IF g = f THEN "waiting" ELSE fetch[g].pc
  BY <1>1 DEF FetchState
<1> HIDE DEF o, fs
<1>10. Counted(o, fs)
  <2>1. \A g \in Fetches : fs[g].permit => fs[g].pc \in {"ready", "sleeping", "requesting"}
    BY <1>1, <1>3, <1>7, <1>9 DEF Counted, AtRest
  <2>2. \A g \in Fetches :
          fs[g].pc = "waiting" <=> \E i \in 1 .. Len(o.waiters) : o.waiters[i] = g
    BY <1>1, <1>2, <1>5, <1>9 DEF Counted
  <2>3. \A i, j \in 1 .. Len(o.waiters) : o.waiters[i] = o.waiters[j] => i = j
    BY <1>1, <1>2, <1>5, <1>6 DEF Counted
  <2> QED
    BY <1>1, <1>5, <1>8, <2>1, <2>2, <2>3 DEF Counted
<1>11. ASSUME NEW g \in Fetches, NEW h \in Fetches, Ahead(g, h),
              fs[g].pc = "waiting", fs[h].pc = "waiting"
       PROVE  Before(o.waiters, g, h)
  <2>1. g # h /\ fetch[g].pc = "waiting" /\ (fetch[h].pc # "waiting" \/ Before(origin.waiters, g, h))
    BY <1>11 DEF Ahead
  <2>2. CASE h = f
    <3>1. PICK i \in 1 .. Len(origin.waiters) : origin.waiters[i] = g
      BY <1>1, <2>1 DEF Counted
    <3> QED
      BY <1>2, <1>5, <2>2, <3>1 DEF Before
  <2>3. CASE h # f
    <3>1. Before(origin.waiters, g, h)
      BY <1>9, <1>11, <2>1, <2>3
    <3>2. PICK i, j \in 1 .. Len(origin.waiters) :
            i < j /\ origin.waiters[i] = g /\ origin.waiters[j] = h
      BY <3>1 DEF Before
    <3> QED
      BY <1>2, <1>5, <3>2 DEF Before
  <2> QED
    BY <2>2, <2>3
<1>12. Pump(o, fs)
  BY DEF Acquire, o, fs
<1> QED
  BY <1>4, <1>7, <1>10, <1>11, <1>12 DEF Prepared

(* A fetch past its wait changes what it does, and no more.                 *)
LEMMA MovesKeep ==
  ASSUME IInv, NEW f \in Fetches, NEW o, NEW fs \in [Fetches -> FetchState],
         o \in OriginState, o.active = origin.active, o.waiters = origin.waiters,
         \A g \in Fetches : g # f => fs[g] = fetch[g],
         fetch[f].pc # "waiting", fs[f].permit = fetch[f].permit,
         fs[f].pc # "waiting", fs[f].permit => fs[f].pc # "idle"
  PROVE  Typed(o, fs) /\ Counted(o, fs)
<1>1. Typed(o, fs)
  BY DEF Typed
<1>2. /\ \A g \in Fetches : fs[g].permit = fetch[g].permit
      /\ Counted(origin, fetch)
  BY DEF IInv
<1>3. HoldersOf(fs) = HoldersOf(fetch)
  BY <1>2 DEF HoldersOf
<1>4. \A g \in Fetches : fs[g].permit => fs[g].pc \in {"ready", "sleeping", "requesting"}
  BY <1>2 DEF Counted, FetchState
<1>5. \A g \in Fetches : fs[g].pc = "waiting" <=> fetch[g].pc = "waiting"
  OBVIOUS
<1> QED
  BY <1>1, <1>2, <1>3, <1>4, <1>5 DEF Counted

(* A step that pumps nothing and leaves permits, queue, timer and spacing.  *)
LEMMA QuietStep ==
  ASSUME IInv, NEW f \in Fetches, NEW q \in FetchState, fetch' = [fetch EXCEPT ![f] = q],
         origin' \in OriginState, origin'.active = origin.active,
         origin'.waiters = origin.waiters, origin'.timer = origin.timer,
         origin'.cooldown = origin.cooldown, origin'.startGap = origin.startGap,
         fetch[f].pc # "waiting", q.permit = fetch[f].permit,
         q.pc # "waiting", q.permit => q.pc # "idle"
  PROVE  IInv'
<1>1. fetch \in [Fetches -> FetchState]
  BY DEF IInv, Typed
<1>2. /\ fetch' \in [Fetches -> FetchState]
      /\ fetch'[f] = q
      /\ \A g \in Fetches : g # f => fetch'[g] = fetch[g]
  BY <1>1
<1>3. Typed(origin', fetch') /\ Counted(origin', fetch')
  <2>1. PICK o, fs : o = origin' /\ fs = fetch'
    OBVIOUS
  <2>2. /\ fs \in [Fetches -> FetchState] /\ o \in OriginState
        /\ o.active = origin.active /\ o.waiters = origin.waiters
        /\ \A g \in Fetches : g # f => fs[g] = fetch[g]
        /\ fs[f].permit = fetch[f].permit
        /\ fs[f].pc # "waiting" /\ (fs[f].permit => fs[f].pc # "idle")
    BY <1>2, <2>1
  <2>3. Typed(o, fs) /\ Counted(o, fs)
    BY <2>2, MovesKeep
  <2> QED
    BY <2>1, <2>3
<1>4. Woken(origin')
  BY DEF IInv, Woken, StartWait
<1> QED
  BY <1>3, <1>4 DEF IInv

\* A redirect within the origin keeps the invariant.
LEMMA RedirectedKeeps ==
  ASSUME IInv, NEW f \in Fetches, Redirected(f)
  PROVE  IInv'
<1> DEFINE q == [fetch[f] EXCEPT !.pc = "ready"]
<1>1. fetch[f] \in FetchState /\ origin \in OriginState /\ origin' = origin
  BY DEF IInv, Typed, Redirected
<1>2. q \in FetchState /\ q.permit = fetch[f].permit /\ q.pc = "ready"
  BY <1>1 DEF FetchState
<1>3. fetch' = [fetch EXCEPT ![f] = q]
  BY DEF Redirected
<1>4. fetch[f].pc # "waiting"
  <2>1. fetch[f] = AtRest
    BY DEF Redirected
  <2> QED
    BY <2>1 DEF AtRest
<1> HIDE DEF q
<1> QED
  BY <1>1, <1>2, <1>3, <1>4, QuietStep

\* A request sent keeps the invariant.
LEMMA RequestKeeps ==
  ASSUME IInv, NEW f \in Fetches, Request(f)
  PROVE  IInv'
<1> DEFINE q == [fetch[f] EXCEPT !.pc = "requesting"]
<1>1. /\ fetch[f] \in FetchState /\ fetch[f].pc # "waiting"
      /\ fetch' = [fetch EXCEPT ![f] = q]
  BY DEF IInv, Typed, Request, AtGate
<1>2. q \in FetchState /\ q.permit = fetch[f].permit /\ q.pc = "requesting"
  BY <1>1 DEF FetchState
<1>3. /\ origin' \in OriginState /\ origin'.active = origin.active
      /\ origin'.waiters = origin.waiters /\ origin'.timer = origin.timer
      /\ origin'.cooldown = origin.cooldown /\ origin'.startGap = origin.startGap
  BY SchedulerAssumption DEF IInv, Typed, Request, OriginState
<1> HIDE DEF q
<1> QED
  BY <1>1, <1>2, <1>3, QuietStep

\* A fetch that waits for its turn to start keeps the invariant.
LEMMA SleepKeeps ==
  ASSUME IInv, NEW f \in Fetches, Sleep(f)
  PROVE  IInv'
<1> DEFINE q == [fetch[f] EXCEPT !.pc = "sleeping", !.sleep = RequestWait]
<1>1. /\ fetch \in [Fetches -> FetchState] /\ fetch[f] \in FetchState
      /\ fetch[f].pc # "waiting" /\ origin' = origin /\ origin \in OriginState
  BY DEF IInv, Typed, Sleep, AtGate
<1>2. RequestWait \in Nat
  BY <1>1 DEF RequestWait, Longer, OriginState
<1>3. q \in FetchState /\ q.permit = fetch[f].permit /\ q.pc = "sleeping"
  BY <1>1, <1>2 DEF FetchState
<1>4. fetch' = [fetch EXCEPT ![f] = q]
  BY DEF Sleep
<1> HIDE DEF q
<1> QED
  BY <1>1, <1>3, <1>4, QuietStep

\* An answer keeps the invariant.
LEMMA AnswerKeeps ==
  ASSUME IInv, NEW f \in Fetches, Answer(f)
  PROVE  IInv'
<1> DEFINE q == [fetch[f] EXCEPT !.pc = "ready"]
<1>1. /\ fetch[f] \in FetchState /\ fetch[f].pc = "requesting"
      /\ fetch' = [fetch EXCEPT ![f] = q] /\ origin' = origin /\ origin \in OriginState
  BY DEF IInv, Typed, Answer
<1>2. q \in FetchState /\ q.permit = fetch[f].permit /\ q.pc = "ready"
  BY <1>1 DEF FetchState
<1> HIDE DEF q
<1> QED
  BY <1>1, <1>2, QuietStep

\* A pump of the queue as it was finds its order.
LEMMA SameQueue ==
  ASSUME NEW o, NEW fs, Typed(o, fs), Counted(o, fs), Pump(o, fs),
         \A g \in Fetches : fs[g].permit => fetch[g].permit,
         \A g \in Fetches : fs[g].pc = "waiting" => fetch[g].pc = "waiting",
         o.waiters = origin.waiters
  PROVE  Prepared(o, fs)
BY DEF Prepared, Ahead

\* An answer with Retry-After pumps the queue as it was.
LEMMA AnswerRetryAfterPrepares ==
  ASSUME IInv, NEW f \in Fetches, NEW wait \in RetryAfters, AnswerRetryAfter(f, wait)
  PROVE  \E o, fs : Prepared(o, fs)
<1> DEFINE o == Cooled(wait)
           fs == [fetch EXCEPT ![f].pc = "ready"]
<1>1. /\ fetch \in [Fetches -> FetchState] /\ fetch[f].pc = "requesting"
      /\ origin \in OriginState
  BY DEF IInv, Typed, AnswerRetryAfter
<1>2. /\ fs \in [Fetches -> FetchState]
      /\ \A g \in Fetches : g # f => fs[g] = fetch[g]
      /\ fs[f].pc = "ready" /\ fs[f].permit = fetch[f].permit
  BY <1>1 DEF FetchState
<1>3. Longer(origin.cooldown, wait) \in Nat
  BY <1>1, SchedulerAssumption DEF Longer, OriginState
<1>4. o \in OriginState /\ o.active = origin.active /\ o.waiters = origin.waiters
  BY <1>1, <1>3 DEF Cooled, OriginState
<1>5. Pump(o, fs)
  BY DEF AnswerRetryAfter
<1> HIDE DEF o, fs
<1>6. Typed(o, fs) /\ Counted(o, fs)
  BY <1>1, <1>2, <1>4, MovesKeep
<1>7. \A g \in Fetches : /\ fs[g].permit => fetch[g].permit
                         /\ fs[g].pc = "waiting" => fetch[g].pc = "waiting"
  BY <1>2
<1> QED
  BY <1>4, <1>5, <1>6, <1>7, SameQueue

\* A fetch that ends with a permit gives it back and pumps.
LEMMA ReleasePrepares ==
  ASSUME IInv, NEW f \in Fetches, Finish(f), fetch[f].permit
  PROVE  \E o, fs : Prepared(o, fs)
<1>1. /\ fetch \in [Fetches -> FetchState] /\ fetch[f] \in FetchState
      /\ fetch[f].pc # "waiting" /\ origin \in OriginState /\ Counted(origin, fetch)
  BY DEF IInv, Typed, Finish
<1>2. AtRest \in FetchState
  BY DEF AtRest, FetchState
<1>4. fetch[f].permit
  OBVIOUS
<1>5. \E o, fs : Prepared(o, fs)
  <2> DEFINE o == [origin EXCEPT !.active = @ - 1]
             fs == [fetch EXCEPT ![f] = AtRest]
             H == HoldersOf(fetch)
  <2>1. HoldersOf(fs) = H \ {f} /\ f \in H
    BY <1>1, <1>4 DEF HoldersOf, AtRest
  <2>2. H \subseteq Fetches
    BY DEF HoldersOf
  <2>3. IsFiniteSet(H)
    BY <2>2, SchedulerAssumption, FS_Subset
  <2>4. Cardinality(H \ {f}) = Cardinality(H) - 1
    BY <2>1, <2>3, FS_RemoveElement
  <2>5. Cardinality(H) \in Nat /\ Cardinality(H \ {f}) \in Nat
    BY <2>3, FS_CardinalityType, FS_RemoveElement
  <2>6. origin.active = Cardinality(H) /\ origin.active <= Limit
    BY <1>1 DEF Counted
  <2>7. origin.active - 1 \in Nat
    BY <2>4, <2>5, <2>6
  <2>8. o \in OriginState /\ o.active = origin.active - 1 /\ o.waiters = origin.waiters
    BY <1>1, <2>7 DEF OriginState
  <2>9. fs \in [Fetches -> FetchState]
    BY <1>1, <1>2
  <2>10. Counted(o, fs)
    <3>1. o.active = Cardinality(HoldersOf(fs))
      BY <2>1, <2>4, <2>6, <2>8
    <3>2. o.active <= Limit
      BY <2>5, <2>6, <2>7, <2>8, LimitType
    <3>3. \A g \in Fetches : fs[g].permit => fs[g].pc \in {"ready", "sleeping", "requesting"}
      BY <1>1 DEF Counted, AtRest
    <3>4. \A g \in Fetches : fs[g].pc = "waiting" <=> fetch[g].pc = "waiting"
      BY <1>1 DEF AtRest
    <3> HIDE DEF o, fs
    <3> QED
      BY <1>1, <2>8, <3>1, <3>2, <3>3, <3>4 DEF Counted
  <2>11. Pump(o, fs)
    BY <1>4 DEF Finish, Release
  <2>12. \A g \in Fetches : /\ fs[g].permit => fetch[g].permit
                            /\ fs[g].pc = "waiting" => fetch[g].pc = "waiting"
    BY <1>1 DEF AtRest
  <2> HIDE DEF o, fs
  <2>13. Typed(o, fs)
    BY <2>8, <2>9 DEF Typed
  <2> QED
    BY <2>8, <2>10, <2>11, <2>12, <2>13, SameQueue
<1> QED
  BY <1>5

\* A fetch that ends, with its permit or without, keeps the invariant.
LEMMA FinishKeeps ==
  ASSUME IInv, NEW f \in Fetches, Finish(f)
  PROVE  IInv'
<1>1. /\ fetch \in [Fetches -> FetchState] /\ fetch[f] \in FetchState
      /\ fetch[f].pc # "waiting" /\ origin \in OriginState
  BY DEF IInv, Typed, Finish
<1>2. CASE ~fetch[f].permit
  <2>1. fetch' = [fetch EXCEPT ![f] = AtRest] /\ origin' = origin
    BY <1>2 DEF Finish
  <2>2. AtRest \in FetchState /\ AtRest.permit = fetch[f].permit
    BY <1>1, <1>2 DEF AtRest, FetchState
  <2> QED
    BY <1>1, <2>1, <2>2, QuietStep DEF AtRest
<1>3. CASE fetch[f].permit
  BY <1>3, ReleasePrepares, PumpStep
<1> QED
  BY <1>2, <1>3

\* A waiter that is aborted leaves the queue, whose order stays, and pumps.
LEMMA LeavePrepares ==
  ASSUME IInv, NEW f \in Fetches, Leave(f)
  PROVE  \E o, fs : Prepared(o, fs)
<1>1. /\ fetch \in [Fetches -> FetchState] /\ fetch[f] \in FetchState
      /\ fetch[f].pc = "waiting" /\ origin \in OriginState /\ Counted(origin, fetch)
  BY DEF IInv, Typed, Leave
<1> DEFINE s == origin.waiters
<1>2. s \in Seq(Fetches) /\ Len(s) \in Nat /\ DOMAIN s = 1 .. Len(s)
  BY <1>1 DEF OriginState
<1>3. PICK i \in 1 .. Len(s) :
         /\ s[i] = f
         /\ Pump([origin EXCEPT !.waiters = Spliced(@, i)], [fetch EXCEPT ![f] = AtRest])
  <2>1. \E i \in DOMAIN s :
          /\ s[i] = f
          /\ Pump([origin EXCEPT !.waiters = Spliced(@, i)], [fetch EXCEPT ![f] = AtRest])
    BY DEF Leave
  <2> HIDE DEF s
  <2> QED
    BY <1>2, <2>1
<1> DEFINE t == Spliced(s, i)
           o == [origin EXCEPT !.waiters = t]
           fs == [fetch EXCEPT ![f] = AtRest]
<1>4. /\ t \in Seq(Fetches)
      /\ Len(t) = Len(s) - 1
      /\ \A j \in 1 .. Len(t) : t[j] = IF j < i THEN s[j] ELSE s[j + 1]
  <2> DEFINE a == SubSeq(s, 1, i - 1)
             b == SubSeq(s, i + 1, Len(s))
  <2>1. a \in Seq(Fetches) /\ Len(a) = i - 1 /\ \A j \in 1 .. Len(a) : a[j] = s[j]
    BY <1>2
  <2>2. b \in Seq(Fetches) /\ Len(b) = Len(s) - i /\ \A j \in 1 .. Len(b) : b[j] = s[j + i]
    BY <1>2
  <2> HIDE DEF a, b
  <2>3. t = a \o b
    BY DEF Spliced, a, b
  <2>4. /\ a \o b \in Seq(Fetches)
        /\ Len(a \o b) = Len(a) + Len(b)
        /\ \A j \in 1 .. Len(a) + Len(b) :
              (a \o b)[j] = IF j <= Len(a) THEN a[j] ELSE b[j - Len(a)]
    BY <2>1, <2>2, ConcatProperties
  <2>5. ASSUME NEW j \in 1 .. Len(t) PROVE t[j] = IF j < i THEN s[j] ELSE s[j + 1]
    <3>1. CASE j < i
      BY <1>2, <2>1, <2>2, <2>3, <2>4, <3>1
    <3>2. CASE ~(j < i)
      <4>1. j - (i - 1) \in 1 .. Len(b) /\ t[j] = b[j - (i - 1)]
        BY <1>2, <2>1, <2>2, <2>3, <2>4, <3>2
      <4>2. b[j - (i - 1)] = s[(j - (i - 1)) + i]
        BY <2>2, <4>1
      <4>3. (j - (i - 1)) + i = j + 1
        BY <1>2, <2>1, <2>2, <2>3, <2>4
      <4> QED
        BY <3>2, <4>1, <4>2, <4>3
    <3> QED
      BY <3>1, <3>2
  <2>6. Len(t) = Len(s) - 1
    BY <1>2, <2>1, <2>2, <2>3, <2>4
  <2> QED
    BY <2>3, <2>4, <2>5, <2>6
<1> HIDE DEF t
<1>5. o \in OriginState /\ o.active = origin.active /\ o.waiters = t
  BY <1>1, <1>4 DEF OriginState
<1>6. /\ fs \in [Fetches -> FetchState]
      /\ \A g \in Fetches : g # f => fs[g] = fetch[g]
      /\ fs[f] = AtRest
  BY <1>1 DEF AtRest, FetchState
<1>7. Pump(o, fs)
  BY <1>3 DEF t
<1> HIDE DEF o, fs, s
<1>8. ~fetch[f].permit /\ ~fs[f].permit /\ fs[f].pc = "idle"
  BY <1>1, <1>6 DEF Counted, AtRest
<1>9. HoldersOf(fs) = HoldersOf(fetch)
  BY <1>6, <1>8 DEF HoldersOf
<1>10. Counted(o, fs)
  <2>1. o.active = Cardinality(HoldersOf(fs)) /\ o.active <= Limit
    BY <1>1, <1>5, <1>9 DEF Counted
  <2>2. \A g \in Fetches : fs[g].permit => fs[g].pc \in {"ready", "sleeping", "requesting"}
    BY <1>1, <1>6, <1>8 DEF Counted
  <2>3. ASSUME NEW g \in Fetches
        PROVE  fs[g].pc = "waiting" <=> \E j \in 1 .. Len(t) : t[j] = g
    <3>1. fs[g].pc = "waiting" <=> g # f /\ \E j \in 1 .. Len(s) : s[j] = g
      BY <1>1, <1>6, <1>8 DEF Counted, s
    <3>2. ASSUME g # f, NEW j \in 1 .. Len(s), s[j] = g
          PROVE  \E k \in 1 .. Len(t) : t[k] = g
      <4>1. CASE j < i
        <5>1. j \in 1 .. Len(t) /\ t[j] = s[j]
          BY <1>2, <1>4, <4>1
        <5> QED
          BY <3>2, <5>1
      <4>2. CASE j > i
        <5>1. j - 1 \in 1 .. Len(t) /\ t[j - 1] = s[(j - 1) + 1] /\ (j - 1) + 1 = j
          BY <1>2, <1>4, <4>2
        <5> QED
          BY <3>2, <5>1
      <4>3. j # i
        BY <1>3, <3>2 DEF s
      <4> QED
        BY <1>2, <4>1, <4>2, <4>3
    <3>3. ASSUME NEW k \in 1 .. Len(t), t[k] = g
          PROVE  g # f /\ \E j \in 1 .. Len(s) : s[j] = g
      <4>1. PICK j \in 1 .. Len(s) : j # i /\ s[j] = g
        <5>1. CASE k < i
          BY <1>2, <1>4, <3>3, <5>1
        <5>2. CASE ~(k < i)
          <6>1. k + 1 \in 1 .. Len(s) /\ k + 1 # i /\ s[k + 1] = g
            BY <1>2, <1>4, <3>3, <5>2
          <6> QED
            BY <6>1
        <5> QED
          BY <5>1, <5>2
      <4>2. s[j] # s[i]
        BY <1>1, <4>1 DEF Counted, s
      <4> QED
        BY <1>3, <4>1, <4>2 DEF s
    <3> QED
      BY <3>1, <3>2, <3>3
  <2>4. ASSUME NEW j \in 1 .. Len(t), NEW k \in 1 .. Len(t), t[j] = t[k]
        PROVE  j = k
    <3> DEFINE p == IF j < i THEN j ELSE j + 1
               q == IF k < i THEN k ELSE k + 1
    <3>1. p \in 1 .. Len(s) /\ q \in 1 .. Len(s) /\ s[p] = t[j] /\ s[q] = t[k]
      BY <1>2, <1>4
    <3>2. p = q
      BY <1>1, <2>4, <3>1 DEF Counted, s
    <3> QED
      BY <3>2
  <2> QED
    BY <1>5, <2>1, <2>2, <2>3, <2>4 DEF Counted
<1>11. ASSUME NEW g \in Fetches, NEW h \in Fetches, Ahead(g, h),
              fs[g].pc = "waiting", fs[h].pc = "waiting"
       PROVE  Before(o.waiters, g, h)
  <2>1. g # f /\ h # f
    BY <1>8, <1>11
  <2>2. Before(s, g, h)
    BY <1>6, <1>11, <2>1 DEF Ahead, s
  <2>3. PICK j, k \in 1 .. Len(s) : j < k /\ s[j] = g /\ s[k] = h
    BY <2>2 DEF Before
  <2>4. j # i /\ k # i
    BY <1>3, <2>1, <2>3 DEF s
  <2> DEFINE p == IF j < i THEN j ELSE j - 1
             q == IF k < i THEN k ELSE k - 1
  <2>5. p \in 1 .. Len(t) /\ q \in 1 .. Len(t) /\ p < q
    BY <1>2, <1>4, <2>3, <2>4
  <2>6. t[p] = g
    <3>1. CASE j < i
      BY <1>4, <2>3, <2>5, <3>1
    <3>2. CASE j > i
      <4>1. p = j - 1 /\ ~(p < i) /\ p + 1 = j
        BY <1>2, <3>2
      <4> HIDE DEF p
      <4> QED
        BY <1>4, <2>3, <2>5, <4>1
    <3> QED
      BY <1>2, <2>4, <3>1, <3>2
  <2>7. t[q] = h
    <3>1. CASE k < i
      BY <1>4, <2>3, <2>5, <3>1
    <3>2. CASE k > i
      <4>1. q = k - 1 /\ ~(q < i) /\ q + 1 = k
        BY <1>2, <3>2
      <4> HIDE DEF q
      <4> QED
        BY <1>4, <2>3, <2>5, <4>1
    <3> QED
      BY <1>2, <2>4, <3>1, <3>2
  <2> HIDE DEF p, q
  <2> QED
    BY <1>5, <2>5, <2>6, <2>7 DEF Before
<1>12. \A g \in Fetches : fs[g].permit => fetch[g].permit
  BY <1>6, <1>8
<1>13. Typed(o, fs)
  BY <1>5, <1>6 DEF Typed
<1> QED
  BY <1>7, <1>10, <1>11, <1>12, <1>13 DEF Prepared

\* A timer that fires pumps the queue as it was.
LEMMA TimerPrepares ==
  ASSUME IInv, TimerFires
  PROVE  \E o, fs : Prepared(o, fs)
BY SameQueue DEF TimerFires, IInv

(* Time takes a unit off what is left: a timer that is set stays set, and   *)
(* comes no nearer the time the origin is free.                             *)
LEMMA TickKeeps ==
  ASSUME IInv, Tick
  PROVE  IInv'
<1>1. /\ origin \in OriginState /\ fetch \in [Fetches -> FetchState]
      /\ Counted(origin, fetch) /\ Woken(origin)
  BY DEF IInv, Typed
<1>2. /\ \A t \in Nat : Less(t) \in Nat /\ Less(t) = IF t = 0 THEN 0 ELSE t - 1
      /\ Less(NoTimer) = NoTimer
  BY SchedulerAssumption DEF Less
<1>3. /\ origin.startGap \in Nat /\ origin.requestGap \in Nat /\ origin.cooldown \in Nat
      /\ origin.timer \in Nat \cup {NoTimer}
  BY <1>1 DEF OriginState
<1>4. /\ origin' = [origin EXCEPT !.startGap = Less(@), !.requestGap = Less(@),
                                  !.cooldown = Less(@), !.timer = Less(@)]
      /\ fetch' = [f \in Fetches |-> [fetch[f] EXCEPT !.sleep = Less(@)]]
  BY DEF Tick
<1>5. /\ Less(origin.startGap) \in Nat /\ Less(origin.requestGap) \in Nat
      /\ Less(origin.cooldown) \in Nat /\ Less(origin.timer) \in Nat \cup {NoTimer}
  BY <1>2, <1>3
<1>6. /\ origin' \in OriginState
      /\ origin'.active = origin.active /\ origin'.waiters = origin.waiters
      /\ origin'.timer = Less(origin.timer)
      /\ origin'.startGap = Less(origin.startGap) /\ origin'.cooldown = Less(origin.cooldown)
  BY <1>1, <1>4, <1>5 DEF OriginState
<1>7. /\ fetch' \in [Fetches -> FetchState]
      /\ \A f \in Fetches : fetch'[f].pc = fetch[f].pc /\ fetch'[f].permit = fetch[f].permit
  BY <1>1, <1>2, <1>4 DEF FetchState
<1>8. HoldersOf(fetch') = HoldersOf(fetch)
  BY <1>7 DEF HoldersOf
<1>9. Counted(origin', fetch')
  BY <1>1, <1>6, <1>7, <1>8 DEF Counted
<1>10. Woken(origin')
  <2>1. CASE origin.timer # NoTimer /\ origin.timer <= Longer(1, StartWait(origin))
    <3> DEFINE t == origin.timer
               c == origin.cooldown
               g == origin.startGap
    <3>1. t \in Nat /\ c \in Nat /\ g \in Nat /\ t <= Longer(1, Longer(c, g))
      BY <1>3, <2>1 DEF StartWait
    <3>2. /\ Less(t) = IF t = 0 THEN 0 ELSE t - 1
          /\ Less(c) = IF c = 0 THEN 0 ELSE c - 1
          /\ Less(g) = IF g = 0 THEN 0 ELSE g - 1
      BY <1>2, <3>1
    <3> HIDE DEF t, c, g
    <3>3. Less(t) \in Nat /\ Less(t) <= Longer(1, Longer(Less(c), Less(g)))
      BY <3>1, <3>2 DEF Longer
    <3> QED
      BY <1>6, <3>3, SchedulerAssumption DEF Woken, StartWait, t, c, g
  <2>2. CASE origin.waiters = << >> \/ origin.active = Limit
    BY <1>6, <2>2 DEF Woken
  <2> QED
    BY <1>1, <2>1, <2>2 DEF Woken
<1> QED
  BY <1>6, <1>7, <1>9, <1>10 DEF IInv, Typed

-----------------------------------------------------------------------------
(* The invariant.                                                           *)

\* The invariant holds of an origin nobody has asked for.
LEMMA InitKeeps == Init => IInv
<1> SUFFICES ASSUME Init PROVE IInv
  OBVIOUS
<1>1. origin.waiters = << >> /\ origin.active = 0
  BY DEF Init
<1>2. origin \in OriginState
  BY DEF Init, OriginState
<1>3. fetch = [f \in Fetches |-> AtRest]
  BY DEF Init
<1>4. AtRest \in FetchState /\ ~AtRest.permit /\ AtRest.pc = "idle"
  BY DEF AtRest, FetchState
<1>5. fetch \in [Fetches -> FetchState]
  BY <1>3, <1>4
<1>6. HoldersOf(fetch) = {}
  BY <1>3, <1>4 DEF HoldersOf
<1>7. Counted(origin, fetch)
  BY <1>1, <1>3, <1>4, <1>6, LimitType, FS_EmptySet DEF Counted
<1> QED
  BY <1>1, <1>2, <1>5, <1>7 DEF IInv, Typed, Woken

\* Every step keeps the invariant.
LEMMA StepKeeps == IInv /\ [Next]_vars => IInv'
<1> SUFFICES ASSUME IInv, [Next]_vars PROVE IInv'
  OBVIOUS
<1>1. ASSUME NEW f \in Fetches, Acquire(f) PROVE IInv'
  BY <1>1, AcquirePrepares, PumpStep
<1>2. ASSUME NEW f \in Fetches, Redirected(f) PROVE IInv'
  BY <1>2, RedirectedKeeps
<1>3. ASSUME NEW f \in Fetches, Request(f) PROVE IInv'
  BY <1>3, RequestKeeps
<1>4. ASSUME NEW f \in Fetches, Sleep(f) PROVE IInv'
  BY <1>4, SleepKeeps
<1>5. ASSUME NEW f \in Fetches, Answer(f) PROVE IInv'
  BY <1>5, AnswerKeeps
<1>6. ASSUME NEW f \in Fetches, NEW wait \in RetryAfters, AnswerRetryAfter(f, wait) PROVE IInv'
  BY <1>6, AnswerRetryAfterPrepares, PumpStep
<1>7. ASSUME NEW f \in Fetches, Finish(f) PROVE IInv'
  BY <1>7, FinishKeeps
<1>8. ASSUME NEW f \in Fetches, Leave(f) PROVE IInv'
  BY <1>8, LeavePrepares, PumpStep
<1>9. CASE TimerFires
  BY <1>9, TimerPrepares, PumpStep
<1>10. CASE Tick
  BY <1>10, TickKeeps
<1>11. CASE UNCHANGED vars
  BY <1>11 DEF vars, IInv, Typed, Counted, Woken, HoldersOf, StartWait
<1> QED
  BY <1>1, <1>2, <1>3, <1>4, <1>5, <1>6, <1>7, <1>8, <1>9, <1>10, <1>11 DEF Next

(* The gate's invariant: its state is typed, its permits are counted, and    *)
(* whoever waits will be woken.  None of the three stands alone: a pump      *)
(* counts the waiters it admits only because each waits once.                *)
THEOREM Invariance == Spec => []IInv
BY InitKeeps, StepKeeps, PTL DEF Spec

(* Type correctness of the origin's fields, its queue and its timer, and of  *)
(* the fetches, in every reachable state.                                    *)
THEOREM SchedulerTypeCorrect == Spec => []TypeOK
<1>1. IInv => TypeOK
  BY DEF IInv, Typed, TypeOK
<1> QED
  BY <1>1, Invariance, PTL

(* acquire, release, abort and Retry-After never leak a permit, give one     *)
(* twice or leave a dead waiter in the queue: the count is the number of     *)
(* holders, at most four or what the operator allows, whatever the number    *)
(* of fetches.                                                               *)
THEOREM PermitSafety == Spec => []PermitsAreCounted
<1>1. IInv => PermitsAreCounted
  <2> SUFFICES ASSUME IInv PROVE PermitsAreCounted
    OBVIOUS
  <2>1. Counted(origin, fetch) /\ origin \in OriginState
    BY DEF IInv, Typed
  <2>2. DOMAIN origin.waiters = 1 .. Len(origin.waiters)
    BY <2>1 DEF OriginState
  <2>3. HoldersOf(fetch) = Holders
    BY DEF HoldersOf, Holders
  <2> QED
    BY <2>1, <2>2, <2>3 DEF Counted, PermitsAreCounted, Holders
<1> QED
  BY <1>1, Invariance, PTL

(* pump never leaves the head of the queue without a release or a timer to   *)
(* come, and the timer is not later than the origin is free: a queue of any  *)
(* length, behind any number of aborts, is not forgotten.                    *)
THEOREM NoWaiterStranded == Spec => []NobodyIsStranded
<1>1. IInv => NobodyIsStranded
  BY DEF IInv, Woken, NobodyIsStranded
<1> QED
  BY <1>1, Invariance, PTL

-----------------------------------------------------------------------------
(* Starts are spaced.                                                       *)

\* The step of StartsAreSpaced.
Spaced ==
  /\ \A f \in Fetches :
       /\ fetch'[f].permit /\ ~fetch[f].permit =>
            /\ StartWait(origin) = 0
            /\ \A g \in Fetches :
                 g # f /\ fetch'[g].permit /\ ~fetch[g].permit => PerHostMinDelay = 0
       /\ fetch'[f].pc = "requesting" /\ fetch[f].pc # "requesting" => RequestWait = 0
  /\ origin'.cooldown < origin.cooldown => Tick

\* Whom pump admits shares the pump with others without a delay only, and
\* no wait is left then.
LEMMA AdmittedInTime ==
  ASSUME NEW o \in OriginState, NEW f \in Granted(o)
  PROVE  /\ o.cooldown = 0 /\ o.startGap = 0
         /\ \A g \in Granted(o) : g # f => PerHostMinDelay = 0
<1>1. o.cooldown \in Nat /\ o.startGap \in Nat /\ Len(o.waiters) \in Nat
  BY DEF OriginState
<1>2. PICK n : n = Grants(o)
  OBVIOUS
<1>3. PICK i \in 1 .. n : o.waiters[i] = f
  BY <1>2 DEF Granted
<1>4. StartWait(o) = 0 /\ (PerHostMinDelay = 0 \/ n <= 1)
  <2>1. n # 0
    BY <1>3
  <2>2. ~(o.active >= Limit \/ StartWait(o) > 0)
    BY <1>2, <2>1 DEF Grants
  <2>3. PerHostMinDelay # 0 => n = Shorter(1, Len(o.waiters))
    BY <1>2, <2>2 DEF Grants
  <2>4. StartWait(o) \in Nat
    BY <1>1 DEF StartWait, Longer
  <2> QED
    BY <1>1, <2>2, <2>3, <2>4 DEF Shorter
<1>5. o.cooldown = 0 /\ o.startGap = 0
  BY <1>1, <1>4 DEF StartWait, Longer
<1>6. ASSUME NEW g \in Granted(o), g # f PROVE PerHostMinDelay = 0
  <2>1. PICK j \in 1 .. n : o.waiters[j] = g
    BY <1>2 DEF Granted
  <2>2. i # j
    BY <1>3, <1>6, <2>1
  <2>3. SUFFICES ASSUME PerHostMinDelay # 0 PROVE FALSE
    OBVIOUS
  <2>4. n \in Nat
    <3>1. n = 0 \/ n = Shorter(1, Len(o.waiters))
      BY <1>2, <2>3 DEF Grants
    <3> QED
      BY <1>1, <3>1 DEF Shorter
  <2>5. i = 1 /\ j = 1
    BY <1>3, <1>4, <2>1, <2>3, <2>4
  <2> QED
    BY <2>2, <2>5
<1> QED
  BY <1>5, <1>6

\* A step that ends in pump keeps the spacing.
LEMMA PumpSpaces ==
  ASSUME IInv, NEW o \in OriginState, NEW fs, Pump(o, fs),
         o.startGap = origin.startGap, o.cooldown >= origin.cooldown,
         \A g \in Fetches : fs[g].permit => fetch[g].permit,
         \A g \in Fetches : fs[g].pc = "requesting" => fetch[g].pc = "requesting"
  PROVE  Spaced
<1>1. origin' = Pumped(o) /\ fetch' = Admit(fs, Granted(o))
  BY DEF Pump
<1>2. /\ origin.cooldown \in Nat /\ origin.startGap \in Nat /\ o.cooldown \in Nat
  BY DEF IInv, Typed, OriginState
<1>3. origin'.cooldown = o.cooldown
  BY <1>1 DEF Pumped, OriginState
<1>4. /\ \A g \in Fetches : fetch'[g].permit /\ ~fetch[g].permit => g \in Granted(o)
      /\ \A g \in Fetches : fetch'[g].pc = "requesting" => fetch[g].pc = "requesting"
  BY <1>1 DEF Admit, AtRest
<1>5. ASSUME NEW f \in Fetches, fetch'[f].permit, ~fetch[f].permit
      PROVE  /\ StartWait(origin) = 0
             /\ \A g \in Fetches :
                  g # f /\ fetch'[g].permit /\ ~fetch[g].permit => PerHostMinDelay = 0
  <2>1. f \in Granted(o)
    BY <1>4, <1>5
  <2>2. /\ o.cooldown = 0 /\ o.startGap = 0
        /\ \A g \in Granted(o) : g # f => PerHostMinDelay = 0
    BY <2>1, AdmittedInTime
  <2>3. origin.cooldown = 0 /\ origin.startGap = 0
    BY <1>2, <2>2
  <2> QED
    BY <1>4, <2>2, <2>3 DEF StartWait, Longer
<1> QED
  BY <1>2, <1>3, <1>4, <1>5 DEF Spaced

\* A step that gives no permit and takes nothing off the cooldown.
LEMMA RestSpaces ==
  ASSUME IInv, NEW f \in Fetches, origin'.cooldown = origin.cooldown,
         \A g \in Fetches : fetch'[g].permit => fetch[g].permit,
         \A g \in Fetches : fetch'[g].pc = "requesting" =>
                              fetch[g].pc = "requesting" \/ RequestWait = 0
  PROVE  Spaced
<1>1. origin.cooldown \in Nat
  BY DEF IInv, Typed, OriginState
<1> QED
  BY <1>1 DEF Spaced

\* Every step spaces the starts.
LEMMA StepSpaces == IInv /\ [Next]_vars => Spaced \/ UNCHANGED vars
<1> SUFFICES ASSUME IInv, Next PROVE Spaced
  OBVIOUS
<1>1. origin \in OriginState /\ fetch \in [Fetches -> FetchState]
  BY DEF IInv, Typed
<1>2. ASSUME NEW f \in Fetches, Acquire(f) PROVE Spaced
  <2> DEFINE w == Append(origin.waiters, f)
             o == [origin EXCEPT !.waiters = w]
             fs == [fetch EXCEPT ![f].pc = "waiting"]
  <2>1. w \in Seq(Fetches)
    BY <1>1 DEF OriginState
  <2> HIDE DEF w
  <2>2. /\ o \in OriginState /\ o.startGap = origin.startGap /\ o.cooldown >= origin.cooldown
    BY <1>1, <2>1 DEF OriginState
  <2>3. /\ \A g \in Fetches : fs[g].permit => fetch[g].permit
        /\ \A g \in Fetches : fs[g].pc = "requesting" => fetch[g].pc = "requesting"
    BY <1>1 DEF FetchState
  <2>4. Pump(o, fs)
    BY <1>2 DEF Acquire, w
  <2> HIDE DEF o, fs
  <2> QED
    BY <2>2, <2>3, <2>4, PumpSpaces
<1>3. ASSUME NEW f \in Fetches, Redirected(f) PROVE Spaced
  <2>1. origin' = origin /\ fetch' = [fetch EXCEPT ![f].pc = "ready"]
    BY <1>3 DEF Redirected
  <2>2. \A g \in Fetches : /\ fetch'[g].permit = fetch[g].permit
                           /\ fetch'[g].pc = "requesting" => fetch[g].pc = "requesting"
    BY <1>1, <2>1 DEF FetchState
  <2> QED
    BY <2>1, <2>2, RestSpaces
<1>4. ASSUME NEW f \in Fetches, Request(f) PROVE Spaced
  <2>1. /\ fetch' = [fetch EXCEPT ![f].pc = "requesting"] /\ RequestWait = 0
        /\ origin' = [origin EXCEPT !.requestGap = PerHostMinDelay]
    BY <1>4 DEF Request
  <2>2. origin'.cooldown = origin.cooldown
    BY <1>1, <2>1 DEF OriginState
  <2>3. \A g \in Fetches : fetch'[g].permit = fetch[g].permit
    BY <1>1, <2>1 DEF FetchState
  <2> QED
    BY <2>1, <2>2, <2>3, RestSpaces
<1>5. ASSUME NEW f \in Fetches, Sleep(f) PROVE Spaced
  <2>1. /\ origin' = origin
        /\ fetch' = [fetch EXCEPT ![f].pc = "sleeping", ![f].sleep = RequestWait]
    BY <1>5 DEF Sleep
  <2>2. \A g \in Fetches : /\ fetch'[g].permit = fetch[g].permit
                           /\ fetch'[g].pc = "requesting" => fetch[g].pc = "requesting"
    BY <1>1, <2>1 DEF FetchState
  <2> QED
    BY <2>1, <2>2, RestSpaces
<1>6. ASSUME NEW f \in Fetches, Answer(f) PROVE Spaced
  <2>1. origin' = origin /\ fetch' = [fetch EXCEPT ![f].pc = "ready"]
    BY <1>6 DEF Answer
  <2>2. \A g \in Fetches : /\ fetch'[g].permit = fetch[g].permit
                           /\ fetch'[g].pc = "requesting" => fetch[g].pc = "requesting"
    BY <1>1, <2>1 DEF FetchState
  <2> QED
    BY <2>1, <2>2, RestSpaces
<1>7. ASSUME NEW f \in Fetches, NEW wait \in RetryAfters, AnswerRetryAfter(f, wait) PROVE Spaced
  <2> DEFINE o == Cooled(wait)
             fs == [fetch EXCEPT ![f].pc = "ready"]
  <2>1. Longer(origin.cooldown, wait) \in Nat /\ Longer(origin.cooldown, wait) >= origin.cooldown
    BY <1>1, SchedulerAssumption DEF OriginState, Longer
  <2>2. o \in OriginState /\ o.startGap = origin.startGap /\ o.cooldown >= origin.cooldown
    BY <1>1, <2>1 DEF OriginState, Cooled
  <2>3. /\ \A g \in Fetches : fs[g].permit => fetch[g].permit
        /\ \A g \in Fetches : fs[g].pc = "requesting" => fetch[g].pc = "requesting"
    BY <1>1 DEF FetchState
  <2>4. Pump(o, fs)
    BY <1>7 DEF AnswerRetryAfter
  <2> HIDE DEF o, fs
  <2> QED
    BY <2>2, <2>3, <2>4, PumpSpaces
<1>8. ASSUME NEW f \in Fetches, Finish(f) PROVE Spaced
  <2> DEFINE fs == [fetch EXCEPT ![f] = AtRest]
  <2>1. /\ \A g \in Fetches : fs[g].permit => fetch[g].permit
        /\ \A g \in Fetches : fs[g].pc = "requesting" => fetch[g].pc = "requesting"
    BY <1>1 DEF AtRest
  <2>2. CASE ~fetch[f].permit
    <3>1. origin' = origin /\ fetch' = fs
      BY <1>8, <2>2 DEF Finish
    <3> HIDE DEF fs
    <3> QED
      BY <2>1, <3>1, RestSpaces
  <2>3. CASE fetch[f].permit
    <3> DEFINE o == [origin EXCEPT !.active = @ - 1]
    <3>1. origin.active - 1 \in Nat
      <4>1. f \in HoldersOf(fetch) /\ HoldersOf(fetch) \subseteq Fetches
        BY <2>3 DEF HoldersOf
      <4>2. IsFiniteSet(HoldersOf(fetch))
        BY <4>1, SchedulerAssumption, FS_Subset
      <4>3. Cardinality(HoldersOf(fetch)) \in Nat /\ Cardinality(HoldersOf(fetch)) # 0
        BY <4>1, <4>2, FS_CardinalityType, FS_EmptySet
      <4> QED
        BY <4>3 DEF IInv, Counted
    <3>2. o \in OriginState /\ o.startGap = origin.startGap /\ o.cooldown >= origin.cooldown
      BY <1>1, <3>1 DEF OriginState
    <3>3. Pump(o, fs)
      BY <1>8, <2>3 DEF Finish, Release
    <3> HIDE DEF o, fs
    <3> QED
      BY <2>1, <3>2, <3>3, PumpSpaces
  <2> QED
    BY <2>2, <2>3
<1>9. ASSUME NEW f \in Fetches, Leave(f) PROVE Spaced
  <2>1. PICK i \in DOMAIN origin.waiters :
          Pump([origin EXCEPT !.waiters = Spliced(@, i)], [fetch EXCEPT ![f] = AtRest])
    BY <1>9 DEF Leave
  <2> DEFINE w == Spliced(origin.waiters, i)
             o == [origin EXCEPT !.waiters = w]
             fs == [fetch EXCEPT ![f] = AtRest]
  <2>2. w \in Seq(Fetches)
    <3>1. PICK s, n : s = origin.waiters /\ n = Len(s)
      OBVIOUS
    <3>2. s \in Seq(Fetches) /\ n \in Nat /\ i \in 1 .. n
      BY <1>1, <3>1 DEF OriginState
    <3>3. SubSeq(s, 1, i - 1) \in Seq(Fetches) /\ SubSeq(s, i + 1, n) \in Seq(Fetches)
      BY <3>1, <3>2
    <3> QED
      BY <3>1, <3>3, ConcatProperties DEF Spliced
  <2> HIDE DEF w
  <2>3. o \in OriginState /\ o.startGap = origin.startGap /\ o.cooldown >= origin.cooldown
    BY <1>1, <2>2 DEF OriginState
  <2>4. /\ \A g \in Fetches : fs[g].permit => fetch[g].permit
        /\ \A g \in Fetches : fs[g].pc = "requesting" => fetch[g].pc = "requesting"
    BY <1>1 DEF AtRest
  <2>5. Pump(o, fs)
    BY <2>1 DEF w
  <2> HIDE DEF o, fs
  <2> QED
    BY <2>3, <2>4, <2>5, PumpSpaces
<1>10. CASE TimerFires
  <2>1. Pump(origin, fetch) /\ origin.cooldown >= origin.cooldown
    BY <1>1, <1>10 DEF TimerFires, OriginState
  <2> QED
    BY <1>1, <2>1, PumpSpaces
<1>11. CASE Tick
  <2>1. fetch' = [f \in Fetches |-> [fetch[f] EXCEPT !.sleep = Less(@)]]
    BY <1>11 DEF Tick
  <2>2. \A g \in Fetches : fetch'[g].permit = fetch[g].permit /\ fetch'[g].pc = fetch[g].pc
    BY <1>1, <2>1 DEF FetchState
  <2> QED
    BY <1>11, <2>2 DEF Spaced
<1> QED
  BY <1>2, <1>3, <1>4, <1>5, <1>6, <1>7, <1>8, <1>9, <1>10, <1>11 DEF Next

(* A permit starts only when neither the delay nor a Retry-After holds it     *)
(* back, two at one moment only without a delay; no request goes out early,   *)
(* after any sleep; and no answer shortens a Retry-After.                   *)
THEOREM SpacingSafety == Spec => StartsAreSpaced
<1>1. IInv /\ [Next]_vars => [Spaced]_vars
  BY StepSpaces
<1> QED
  BY <1>1, Invariance, PTL DEF Spec, StartsAreSpaced, Spaced

-----------------------------------------------------------------------------
(* Whoever comes first is served first.                                     *)

\* The step of ServedInOrder.
InOrder ==
  \A f, g \in Fetches : Ahead(f, g) =>
    /\ fetch'[g].permit /\ ~fetch[g].permit => fetch'[f].pc # "waiting"
    /\ fetch'[f].pc = "waiting" /\ fetch'[g].pc = "waiting" => Before(origin'.waiters, f, g)

\* A fetch that waits keeps its place before those behind it and those to come,
\* and none of them gets a permit while it still waits: aborts in the middle of
\* the queue, releases, answers and the timer overtake nobody.
ServedInOrder == [][InOrder]_vars

\* pump serves the head of the queue and leaves the rest in its order.
LEMMA PumpInOrder ==
  ASSUME NEW o, NEW fs, Prepared(o, fs)
  PROVE  InOrder
<1>1. /\ Typed(o, fs) /\ Counted(o, fs)
      /\ origin' = Pumped(o) /\ fetch' = Admit(fs, Granted(o))
  BY DEF Prepared, Pump
<1>2. PICK s, n : s = o.waiters /\ n = Grants(o)
  OBVIOUS
<1>3. s \in Seq(Fetches) /\ Len(s) \in Nat /\ n \in Nat /\ n <= Len(s)
  BY <1>1, <1>2, GrantsBound DEF Typed, Counted, OriginState
<1>4. origin'.waiters = SubSeq(s, n + 1, Len(s))
  BY <1>1, <1>2 DEF Pumped, Typed, OriginState
<1>5. PICK left : left = SubSeq(s, n + 1, Len(s))
  OBVIOUS
<1>6. /\ Len(left) = Len(s) - n
      /\ \A i \in 1 .. Len(left) : left[i] = s[i + n]
  BY <1>3, <1>5
<1>7. \A g \in Fetches : g \in Granted(o) <=> \E i \in 1 .. n : s[i] = g
  BY <1>2 DEF Granted
<1>8. \A g \in Fetches : fetch'[g] = IF g \in Granted(o)
                                    THEN [AtRest EXCEPT !.pc = "ready", !.permit = TRUE]
                                    ELSE fs[g]
  BY <1>1 DEF Admit
<1>9. SUFFICES ASSUME NEW f \in Fetches, NEW g \in Fetches, Ahead(f, g),
                      fetch'[f].pc = "waiting"
               PROVE  /\ ~(fetch'[g].permit /\ ~fetch[g].permit)
                      /\ fetch'[g].pc = "waiting" => Before(left, f, g)
  BY <1>4, <1>5 DEF InOrder
<1>10. f \notin Granted(o) /\ fs[f].pc = "waiting"
  BY <1>8, <1>9 DEF AtRest
<1>11. ASSUME fs[g].pc = "waiting"
       PROVE  \E i, j \in 1 .. Len(s) : i < j /\ i > n /\ s[i] = f /\ s[j] = g
  <2>1. Before(s, f, g)
    BY <1>2, <1>9, <1>10, <1>11 DEF Prepared
  <2>2. PICK i, j \in 1 .. Len(s) : i < j /\ s[i] = f /\ s[j] = g
    BY <2>1 DEF Before
  <2>3. i > n
    BY <1>3, <1>7, <1>10, <2>2
  <2> QED
    BY <2>2, <2>3
<1>12. ~(fetch'[g].permit /\ ~fetch[g].permit)
  <2>1. CASE g \in Granted(o)
    <3>1. PICK k \in 1 .. n : s[k] = g
      BY <1>7, <2>1
    <3>2. k \in 1 .. Len(s)
      BY <1>3, <3>1
    <3>3. fs[g].pc = "waiting"
      BY <1>1, <1>2, <3>1, <3>2 DEF Counted
    <3>4. PICK i, j \in 1 .. Len(s) : i < j /\ i > n /\ s[i] = f /\ s[j] = g
      BY <1>11, <3>3
    <3>5. j = k
      BY <1>1, <1>2, <3>1, <3>2, <3>4 DEF Counted
    <3> QED
      BY <1>3, <3>1, <3>4, <3>5
  <2>2. CASE g \notin Granted(o)
    BY <1>8, <2>2 DEF Prepared
  <2> QED
    BY <2>1, <2>2
<1>13. ASSUME fetch'[g].pc = "waiting" PROVE Before(left, f, g)
  <2>1. fs[g].pc = "waiting"
    BY <1>8, <1>13 DEF AtRest
  <2>2. PICK i, j \in 1 .. Len(s) : i < j /\ i > n /\ s[i] = f /\ s[j] = g
    BY <1>11, <2>1
  <2>3. /\ i - n \in 1 .. Len(left) /\ j - n \in 1 .. Len(left) /\ i - n < j - n
        /\ (i - n) + n = i /\ (j - n) + n = j
    BY <1>3, <1>6, <2>2
  <2>4. left[i - n] = f /\ left[j - n] = g
    BY <1>6, <2>2, <2>3
  <2> QED
    BY <2>3, <2>4 DEF Before
<1> QED
  BY <1>12, <1>13

\* A step that pumps nothing, gives no permit and lets nobody into the queue.
LEMMA RestInOrder ==
  ASSUME origin'.waiters = origin.waiters,
         \A g \in Fetches : /\ fetch'[g].permit => fetch[g].permit
                            /\ fetch'[g].pc = "waiting" => fetch[g].pc = "waiting"
  PROVE  InOrder
BY DEF InOrder, Ahead

\* Every step serves in order.
LEMMA StepInOrder == IInv /\ [Next]_vars => InOrder \/ UNCHANGED vars
<1> SUFFICES ASSUME IInv, Next PROVE InOrder
  OBVIOUS
<1>1. origin \in OriginState /\ fetch \in [Fetches -> FetchState]
  BY DEF IInv, Typed
<1>2. ASSUME NEW f \in Fetches, Acquire(f) PROVE InOrder
  BY <1>2, AcquirePrepares, PumpInOrder
<1>3. ASSUME NEW f \in Fetches,
             Redirected(f) \/ Request(f) \/ Sleep(f) \/ Answer(f)
      PROVE  InOrder
  <2>1. origin'.waiters = origin.waiters
    BY <1>1, <1>3 DEF Redirected, Request, Sleep, Answer, OriginState
  <2>2. \A g \in Fetches : /\ fetch'[g].permit => fetch[g].permit
                           /\ fetch'[g].pc = "waiting" => fetch[g].pc = "waiting"
    BY <1>1, <1>3 DEF Redirected, Request, Sleep, Answer, FetchState
  <2> QED
    BY <2>1, <2>2, RestInOrder
<1>4. ASSUME NEW f \in Fetches, NEW wait \in RetryAfters, AnswerRetryAfter(f, wait)
      PROVE  InOrder
  BY <1>4, AnswerRetryAfterPrepares, PumpInOrder
<1>5. ASSUME NEW f \in Fetches, Finish(f) PROVE InOrder
  <2>1. CASE fetch[f].permit
    BY <1>5, <2>1, ReleasePrepares, PumpInOrder
  <2>2. CASE ~fetch[f].permit
    <3>1. origin' = origin /\ fetch' = [fetch EXCEPT ![f] = AtRest]
      BY <1>5, <2>2 DEF Finish
    <3>2. \A g \in Fetches : /\ fetch'[g].permit => fetch[g].permit
                             /\ fetch'[g].pc = "waiting" => fetch[g].pc = "waiting"
      BY <1>1, <3>1 DEF AtRest
    <3> QED
      BY <3>1, <3>2, RestInOrder
  <2> QED
    BY <2>1, <2>2
<1>6. ASSUME NEW f \in Fetches, Leave(f) PROVE InOrder
  BY <1>6, LeavePrepares, PumpInOrder
<1>7. CASE TimerFires
  BY <1>7, TimerPrepares, PumpInOrder
<1>8. CASE Tick
  <2>1. \A g \in Fetches : fetch'[g].permit = fetch[g].permit /\ fetch'[g].pc = fetch[g].pc
    BY <1>1, <1>8 DEF Tick, FetchState
  <2>2. origin'.waiters = origin.waiters
    BY <1>1, <1>8 DEF Tick, OriginState
  <2> QED
    BY <2>1, <2>2, RestInOrder
<1> QED
  BY <1>2, <1>3, <1>4, <1>5, <1>6, <1>7, <1>8 DEF Next

(* The queue is served in the order of arrival: pump, abort and release move  *)
(* nobody past a fetch that waits.                                          *)
THEOREM OrderSafety == Spec => ServedInOrder
<1>1. IInv /\ [Next]_vars => [InOrder]_vars
  BY StepInOrder
<1> QED
  BY <1>1, Invariance, PTL DEF Spec, ServedInOrder
=============================================================================
