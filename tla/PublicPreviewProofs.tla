------------------------ MODULE PublicPreviewProofs ------------------------
(* Proofs about PublicPreview, for every value of its constants: no two     *)
(* captures at the gated origin, none inside a cooldown, and the counters   *)
(* and the captures agree.                                                  *)
EXTENDS PublicPreview, FiniteSetTheorems, TLAPS

(* What a handler's own record says about itself at its stage.              *)
Sound(r, h) ==
    /\ h.note \in {"reading", "writing"} => h.at \in {"capture", "settle"}
    /\ h.at = "charging" =>
          h.all \in Nat /\ h.own \in Nat /\ h.all < SiteLimit /\ h.own < VisitorLimit
    /\ h.charge # "none" => h.at \in {"capture", "settle", "releasing", "done"}
    /\ r \notin Evaluations => (h.captured <=> h.charge = "paid")
    /\ h.at = "claim" /\ h.left > 0 => h.lease > h.left
    /\ h.at \notin {"capture", "settle", "releasing", "done"} => h.tries < QuotaAttempts

HandlersSound == \A r \in Requests : Sound(r, req[r])

(* A read of the gate that is still fresh still says what it said.          *)
ReadsHold ==
    \A r \in fresh :
        /\ req[r].at = "claim" => ~Occupied /\ gate.cool = 0
        /\ req[r].at = "releasing" \/ req[r].note = "writing" => gate.owner = r

(* The permit: from its claim to the end of its capture, for as long as it  *)
(* may still go on.                                                         *)
Holding(h) ==
    /\ h.at \in {"consume", "charging", "capture"}
    /\ h.at = "capture" \/ h.left > 0

(* A gated request that may go on owns the gate, under a lease that         *)
(* outlives its deadline, and the origin was quiet when it got it.          *)
PermitsHold ==
    \A r \in Gated :
        Holding(req[r]) =>
            /\ gate.owner = r
            /\ gate.lease > req[r].left
            /\ req[r].at # "capture" => quiet = 0

(* The gate's document never forgets a wait.                                *)
GateInv == quiet <= gate.cool /\ ReadsHold /\ PermitsHold

(* The counters are the charges, within their limits.                       *)
CountersAgree ==
    /\ site = Cardinality(Charged) /\ site <= SiteLimit
    /\ \A v \in Visitors :
         /\ used[v] = Cardinality({r \in Charged : VisitorOf[r] = v})
         /\ used[v] <= VisitorLimit

IInv == TypeOK /\ HandlersSound /\ GateInv /\ CountersAgree

(* What CooldownOutlivesTheLease says of a step.                            *)
QuietStart ==
    \A r \in Gated : req[r].at # "capture" /\ req'[r].at = "capture" => quiet = 0

-----------------------------------------------------------------------------
(* A step of one handler                                                    *)

\* The limits are numbers, and a lease outlives a deadline.
LEMMA Bounds ==
    /\ DeadlineTicks \in Nat /\ DeadlineTicks > 0
    /\ LeaseTicks \in Nat /\ LeaseTicks > DeadlineTicks
    /\ Spacing \in Nat /\ Spacing > 0
    /\ QuotaAttempts \in Nat /\ QuotaAttempts > 0
    /\ VisitorLimit \in Nat /\ SiteLimit \in Nat
    BY PreviewAssumption, LeaseOutlivesDeadline

\* A request that has not arrived is a request.
LEMMA Nothing == NoRequest \in Request
    BY Bounds DEF NoRequest, Request, Stages

(* What Kept forgets, by stage.                                             *)
LEMMA KeptFields ==
    ASSUME NEW h \in Request
    PROVE  /\ Kept(h) \in Request
           /\ Kept(h).at = h.at
           /\ Kept(h).charge = h.charge
           /\ Kept(h).captured = h.captured
           /\ h.at = "done" => Kept(h).note = "none"
           /\ h.at # "done" => /\ Kept(h).note = h.note
                               /\ Kept(h).lease = h.lease
           /\ h.at \notin {"done", "settle", "releasing"} => Kept(h).left = h.left
           /\ h.at \notin {"done", "settle", "releasing", "capture"} =>
                 Kept(h).all = h.all /\ Kept(h).own = h.own /\ Kept(h).tries = h.tries
<1>0. /\ 0 \in 0..DeadlineTicks /\ 0 \in 0..QuotaAttempts
      /\ None \in Nat \cup {None}
    BY Bounds
<1>1. CASE h.at = "done"
    <2>1. Kept(h) = [NoRequest EXCEPT !.at = "done", !.charge = h.charge, !.captured = h.captured]
        BY <1>1, Zenon DEF Kept
    <2>2. h.charge \in {"none", "paid", "lost"} /\ h.captured \in BOOLEAN /\ "done" \in Stages
        BY DEF Request, Stages
    <2>3. Kept(h) \in Request
        BY <2>1, <2>2, Nothing DEF Request
    <2>4. Kept(h).at = "done" /\ Kept(h).charge = h.charge /\ Kept(h).captured = h.captured
          /\ Kept(h).note = "none"
        BY <2>1, Nothing DEF Request, NoRequest
    <2> QED
        BY <1>1, <2>3, <2>4
<1>2. CASE h.at \in {"settle", "releasing"}
    <2>1. Kept(h) = [h EXCEPT !.left = 0, !.tries = 0, !.all = None, !.own = None]
        BY <1>2, Zenon DEF Kept
    <2>2. Kept(h) \in Request
        BY <1>0, <2>1 DEF Request
    <2>3. /\ Kept(h).at = h.at /\ Kept(h).charge = h.charge /\ Kept(h).captured = h.captured
          /\ Kept(h).note = h.note /\ Kept(h).lease = h.lease
        BY <2>1 DEF Request
    <2> QED
        BY <1>2, <2>2, <2>3
<1>3. CASE h.at = "capture"
    <2>1. Kept(h) = [h EXCEPT !.tries = 0, !.all = None, !.own = None]
        BY <1>3, Zenon DEF Kept
    <2>2. Kept(h) \in Request
        BY <1>0, <2>1 DEF Request
    <2>3. /\ Kept(h).at = h.at /\ Kept(h).charge = h.charge /\ Kept(h).captured = h.captured
          /\ Kept(h).note = h.note /\ Kept(h).lease = h.lease /\ Kept(h).left = h.left
        BY <2>1 DEF Request
    <2> QED
        BY <1>3, <2>2, <2>3
<1>4. CASE h.at \notin {"done", "settle", "releasing", "capture"}
    <2>1. Kept(h) = h
        BY <1>4, Zenon DEF Kept
    <2> QED
        BY <1>4, <2>1
<1> QED
    BY <1>1, <1>2, <1>3, <1>4

(* Go writes one handler's record and notes the start of a capture.         *)
LEMMA GoFields ==
    ASSUME TypeOK, NEW r \in Requests, NEW h \in Request, Go(r, h)
    PROVE  /\ req' \in [Requests -> Request]
           /\ \A q \in Requests : q # r => req'[q] = req[q]
           /\ req'[r].at = h.at
           /\ req'[r].charge = h.charge
           /\ req'[r].captured = (h.captured \/ (h.at = "capture" /\ r \notin Evaluations))
           /\ h.at = "done" => req'[r].note = "none"
           /\ h.at # "done" => /\ req'[r].note = h.note
                               /\ req'[r].lease = h.lease
           /\ h.at \notin {"done", "settle", "releasing"} => req'[r].left = h.left
           /\ h.at \notin {"done", "settle", "releasing", "capture"} =>
                 req'[r].all = h.all /\ req'[r].own = h.own /\ req'[r].tries = h.tries
<1> DEFINE begun == h.captured \/ (h.at = "capture" /\ r \notin Evaluations)
           g == [h EXCEPT !.captured = begun]
<1>1. g = [h EXCEPT !.captured = @ \/ (h.at = "capture" /\ r \notin Evaluations)]
    OBVIOUS
<1>2. g \in Request /\ g.at = h.at /\ g.charge = h.charge /\ g.captured = begun
    <2>1. h.captured \in BOOLEAN
        BY DEF Request
    <2>2. begun \in BOOLEAN
        BY <2>1
    <2> HIDE DEF begun
    <2> QED
        BY <2>2 DEF Request
<1>3. /\ g.note = h.note /\ g.lease = h.lease /\ g.left = h.left
      /\ g.all = h.all /\ g.own = h.own /\ g.tries = h.tries
    BY DEF Request
<1>4. req' = [req EXCEPT ![r] = Kept(g)]
    BY DEF Go
<1> HIDE DEF g
<1>5. Kept(g) \in Request
    BY <1>2, KeptFields
<1>6. req' \in [Requests -> Request] /\ req'[r] = Kept(g)
    BY <1>4, <1>5 DEF TypeOK
<1>7. \A q \in Requests : q # r => req'[q] = req[q]
    BY <1>4 DEF TypeOK
<1> QED
    BY <1>2, <1>3, <1>6, <1>7, KeptFields

(* The charges of a step that charges nobody are what they were.            *)
LEMMA SameCharges ==
    ASSUME CountersAgree, UNCHANGED <<site, used>>,
           \A q \in Requests : req'[q].charge = req[q].charge
    PROVE  CountersAgree'
<1>1. Charged' = Charged
    BY DEF Charged
<1> QED
    BY <1>1 DEF CountersAgree

(* What a step of r that leaves the gate's document alone owes: its own     *)
(* record is sound, what it claims to have read is so, and if it may go on  *)
(* with a gated capture it owns the gate.                                   *)
Owed(r) ==
    /\ req' \in [Requests -> Request]
    /\ \A q \in Requests : q # r => req'[q] = req[q]
    /\ UNCHANGED <<gate, quiet>>
    /\ fresh' \subseteq fresh \cup {r}
    /\ Sound(r, req'[r])
    /\ r \in fresh' =>
          /\ req'[r].at = "claim" => ~Occupied /\ gate.cool = 0
          /\ req'[r].at = "releasing" \/ req'[r].note = "writing" => gate.owner = r
    /\ r \in Gated /\ Holding(req'[r]) =>
          /\ gate.owner = r
          /\ gate.lease > req'[r].left
          /\ req'[r].at # "capture" => quiet = 0
          /\ req[r].at # "capture" => quiet = 0

\* A request's own step keeps what is said of the others' reads.
LEMMA OwnStep ==
    ASSUME IInv, NEW r \in Requests, Owed(r)
    PROVE  HandlersSound' /\ GateInv' /\ QuietStart
<1>1. HandlersSound'
    BY DEF Owed, IInv, HandlersSound
<1>2. ReadsHold'
    <2> SUFFICES ASSUME NEW q \in fresh'
                 PROVE  /\ req'[q].at = "claim" => ~Occupied' /\ gate'.cool = 0
                        /\ req'[q].at = "releasing" \/ req'[q].note = "writing" => gate'.owner = q
        BY DEF ReadsHold
    <2>1. Occupied' = Occupied /\ gate' = gate
        BY DEF Owed, Occupied
    <2>2. CASE q = r
        BY <2>1, <2>2 DEF Owed
    <2>3. CASE q # r
        <3>1. q \in fresh /\ req'[q] = req[q]
            BY <2>3 DEF Owed, IInv, TypeOK
        <3> QED
            BY <2>1, <3>1 DEF IInv, GateInv, ReadsHold
    <2> QED
        BY <2>2, <2>3
<1>3. PermitsHold'
    <2> SUFFICES ASSUME NEW q \in Gated, Holding(req'[q])
                 PROVE  /\ gate'.owner = q
                        /\ gate'.lease > req'[q].left
                        /\ req'[q].at # "capture" => quiet' = 0
        BY DEF PermitsHold, Holding
    <2>1. gate' = gate /\ quiet' = quiet
        BY DEF Owed
    <2>2. CASE q = r
        BY <2>1, <2>2 DEF Owed
    <2>3. CASE q # r
        <3>1. req'[q] = req[q]
            BY <2>3, PreviewAssumption DEF Owed
        <3> QED
            BY <2>1, <3>1 DEF IInv, GateInv, PermitsHold
    <2> QED
        BY <2>2, <2>3
<1>4. QuietStart
    BY PreviewAssumption DEF Owed, QuietStart, Holding
<1> QED
    BY <1>1, <1>2, <1>3, <1>4 DEF IInv, GateInv, Owed

(* A step of r that neither writes the gate nor charges.                    *)
LEMMA QuietStep ==
    ASSUME IInv, NEW r \in Requests, Owed(r), UNCHANGED <<site, used>>,
           req'[r].charge = req[r].charge
    PROVE  IInv' /\ QuietStart
<1>1. HandlersSound' /\ GateInv' /\ QuietStart
    BY OwnStep
<1>2. \A q \in Requests : req'[q].charge = req[q].charge
    BY DEF Owed
<1>3. CountersAgree'
    BY <1>2, SameCharges DEF IInv
<1>4. TypeOK'
    BY DEF IInv, TypeOK, Owed
<1> QED
    BY <1>1, <1>3, <1>4 DEF IInv

(* A request that is over, releases, or is back at the gate's door owes     *)
(* nothing new.                                                             *)
LEMMA StandsDown ==
    ASSUME IInv, NEW r \in Requests, NEW h \in Request, Go(r, h),
           UNCHANGED <<gate, site, used, quiet>>, fresh' \subseteq fresh,
           h.at \in {"done", "settle", "acquire"},
           h.note = req[r].note, h.charge = req[r].charge, h.captured = req[r].captured,
           h.at = "acquire" => req[r].at \in {"check", "claim"} /\ h.tries = req[r].tries
    PROVE  IInv' /\ QuietStart
<1>1. /\ req[r] \in Request /\ Sound(r, req[r])
      /\ r \in fresh /\ req[r].note = "writing" => gate.owner = r
    BY DEF IInv, TypeOK, HandlersSound, GateInv, ReadsHold
<1>2. /\ req' \in [Requests -> Request]
      /\ \A q \in Requests : q # r => req'[q] = req[q]
      /\ req'[r].at = h.at
      /\ req'[r].charge = h.charge
      /\ req'[r].captured = h.captured
      /\ req'[r].note = "none" \/ (req'[r].note = h.note /\ h.at # "done")
      /\ h.at = "acquire" => req'[r].tries = h.tries
    BY GoFields DEF IInv, Request
<1>3. Owed(r)
    BY <1>1, <1>2 DEF Owed, Sound, Holding
<1> QED
    BY <1>2, <1>3, QuietStep

-----------------------------------------------------------------------------
(* Admission and the quota                                                  *)

\* The arrival of a request keeps the invariant.
LEMMA ArriveKeeps == ASSUME IInv, NEW r \in Requests, Arrive(r) PROVE IInv' /\ QuietStart
<1> DEFINE there == IF r \notin Gated THEN Spend(r)
                    ELSE IF r \in Evaluations THEN "acquire" ELSE "check"
           h == [req[r] EXCEPT !.left = DeadlineTicks, !.at = there]
<1>1. /\ req[r] \in Request /\ Sound(r, req[r]) /\ req[r].at = "idle"
      /\ UNCHANGED <<gate, fresh, site, used, quiet>>
    BY DEF IInv, TypeOK, HandlersSound, Arrive
<1>2. /\ there \in {"capture", "consume", "acquire", "check"}
      /\ there = "capture" => r \in Evaluations
      /\ r \in Gated => there \in {"acquire", "check"}
    BY DEF Spend
<1>3. Go(r, h)
    BY DEF Arrive
<1>a. there \in Stages /\ DeadlineTicks \in 0..DeadlineTicks
    BY <1>2, Bounds DEF Stages
<1> HIDE DEF there
<1>4. /\ h \in Request /\ h.at = there /\ h.note = req[r].note
      /\ h.charge = req[r].charge /\ h.captured = req[r].captured
      /\ h.tries = req[r].tries
    BY <1>1, <1>a DEF Request
<1> HIDE DEF h
<1>5. Owed(r)
    BY <1>1, <1>2, <1>3, <1>4, GoFields DEF IInv, Owed, Sound, Holding
<1> QED
    BY <1>1, <1>3, <1>4, <1>5, GoFields, QuietStep DEF IInv

\* The check of the quota keeps the invariant.
LEMMA CheckKeeps == ASSUME IInv, NEW r \in Requests, Check(r) PROVE IInv' /\ QuietStart
<1> DEFINE there == IF Decision(site, used[VisitorOf[r]]) = "ok" THEN "acquire" ELSE "done"
           h == [req[r] EXCEPT !.at = there]
<1>1. there \in {"acquire", "done"} /\ there \in Stages
    BY DEF Stages
<1>2. Go(r, h) /\ req[r].at = "check" /\ UNCHANGED <<gate, fresh, site, used, quiet>>
    BY DEF Check
<1> HIDE DEF there
<1>3. /\ h \in Request /\ h.at = there /\ h.note = req[r].note
      /\ h.charge = req[r].charge /\ h.captured = req[r].captured
      /\ h.tries = req[r].tries
    BY <1>1 DEF Request, IInv, TypeOK
<1> QED
    BY <1>1, <1>2, <1>3, StandsDown

\* An operation that fails keeps the invariant.
LEMMA ThrowKeeps == ASSUME IInv, NEW r \in Requests, Throw(r) PROVE IInv' /\ QuietStart
<1> DEFINE there == IF req[r].at \in {"consume", "charging"} THEN Finally(r) ELSE "done"
           h == [req[r] EXCEPT !.at = there]
<1>1. there \in {"settle", "done"} /\ there \in Stages
    BY DEF Stages, Finally
<1>2. Go(r, h) /\ UNCHANGED <<gate, site, used, quiet>> /\ fresh' \subseteq fresh
    BY DEF Throw
<1> HIDE DEF there
<1>3. /\ h \in Request /\ h.at = there /\ h.note = req[r].note
      /\ h.charge = req[r].charge /\ h.captured = req[r].captured
    BY <1>1 DEF Request, IInv, TypeOK
<1> QED
    BY <1>1, <1>2, <1>3, StandsDown

(* The ways out that change nothing else: a gate closed for too long, the   *)
(* instance's death, and a release that fails.                              *)
LEMMA OutKeeps ==
    ASSUME IInv, NEW r \in Requests, GateBusy(r) \/ Crash(r) \/ ReleaseFails(r)
    PROVE  IInv' /\ QuietStart
<1> DEFINE h == [req[r] EXCEPT !.at = "done"]
<1>1. Go(r, h) /\ UNCHANGED <<gate, site, used, quiet>> /\ fresh' \subseteq fresh
    BY DEF GateBusy, Crash, ReleaseFails
<1>2. /\ h \in Request /\ h.at = "done" /\ h.note = req[r].note
      /\ h.charge = req[r].charge /\ h.captured = req[r].captured
    BY DEF Request, Stages, IInv, TypeOK
<1> QED
    BY <1>1, <1>2, StandsDown

(* A read of one counter; with the second one the decision is the request's.*)
LEMMA ReadKeeps ==
    ASSUME IInv, NEW r \in Requests, ReadSite(r) \/ ReadVisitor(r)
    PROVE  IInv' /\ QuietStart
<1>1. PICK all \in Nat \cup {None}, own \in Nat \cup {None} : ReadCounters(r, all, own)
    BY PreviewAssumption DEF ReadSite, ReadVisitor, IInv, TypeOK, Request
<1> DEFINE there == IF all = None \/ own = None THEN "consume"
                    ELSE IF Decision(all, own) = "ok" THEN "charging" ELSE Finally(r)
           h == [req[r] EXCEPT !.all = all, !.own = own, !.at = there]
<1>2. /\ req[r] \in Request /\ Sound(r, req[r]) /\ req[r].at = "consume"
      /\ UNCHANGED <<gate, fresh, site, used, quiet>> /\ Go(r, h)
      /\ r \in fresh /\ req[r].note = "writing" => gate.owner = r
    BY <1>1 DEF ReadCounters, IInv, TypeOK, HandlersSound, GateInv, ReadsHold
<1>3. /\ there \in {"consume", "charging", "settle", "done"} /\ there \in Stages
      /\ there = "charging" => all \in Nat /\ own \in Nat /\ all < SiteLimit /\ own < VisitorLimit
    BY Bounds DEF Stages, Decision, Finally
<1> HIDE DEF there
<1>4. /\ h \in Request /\ h.at = there /\ h.note = req[r].note /\ h.left = req[r].left
      /\ h.charge = req[r].charge /\ h.captured = req[r].captured
      /\ h.all = all /\ h.own = own /\ h.tries = req[r].tries
    BY <1>2, <1>3 DEF Request
<1> HIDE DEF h
<1>5. CASE there \in {"settle", "done"}
    BY <1>2, <1>4, <1>5, StandsDown
<1>6. CASE there \in {"consume", "charging"}
    <2>1. /\ req' \in [Requests -> Request]
          /\ \A q \in Requests : q # r => req'[q] = req[q]
          /\ req'[r].at = there /\ req'[r].note = req[r].note /\ req'[r].left = req[r].left
          /\ req'[r].charge = req[r].charge /\ req'[r].captured = req[r].captured
          /\ req'[r].all = all /\ req'[r].own = own /\ req'[r].tries = req[r].tries
        BY <1>2, <1>4, <1>6, GoFields DEF IInv, Request
    <2>2. Owed(r)
        BY <1>2, <1>3, <1>6, <2>1 DEF Owed, Sound, Holding, IInv, GateInv, PermitsHold
    <2> QED
        BY <1>2, <2>1, <2>2, QuietStep
<1> QED
    BY <1>3, <1>5, <1>6

\* A charge that lost its race, and is tried again, keeps the invariant.
LEMMA ContendedKeeps == ASSUME IInv, NEW r \in Requests, Contended(r) PROVE IInv' /\ QuietStart
<1> DEFINE there == IF req[r].tries + 1 < QuotaAttempts THEN "consume" ELSE Finally(r)
           h == [req[r] EXCEPT !.at = there, !.tries = @ + 1, !.all = None, !.own = None]
<1>1. /\ req[r] \in Request /\ Sound(r, req[r]) /\ req[r].at = "charging"
      /\ UNCHANGED <<gate, fresh, site, used, quiet>> /\ Go(r, h)
      /\ r \in fresh /\ req[r].note = "writing" => gate.owner = r
    BY DEF Contended, IInv, TypeOK, HandlersSound, GateInv, ReadsHold
<1>2. /\ there \in {"consume", "settle", "done"} /\ there \in Stages
      /\ there = "consume" => req[r].tries + 1 < QuotaAttempts
      /\ req[r].tries \in Nat /\ req[r].tries + 1 \in 0..QuotaAttempts
    BY <1>1, Bounds DEF Stages, Finally, Sound, Request
<1> HIDE DEF there
<1>3. /\ h \in Request /\ h.at = there /\ h.note = req[r].note /\ h.left = req[r].left
      /\ h.charge = req[r].charge /\ h.captured = req[r].captured
      /\ h.tries = req[r].tries + 1
    BY <1>1, <1>2 DEF Request
<1> HIDE DEF h
<1>4. CASE there \in {"settle", "done"}
    BY <1>1, <1>3, <1>4, StandsDown
<1>5. CASE there = "consume"
    <2>1. /\ req' \in [Requests -> Request]
          /\ \A q \in Requests : q # r => req'[q] = req[q]
          /\ req'[r].at = there /\ req'[r].note = req[r].note /\ req'[r].left = req[r].left
          /\ req'[r].charge = req[r].charge /\ req'[r].captured = req[r].captured
          /\ req'[r].tries = req[r].tries + 1
        BY <1>1, <1>3, <1>5, GoFields DEF IInv, Request
    <2>2. Owed(r)
        BY <1>1, <1>2, <1>5, <2>1 DEF Owed, Sound, Holding, IInv, GateInv, PermitsHold
    <2> QED
        BY <1>1, <2>1, <2>2, QuietStep
<1> QED
    BY <1>2, <1>4, <1>5

-----------------------------------------------------------------------------
(* The gate's readers                                                       *)

\* The longer of two waits.
LEMMA LongerNat == \A a, b \in Nat : Longer(a, b) \in Nat /\ Longer(a, b) >= a /\ Longer(a, b) >= b
    BY DEF Longer

\* The read of a free gate keeps the invariant.
LEMMA GateReadKeeps == ASSUME IInv, NEW r \in Requests, GateRead(r) PROVE IInv' /\ QuietStart
<1>1. /\ req[r] \in Request /\ Sound(r, req[r]) /\ req[r].at = "acquire" /\ Ready
      /\ UNCHANGED <<gate, site, used, quiet>> /\ fresh' = fresh \cup {r}
    BY DEF GateRead, IInv, TypeOK, HandlersSound
<1>2. "claim" \in Stages /\ LeaseTicks \in 0..LeaseTicks /\ Spacing \in 0..Spacing
    BY Bounds DEF Stages
<1>3. req' = [req EXCEPT ![r] = [req[r] EXCEPT !.at = "claim", !.lease = LeaseTicks,
                                               !.pend = Spacing]]
    BY DEF GateRead, IInv, TypeOK
<1>4. /\ req'[r] \in Request /\ req'[r].at = "claim" /\ req'[r].lease = LeaseTicks
      /\ req'[r].left = req[r].left /\ req'[r].note = req[r].note
      /\ req'[r].charge = req[r].charge /\ req'[r].captured = req[r].captured
      /\ req'[r].tries = req[r].tries
    BY <1>1, <1>2, <1>3 DEF IInv, TypeOK, Request
<1>5. /\ req' \in [Requests -> Request]
      /\ \A q \in Requests : q # r => req'[q] = req[q]
    BY <1>3, <1>4 DEF IInv, TypeOK
<1>6. req[r].left <= DeadlineTicks
    BY <1>1, Bounds DEF Request
<1>7. Sound(r, req'[r])
    BY <1>1, <1>4, <1>6, Bounds DEF Sound, Request
<1>8. Owed(r)
    BY <1>1, <1>4, <1>5, <1>7 DEF Owed, Sound, Holding, Ready
<1> QED
    BY <1>1, <1>4, <1>8, QuietStep

\* A claim that lost its race keeps the invariant.
LEMMA GateConflictKeeps == ASSUME IInv, NEW r \in Requests, GateConflict(r) PROVE IInv' /\ QuietStart
<1>1. /\ req[r] \in Request /\ Sound(r, req[r]) /\ req[r].at = "claim" /\ r \notin fresh
      /\ UNCHANGED <<gate, fresh, site, used, quiet>>
    BY DEF GateConflict, IInv, TypeOK, HandlersSound
<1>2. "acquire" \in Stages /\ 0 \in 0..LeaseTicks /\ 0 \in 0..Spacing
    BY Bounds DEF Stages
<1>3. req' = [req EXCEPT ![r] = [req[r] EXCEPT !.at = "acquire", !.lease = 0, !.pend = 0]]
    BY DEF GateConflict, IInv, TypeOK
<1>4. /\ req'[r] \in Request /\ req'[r].at = "acquire" /\ req'[r].note = req[r].note
      /\ req'[r].charge = req[r].charge /\ req'[r].captured = req[r].captured
      /\ req'[r].tries = req[r].tries
    BY <1>1, <1>2, <1>3 DEF IInv, TypeOK, Request
<1>5. /\ req' \in [Requests -> Request]
      /\ \A q \in Requests : q # r => req'[q] = req[q]
    BY <1>3, <1>4 DEF IInv, TypeOK
<1>6. Owed(r)
    BY <1>1, <1>4, <1>5 DEF Owed, Sound, Holding
<1> QED
    BY <1>1, <1>4, <1>6, QuietStep

\* The end of a capture keeps the invariant.
LEMMA CaptureEndsKeeps ==
    ASSUME IInv, NEW r \in Requests, NEW wait \in {0} \cup RetryAfters, CaptureEnds(r, wait)
    PROVE  IInv' /\ QuietStart
<1> DEFINE there == Finally(r)
           next == Longer(req[r].retry, wait)
           h == [req[r] EXCEPT !.at = there, !.retry = next]
<1>1. /\ req[r] \in Request /\ Go(r, h) /\ UNCHANGED <<gate, fresh, site, used, quiet>>
    BY DEF CaptureEnds, IInv, TypeOK
<1>2. there \in {"settle", "done"} /\ there \in Stages /\ next \in Nat
    BY <1>1, PreviewAssumption, LongerNat DEF Finally, Stages, Request
<1> HIDE DEF there, next
<1>3. /\ h \in Request /\ h.at = there /\ h.note = req[r].note
      /\ h.charge = req[r].charge /\ h.captured = req[r].captured
    BY <1>1, <1>2 DEF Request
<1> QED
    BY <1>1, <1>2, <1>3, StandsDown

(* A step of the note alone: it moves within the capture and its settling.  *)
LEMMA NoteStep ==
    ASSUME IInv, NEW r \in Requests, NEW n \in {"reading", "writing", "settled"},
           NEW wait \in Nat,
           req' = [req EXCEPT ![r] = [req[r] EXCEPT !.note = n, !.retry = wait]],
           UNCHANGED <<gate, site, used, quiet>>, fresh' \subseteq fresh \cup {r},
           req[r].at \in {"capture", "settle"},
           r \in fresh' /\ n = "writing" => gate.owner = r
    PROVE  IInv' /\ QuietStart
<1>1. req[r] \in Request /\ Sound(r, req[r])
    BY DEF IInv, TypeOK, HandlersSound
<1>2. /\ req'[r] \in Request /\ req'[r].at = req[r].at /\ req'[r].note = n
      /\ req'[r].left = req[r].left
      /\ req'[r].charge = req[r].charge /\ req'[r].captured = req[r].captured
    BY <1>1 DEF IInv, TypeOK, Request
<1>3. /\ req' \in [Requests -> Request]
      /\ \A q \in Requests : q # r => req'[q] = req[q]
    BY <1>2 DEF IInv, TypeOK
<1>4. Sound(r, req'[r])
    BY <1>1, <1>2 DEF Sound
<1>5. Owed(r)
    BY <1>1, <1>2, <1>3, <1>4 DEF Owed, Holding, IInv, GateInv, PermitsHold
<1> QED
    BY <1>2, <1>5, QuietStep

\* A Retry-After seen during the capture keeps the invariant.
LEMMA ObserveKeeps ==
    ASSUME IInv, NEW r \in Requests, NEW wait \in RetryAfters, ObserveRetryAfter(r, wait)
    PROVE  IInv' /\ QuietStart
<1>1. req[r] \in Request /\ req[r].at = "capture" /\ UNCHANGED <<gate, fresh, site, used, quiet>>
    BY DEF IInv, TypeOK, ObserveRetryAfter
<1>2. PICK next \in Nat : next = Longer(req[r].retry, wait)
    BY <1>1, PreviewAssumption, LongerNat DEF Request
<1> DEFINE n == "reading"
<1>3. req' = [req EXCEPT ![r] = [req[r] EXCEPT !.note = n, !.retry = next]]
    BY <1>1, <1>2 DEF ObserveRetryAfter, IInv, TypeOK, Request
<1>4. /\ fresh' \subseteq fresh \cup {r} /\ UNCHANGED <<gate, site, used, quiet>>
      /\ n \in {"reading", "writing", "settled"} /\ n # "writing"
    BY <1>1
<1> HIDE DEF n
<1> QED
    BY <1>1, <1>2, <1>3, <1>4, NoteStep

(* A write of the note alone is one that leaves the wait as it is.          *)
LEMMA NoteSet ==
    ASSUME IInv, NEW r \in Requests, NEW n
    PROVE  /\ req[r].retry \in Nat
           /\ [req EXCEPT ![r].note = n]
                 = [req EXCEPT ![r] = [req[r] EXCEPT !.note = n, !.retry = req[r].retry]]
<1>1. req[r] \in Request
    BY DEF IInv, TypeOK
<1>2. [req[r] EXCEPT !.note = n] = [req[r] EXCEPT !.note = n, !.retry = req[r].retry]
    BY <1>1 DEF Request
<1>3. req[r].retry \in Nat
    BY <1>1 DEF Request
<1>4. [req EXCEPT ![r].note = n] = [req EXCEPT ![r] = [req[r] EXCEPT !.note = n]]
    OBVIOUS
<1> QED
    BY <1>2, <1>3, <1>4

\* The read before the note of a Retry-After keeps the invariant.
LEMMA NoteReadKeeps == ASSUME IInv, NEW r \in Requests, NoteRead(r) PROVE IInv' /\ QuietStart
<1>1. PICK n \in {"writing", "settled"} : n = IF gate.owner = r THEN "writing" ELSE "settled"
    OBVIOUS
<1>2. /\ req[r].at \in {"capture", "settle"}
      /\ req' = [req EXCEPT ![r].note = n]
      /\ fresh' \subseteq fresh \cup {r}
      /\ UNCHANGED <<gate, site, used, quiet>>
      /\ n = "writing" => gate.owner = r
    BY <1>1 DEF NoteRead, IInv, HandlersSound, Sound
<1>3. PICK wait \in Nat :
          req' = [req EXCEPT ![r] = [req[r] EXCEPT !.note = n, !.retry = wait]]
    BY <1>2, NoteSet
<1> QED
    BY <1>2, <1>3, NoteStep

\* A note that fails keeps the invariant.
LEMMA NoteFailsKeeps == ASSUME IInv, NEW r \in Requests, NoteFails(r) PROVE IInv' /\ QuietStart
<1>1. /\ req[r].at \in {"capture", "settle"}
      /\ req' = [req EXCEPT ![r].note = "settled"]
      /\ fresh' \subseteq fresh \cup {r}
      /\ UNCHANGED <<gate, site, used, quiet>>
    BY DEF NoteFails, IInv, HandlersSound, Sound
<1> QED
    BY <1>1, NoteSet, NoteStep

-----------------------------------------------------------------------------
(* The release                                                              *)

\* The read before a gate's release keeps the invariant.
LEMMA ReleaseReadKeeps == ASSUME IInv, NEW r \in Requests, ReleaseRead(r) PROVE IInv' /\ QuietStart
<1> DEFINE there == IF gate.owner = r THEN "releasing" ELSE "done"
           h == [req[r] EXCEPT !.at = there, !.pend = Spacing]
<1>1. /\ req[r] \in Request /\ Sound(r, req[r])
      /\ req[r].at = "settle" /\ req[r].note \in {"none", "settled"}
      /\ Go(r, h) /\ UNCHANGED <<gate, site, used, quiet>>
      /\ fresh' \subseteq fresh \cup {r}
    BY DEF ReleaseRead, IInv, TypeOK, HandlersSound
<1>2. /\ there \in {"releasing", "done"} /\ there \in Stages /\ Spacing \in 0..Spacing
      /\ there = "releasing" => gate.owner = r
    BY Bounds DEF Stages
<1> HIDE DEF there
<1>3. /\ h \in Request /\ h.at = there /\ h.note = req[r].note
      /\ h.charge = req[r].charge /\ h.captured = req[r].captured
    BY <1>1, <1>2 DEF Request
<1> HIDE DEF h
<1>4. /\ req' \in [Requests -> Request]
      /\ \A q \in Requests : q # r => req'[q] = req[q]
      /\ req'[r].at = there /\ req'[r].note \in {"none", "settled"}
      /\ req'[r].charge = req[r].charge /\ req'[r].captured = req[r].captured
    BY <1>1, <1>2, <1>3, GoFields DEF IInv, Request
<1>5. Owed(r)
    BY <1>1, <1>2, <1>4 DEF Owed, Sound, Holding
<1> QED
    BY <1>1, <1>4, <1>5, QuietStep

-----------------------------------------------------------------------------
(* The gate's writers                                                       *)

(* A commit makes every read of the gate stale.  What it owes: the waits    *)
(* are kept, and a gated request that may go on owns what was written.      *)
LEMMA CommitStep ==
    ASSUME IInv, NEW r \in Requests,
           req' \in [Requests -> Request],
           \A q \in Requests : q # r => req'[q] = req[q],
           Sound(r, req'[r]), req'[r].charge = req[r].charge,
           fresh' = {}, UNCHANGED <<site, used>>,
           gate' \in [owner : Requests \cup {None}, lease : 0..LeaseTicks, cool : Nat],
           gate'.owner = None => gate'.lease = 0,
           quiet' \in Nat, quiet' <= gate'.cool,
           PermitsHold', QuietStart
    PROVE  IInv' /\ QuietStart
<1>1. HandlersSound'
    BY DEF IInv, HandlersSound
<1>2. ReadsHold'
    BY DEF ReadsHold
<1>3. CountersAgree'
    BY SameCharges DEF IInv
<1>4. TypeOK'
    BY DEF IInv, TypeOK
<1> QED
    BY <1>1, <1>2, <1>3, <1>4 DEF IInv, GateInv

(* The claim finds the gate as it read it: free and quiet.                  *)
LEMMA GateClaimKeeps ==
    ASSUME IInv, NEW r \in Requests, NEW told \in BOOLEAN, GateClaim(r, told)
    PROVE  IInv' /\ QuietStart
<1> DEFINE there == IF told THEN Spend(r) ELSE "done"
           h == [req[r] EXCEPT !.at = there, !.lease = 0, !.pend = 0]
<1>1. /\ req[r] \in Request /\ Sound(r, req[r])
      /\ req[r].at = "claim" /\ r \in fresh /\ (told => req[r].left > 0)
      /\ gate' = [owner |-> r, lease |-> req[r].lease, cool |-> req[r].pend] /\ fresh' = {}
      /\ Go(r, h) /\ UNCHANGED <<site, used, quiet>>
    BY DEF GateClaim, Commit, Live, IInv, TypeOK, HandlersSound
<1>2. ~Occupied /\ gate.cool = 0 /\ quiet = 0
    BY <1>1 DEF IInv, TypeOK, GateInv, ReadsHold
<1>3. /\ there \in {"capture", "consume", "done"} /\ there \in Stages
      /\ there # "done" => req[r].left > 0
      /\ there = "capture" => r \in Evaluations
      /\ 0 \in 0..LeaseTicks /\ 0 \in 0..Spacing
    BY <1>1, Bounds DEF Stages, Spend
<1> HIDE DEF there
<1>4. /\ h \in Request /\ h.at = there /\ h.note = req[r].note /\ h.left = req[r].left
      /\ h.charge = req[r].charge /\ h.captured = req[r].captured /\ h.tries = req[r].tries
    BY <1>1, <1>3 DEF Request
<1> HIDE DEF h
<1>5. /\ req' \in [Requests -> Request]
      /\ \A q \in Requests : q # r => req'[q] = req[q]
      /\ req'[r].at = there
      /\ req'[r].charge = req[r].charge /\ req'[r].captured = req[r].captured
      /\ there = "done" => req'[r].note = "none"
      /\ there # "done" => req'[r].note = req[r].note /\ req'[r].left = req[r].left
      /\ there = "consume" => req'[r].tries = req[r].tries
    BY <1>1, <1>3, <1>4, GoFields DEF IInv, Request
<1>6. Sound(r, req'[r])
    BY <1>1, <1>3, <1>5 DEF Sound
<1>7. /\ gate' \in [owner : Requests \cup {None}, lease : 0..LeaseTicks, cool : Nat]
      /\ quiet' \in Nat /\ quiet' <= gate'.cool
      /\ gate'.owner = r /\ gate'.owner # None /\ gate'.lease = req[r].lease
    BY <1>1, <1>2, Bounds, PreviewAssumption DEF Request
<1>8. PermitsHold'
    <2> SUFFICES ASSUME NEW q \in Gated, Holding(req'[q])
                 PROVE  /\ gate'.owner = q
                        /\ gate'.lease > req'[q].left
                        /\ req'[q].at # "capture" => quiet' = 0
        BY DEF PermitsHold, Holding
    <2>1. CASE q = r
        <3>1. req[r].left > 0 /\ req'[r].left = req[r].left
            BY <1>3, <1>5, <2>1 DEF Holding
        <3>2. req[r].lease > req[r].left
            BY <1>1, <3>1 DEF Sound
        <3> QED
            BY <1>1, <1>2, <1>7, <2>1, <3>1, <3>2
    <2>2. CASE q # r
        <3>1. req'[q] = req[q] /\ q \in Requests
            BY <1>5, <2>2, PreviewAssumption
        <3>2. gate.owner = q /\ gate.lease > req[q].left /\ req[q] \in Request
            BY <3>1 DEF IInv, TypeOK, GateInv, PermitsHold
        <3>3. gate.owner # None /\ gate.lease > 0
            BY <3>1, <3>2, PreviewAssumption DEF Request, IInv, TypeOK
        <3> QED
            BY <1>2, <3>3 DEF Occupied
    <2> QED
        BY <2>1, <2>2
<1>9. QuietStart
    BY <1>2 DEF QuietStart
<1> QED
    BY <1>1, <1>5, <1>6, <1>7, <1>8, <1>9, CommitStep

(* An owner's write lengthens the wait and nothing else; nobody else holds  *)
(* a permit, and its own is for a capture that has begun.                   *)
LEMMA NoteCommitKeeps == ASSUME IInv, NEW r \in Requests, NoteCommit(r) PROVE IInv' /\ QuietStart
<1>1. /\ req[r] \in Request /\ Sound(r, req[r])
      /\ req[r].note = "writing" /\ UNCHANGED <<site, used>>
      /\ req[r].at \in {"capture", "settle"}
    BY DEF NoteCommit, IInv, TypeOK, HandlersSound, Sound
<1>2. CASE r \notin fresh
    <2>1. /\ req' = [req EXCEPT ![r].note = "reading"] /\ UNCHANGED <<gate, fresh, quiet>>
        BY <1>2 DEF NoteCommit
    <2>2. fresh' \subseteq fresh \cup {r} /\ UNCHANGED <<gate, site, used, quiet>>
        BY <1>1, <2>1
    <2> QED
        BY <1>1, <2>1, <2>2, NoteSet, NoteStep
<1>3. CASE r \in fresh
    <2>1. /\ gate' = [gate EXCEPT !.cool = Longer(gate.cool, req[r].retry)] /\ fresh' = {}
          /\ quiet' = Longer(quiet, req[r].retry)
          /\ req' = [req EXCEPT ![r].note = "settled"]
          /\ gate.owner = r
        BY <1>1, <1>3 DEF NoteCommit, Commit, IInv, GateInv, ReadsHold
    <2>2. /\ gate.cool \in Nat /\ quiet \in Nat /\ quiet <= gate.cool /\ req[r].retry \in Nat
        BY <1>1 DEF IInv, TypeOK, GateInv, Request
    <2>3. /\ gate' \in [owner : Requests \cup {None}, lease : 0..LeaseTicks, cool : Nat]
          /\ gate'.owner = gate.owner /\ gate'.lease = gate.lease
          /\ gate'.owner = None => gate'.lease = 0
          /\ quiet' \in Nat /\ quiet' <= gate'.cool
        BY <2>1, <2>2 DEF IInv, TypeOK, Longer
    <2>4. /\ req'[r] \in Request /\ req'[r].at = req[r].at /\ req'[r].note = "settled"
          /\ req'[r].left = req[r].left
          /\ req'[r].charge = req[r].charge /\ req'[r].captured = req[r].captured
        BY <1>1, <2>1 DEF IInv, TypeOK, Request
    <2>5. /\ req' \in [Requests -> Request]
          /\ \A q \in Requests : q # r => req'[q] = req[q]
        BY <2>1, <2>4 DEF IInv, TypeOK
    <2>6. Sound(r, req'[r])
        BY <1>1, <2>4 DEF Sound
    <2>7. PermitsHold'
        <3> SUFFICES ASSUME NEW q \in Gated, Holding(req'[q])
                     PROVE  /\ gate'.owner = q
                            /\ gate'.lease > req'[q].left
                            /\ req'[q].at # "capture" => quiet' = 0
            BY DEF PermitsHold, Holding
        <3>1. /\ req'[q].at = req[q].at /\ req'[q].left = req[q].left
            BY <2>4, <2>5, PreviewAssumption
        <3>2. gate.owner = q /\ gate.lease > req[q].left
            BY <3>1 DEF IInv, GateInv, PermitsHold, Holding
        <3>3. q = r /\ req[q].at = "capture"
            BY <1>1, <2>1, <3>1, <3>2 DEF Holding
        <3> QED
            BY <2>3, <3>1, <3>2, <3>3
    <2>8. QuietStart
        BY <2>4, <2>5, PreviewAssumption DEF QuietStart
    <2> QED
        BY <1>1, <2>1, <2>3, <2>4, <2>5, <2>6, <2>7, <2>8, CommitStep
<1> QED
    BY <1>2, <1>3

(* A release finds nobody else with a permit: the lease it ends is its own. *)
LEMMA ReleaseCommitKeeps == ASSUME IInv, NEW r \in Requests, ReleaseCommit(r) PROVE IInv' /\ QuietStart
<1>1. /\ req[r] \in Request /\ Sound(r, req[r])
      /\ req[r].at = "releasing" /\ UNCHANGED <<site, used>>
    BY DEF ReleaseCommit, IInv, TypeOK, HandlersSound
<1>2. CASE r \notin fresh
    <2>1. /\ req' = [req EXCEPT ![r] = [req[r] EXCEPT !.at = "settle", !.pend = 0]]
          /\ UNCHANGED <<gate, fresh, quiet>>
        BY <1>2 DEF ReleaseCommit, IInv, TypeOK
    <2>2. "settle" \in Stages /\ 0 \in 0..Spacing
        BY Bounds DEF Stages
    <2>3. /\ req'[r] \in Request /\ req'[r].at = "settle" /\ req'[r].note = req[r].note
          /\ req'[r].charge = req[r].charge /\ req'[r].captured = req[r].captured
        BY <1>1, <2>1, <2>2 DEF IInv, TypeOK, Request
    <2>4. /\ req' \in [Requests -> Request]
          /\ \A q \in Requests : q # r => req'[q] = req[q]
        BY <2>1, <2>3 DEF IInv, TypeOK
    <2>5. Owed(r)
        BY <1>1, <1>2, <2>1, <2>3, <2>4 DEF Owed, Sound, Holding
    <2> QED
        BY <1>1, <2>3, <2>5, QuietStep
<1>3. CASE r \in fresh
    <2> DEFINE h == [req[r] EXCEPT !.at = "done"]
               wait == Longer(gate.cool, Wait(r))
    <2>1. /\ gate' = [owner |-> None, lease |-> 0, cool |-> wait] /\ fresh' = {}
          /\ quiet' = Longer(quiet, Wait(r)) /\ Go(r, h)
          /\ gate.owner = r
        BY <1>1, <1>3 DEF ReleaseCommit, Commit, IInv, GateInv, ReadsHold
    <2>2. gate.cool \in Nat /\ quiet \in Nat /\ quiet <= gate.cool
        BY DEF IInv, TypeOK, GateInv
    <2>3. Wait(r) \in Nat
        <3>1. req[r].retry \in Nat /\ req[r].pend \in Nat
            BY <1>1, Bounds DEF Request
        <3> QED
            BY <3>1, LongerNat DEF Wait
    <2>4. wait \in Nat /\ quiet' \in Nat /\ quiet' <= wait
        BY <2>1, <2>2, <2>3 DEF Longer
    <2> HIDE DEF wait
    <2>5. /\ gate' \in [owner : Requests \cup {None}, lease : 0..LeaseTicks, cool : Nat]
          /\ gate'.cool = wait
        BY <2>1, <2>4, Bounds
    <2>6. /\ h \in Request /\ h.at = "done" /\ h.charge = req[r].charge
          /\ h.captured = req[r].captured
        BY <1>1 DEF Request, Stages
    <2> HIDE DEF h
    <2>7. /\ req' \in [Requests -> Request]
          /\ \A q \in Requests : q # r => req'[q] = req[q]
          /\ req'[r].at = "done" /\ req'[r].note = "none"
          /\ req'[r].charge = req[r].charge /\ req'[r].captured = req[r].captured
        BY <2>1, <2>6, GoFields DEF IInv, Request
    <2>8. Sound(r, req'[r])
        BY <1>1, <2>7 DEF Sound
    <2>9. PermitsHold'
        <3> SUFFICES ASSUME NEW q \in Gated, Holding(req'[q]) PROVE FALSE
            BY DEF PermitsHold, Holding
        <3>1. q # r /\ req'[q] = req[q]
            BY <2>7, PreviewAssumption DEF Holding
        <3> QED
            BY <2>1, <3>1 DEF IInv, GateInv, PermitsHold
    <2>10. QuietStart
        BY <2>7, PreviewAssumption DEF QuietStart
    <2> QED
        BY <1>1, <2>1, <2>4, <2>5, <2>7, <2>8, <2>9, <2>10, CommitStep
<1> QED
    BY <1>2, <1>3

-----------------------------------------------------------------------------
(* The charge                                                               *)

(* One more charge, and the counters it raised are those of its visitor and *)
(* of the site.                                                             *)
LEMMA ChargeCounts ==
    ASSUME IInv, NEW r \in Requests, req[r].charge = "none", req'[r].charge # "none",
           \A q \in Requests : q # r => req'[q].charge = req[q].charge,
           site < SiteLimit, used[VisitorOf[r]] < VisitorLimit,
           site' = site + 1,
           used' = [used EXCEPT ![VisitorOf[r]] = used[VisitorOf[r]] + 1]
    PROVE  CountersAgree'
<1> DEFINE Of(v) == {q \in Charged : VisitorOf[q] = v}
<1>1. IsFiniteSet(Charged) /\ \A v : IsFiniteSet(Of(v))
    BY PreviewAssumption, FS_Subset DEF Charged
<1>2. Charged' = Charged \cup {r} /\ r \notin Charged
    BY DEF Charged
<1>3. Cardinality(Charged') = Cardinality(Charged) + 1
    BY <1>1, <1>2, FS_AddElement
<1>4. site' = Cardinality(Charged') /\ site' <= SiteLimit
    BY <1>3, Bounds DEF IInv, TypeOK, CountersAgree
<1>5. ASSUME NEW v \in Visitors
      PROVE  /\ used'[v] = Cardinality({q \in Charged' : VisitorOf[q] = v})
             /\ used'[v] <= VisitorLimit
    <2>1. used[v] = Cardinality(Of(v)) /\ used[v] <= VisitorLimit /\ used \in [Visitors -> Nat]
        BY DEF IInv, TypeOK, CountersAgree
    <2>2. CASE v = VisitorOf[r]
        <3>1. {q \in Charged' : VisitorOf[q] = v} = Of(v) \cup {r} /\ r \notin Of(v)
            BY <1>2, <2>2
        <3>2. Cardinality({q \in Charged' : VisitorOf[q] = v}) = Cardinality(Of(v)) + 1
            <4>1. IsFiniteSet(Of(v))
                BY <1>1
            <4> HIDE DEF Of
            <4>2. Cardinality(Of(v) \cup {r}) = Cardinality(Of(v)) + 1
                BY <3>1, <4>1, FS_AddElement
            <4> QED
                BY <3>1, <4>2
        <3>3. used'[v] = used[v] + 1
            BY <2>1, <2>2
        <3> QED
            BY <2>1, <2>2, <3>2, <3>3, Bounds
    <2>3. CASE v # VisitorOf[r]
        <3>1. {q \in Charged' : VisitorOf[q] = v} = Of(v)
            BY <1>2, <2>3
        <3>2. used'[v] = used[v]
            BY <2>1, <2>3
        <3> QED
            BY <2>1, <3>1, <3>2
    <2> QED
        BY <2>2, <2>3
<1> QED
    BY <1>4, <1>5 DEF CountersAgree

\* A charge, acknowledged or not, keeps the invariant.
LEMMA ChargeKeeps ==
    ASSUME IInv, NEW r \in Requests, NEW told \in BOOLEAN, Charge(r, told)
    PROVE  IInv' /\ QuietStart
<1> DEFINE there == IF told THEN "capture" ELSE Finally(r)
           made == IF told THEN "paid" ELSE "lost"
           h == [req[r] EXCEPT !.at = there, !.charge = made]
<1>1. /\ req[r] \in Request /\ Sound(r, req[r])
      /\ req[r].at = "charging" /\ req[r].all = site /\ req[r].own = used[VisitorOf[r]]
      /\ (told => req[r].left > 0)
      /\ site' = site + 1 /\ used' = [used EXCEPT ![VisitorOf[r]] = used[VisitorOf[r]] + 1]
      /\ Go(r, h) /\ UNCHANGED <<gate, fresh, quiet>>
    BY DEF Charge, Unchanged, Live, IInv, TypeOK, HandlersSound
<1>2. /\ there \in {"capture", "settle", "done"} /\ there \in Stages
      /\ there = "capture" <=> told
      /\ made \in {"paid", "lost"} /\ (made = "paid" <=> told)
    BY DEF Stages, Finally
<1> HIDE DEF there, made
<1>3. /\ h \in Request /\ h.at = there /\ h.note = req[r].note /\ h.left = req[r].left
      /\ h.charge = made /\ h.captured = req[r].captured
    BY <1>1, <1>2 DEF Request
<1> HIDE DEF h
<1>4. /\ req' \in [Requests -> Request]
      /\ \A q \in Requests : q # r => req'[q] = req[q]
      /\ req'[r].at = there /\ req'[r].charge = made
      /\ req'[r].captured = (req[r].captured \/ (there = "capture" /\ r \notin Evaluations))
      /\ req'[r].note = "none" \/ (req'[r].note = req[r].note /\ there # "done")
      /\ there = "capture" => req'[r].left = req[r].left
    BY <1>1, <1>2, <1>3, GoFields DEF IInv, Request
<1>5. req[r].charge = "none" /\ ~(r \notin Evaluations /\ req[r].captured)
    BY <1>1 DEF Sound
<1>6. Sound(r, req'[r])
    BY <1>1, <1>2, <1>4, <1>5 DEF Sound
<1>7. Owed(r)
    BY <1>1, <1>2, <1>4, <1>6 DEF Owed, Holding, IInv, GateInv, ReadsHold, PermitsHold, Sound
<1>8. HandlersSound' /\ GateInv' /\ QuietStart
    BY <1>7, OwnStep
<1>9. CountersAgree'
    BY <1>1, <1>2, <1>4, <1>5, ChargeCounts DEF Sound
<1>10. TypeOK'
    BY <1>1, <1>4, PreviewAssumption DEF IInv, TypeOK
<1> QED
    BY <1>8, <1>9, <1>10 DEF IInv

-----------------------------------------------------------------------------
(* Time                                                                     *)

\* The clock counts down to zero.
LEMMA LessBounds ==
    \A n \in Nat : Less(n) \in Nat /\ Less(n) <= n /\ (n > 0 => Less(n) = n - 1) /\ (n = 0 => Less(n) = 0)
    BY DEF Less

\* What the clock changes of a request.
LEMMA TickFields ==
    ASSUME IInv, Tick, NEW r \in Requests
    PROVE  /\ req'[r] \in Request
           /\ req'[r].at = req[r].at /\ req'[r].note = req[r].note
           /\ req'[r].all = req[r].all /\ req'[r].own = req[r].own
           /\ req'[r].tries = req[r].tries
           /\ req'[r].charge = req[r].charge /\ req'[r].captured = req[r].captured
           /\ req'[r].left = Less(req[r].left) /\ req'[r].lease = Less(req[r].lease)
<1>1. /\ req[r] \in Request
      /\ req'[r] = [req[r] EXCEPT !.left = Less(@), !.pend = Less(@), !.lease = Less(@),
                                  !.retry = Less(@)]
    BY DEF IInv, TypeOK, Tick
<1>2. /\ req[r].left \in 0..DeadlineTicks /\ req[r].pend \in 0..Spacing
      /\ req[r].lease \in 0..LeaseTicks /\ req[r].retry \in Nat
    BY <1>1 DEF Request
<1>3. /\ Less(req[r].left) \in 0..DeadlineTicks /\ Less(req[r].pend) \in 0..Spacing
      /\ Less(req[r].lease) \in 0..LeaseTicks /\ Less(req[r].retry) \in Nat
    BY <1>2, Bounds DEF Less
<1> QED
    BY <1>1, <1>3 DEF Request

(* Lease and deadline pass together, and a capture is over by its deadline, *)
(* so a permit that may go on outlives every tick.                          *)
LEMMA TickKeeps == ASSUME IInv, Tick PROVE IInv' /\ QuietStart
<1>1. /\ gate' = [gate EXCEPT !.lease = Less(gate.lease), !.cool = Less(gate.cool)]
      /\ quiet' = Less(quiet) /\ UNCHANGED <<fresh, site, used>>
      /\ gate.lease \in 0..LeaseTicks /\ gate.cool \in Nat /\ quiet \in Nat /\ quiet <= gate.cool
    BY DEF Tick, IInv, TypeOK, GateInv
<1>2. /\ gate'.owner = gate.owner /\ gate'.lease = Less(gate.lease) /\ gate'.cool = Less(gate.cool)
      /\ gate' \in [owner : Requests \cup {None}, lease : 0..LeaseTicks, cool : Nat]
    <2>1. Less(gate.lease) \in 0..LeaseTicks /\ Less(gate.cool) \in Nat
        BY <1>1, Bounds DEF Less
    <2> QED
        BY <1>1, <2>1 DEF IInv, TypeOK
<1>. gate'.owner = None => gate'.lease = 0
    BY <1>1, <1>2, LessBounds DEF IInv, TypeOK
<1>3. TypeOK'
    <2>1. req' \in [Requests -> Request]
        BY TickFields DEF Tick
    <2> QED
        BY <1>1, <1>2, <2>1, LessBounds DEF IInv, TypeOK
<1>4. HandlersSound'
    <2> SUFFICES ASSUME NEW r \in Requests PROVE Sound(r, req'[r])
        BY DEF HandlersSound
    <2>1. /\ req[r] \in Request /\ Sound(r, req[r])
          /\ req[r].left \in Nat /\ req[r].lease \in Nat
        BY Bounds DEF IInv, TypeOK, HandlersSound, Request
    <2> QED
        BY <2>1, TickFields, LessBounds DEF Sound
<1>5. CountersAgree'
    BY <1>1, TickFields, SameCharges DEF IInv
<1>6. quiet' <= gate'.cool
    BY <1>1, <1>2 DEF Less
<1>7. ReadsHold'
    <2>1. ~Occupied => ~Occupied'
        BY <1>1, <1>2, Bounds DEF Occupied, Less
    <2>2. gate.cool = 0 => gate'.cool = 0
        BY <1>2 DEF Less
    <2>3. fresh \subseteq Requests /\ fresh' = fresh
        BY <1>1 DEF IInv, TypeOK
    <2> QED
        BY <1>2, <2>1, <2>2, <2>3, TickFields DEF IInv, GateInv, ReadsHold
<1>8. PermitsHold'
    <2> SUFFICES ASSUME NEW r \in Gated, Holding(req'[r])
                 PROVE  /\ gate'.owner = r
                        /\ gate'.lease > req'[r].left
                        /\ req'[r].at # "capture" => quiet' = 0
        BY DEF PermitsHold, Holding
    <2>1. /\ r \in Requests /\ req[r].left \in Nat /\ gate.lease \in Nat
          /\ req[r].at = "capture" => req[r].left > 0
        <3>1. r \in Requests /\ req[r] \in Request
            BY PreviewAssumption DEF IInv, TypeOK
        <3>2. req[r].left \in Nat /\ gate.lease \in Nat
            BY <1>1, <3>1, Bounds DEF Request
        <3>3. req[r].at = "capture" => req[r].left > 0
            BY <3>1 DEF Tick
        <3> QED
            BY <3>1, <3>2, <3>3
    <2>2. req[r].left > 0 /\ Holding(req[r])
        BY <2>1, TickFields, LessBounds DEF Holding
    <2>3. /\ gate.owner = r /\ gate.lease > req[r].left
          /\ req[r].at # "capture" => quiet = 0
        BY <2>2 DEF IInv, GateInv, PermitsHold
    <2> QED
        BY <1>1, <1>2, <2>1, <2>2, <2>3, TickFields, LessBounds
<1>9. QuietStart
    BY TickFields, PreviewAssumption DEF QuietStart
<1> QED
    BY <1>3, <1>4, <1>5, <1>6, <1>7, <1>8, <1>9 DEF IInv, GateInv

-----------------------------------------------------------------------------
\* The invariant holds of a free gate and an unused quota.
LEMMA InitIInv == Init => IInv
<1> SUFFICES ASSUME Init PROVE IInv
    OBVIOUS
<1>1. /\ gate = [owner |-> None, lease |-> 0, cool |-> 0]
      /\ fresh = {} /\ site = 0 /\ used = [v \in Visitors |-> 0] /\ quiet = 0
      /\ req = [r \in Requests |-> NoRequest]
    BY DEF Init
<1>2. TypeOK
    BY <1>1, Nothing, Bounds DEF TypeOK
<1>3. HandlersSound
    BY <1>1, Bounds DEF HandlersSound, Sound, NoRequest
<1>4. GateInv
    BY <1>1, PreviewAssumption DEF GateInv, ReadsHold, PermitsHold, Holding, NoRequest
<1>5. Charged = {}
    BY <1>1 DEF Charged, NoRequest
<1>6. \A v \in Visitors : {r \in Charged : VisitorOf[r] = v} = {}
    BY <1>5
<1>7. CountersAgree
    BY <1>1, <1>5, <1>6, FS_EmptySet, Bounds DEF CountersAgree
<1> QED
    BY <1>2, <1>3, <1>4, <1>7 DEF IInv

\* Every step keeps the invariant, and no quiet time is cut short.
LEMMA StepIInv == IInv /\ [Next]_vars => IInv' /\ QuietStart
<1> SUFFICES ASSUME IInv, [Next]_vars PROVE IInv' /\ QuietStart
    OBVIOUS
<1>1. ASSUME NEW r \in Requests, Work(r) PROVE IInv' /\ QuietStart
    BY <1>1, CheckKeeps, OutKeeps, GateReadKeeps, GateClaimKeeps, GateConflictKeeps, ReadKeeps,
       ChargeKeeps, ContendedKeeps, ThrowKeeps, CaptureEndsKeeps, NoteReadKeeps, NoteCommitKeeps,
       ReleaseReadKeeps, ReleaseCommitKeeps
    DEF Work, Abandon
<1>2. ASSUME NEW r \in Requests, Trouble(r) PROVE IInv' /\ QuietStart
    BY <1>2, ThrowKeeps, GateClaimKeeps, ChargeKeeps, NoteFailsKeeps, OutKeeps DEF Trouble
<1>3. ASSUME NEW r \in Requests,
             Arrive(r) \/ \E wait \in RetryAfters : ObserveRetryAfter(r, wait)
      PROVE  IInv' /\ QuietStart
    BY <1>3, ArriveKeeps, ObserveKeeps
<1>4. CASE UNCHANGED vars
    BY <1>4 DEF vars, IInv, TypeOK, HandlersSound, Sound, GateInv, ReadsHold, Occupied, PermitsHold,
        Holding, CountersAgree, Charged, QuietStart
<1> QED
    BY <1>1, <1>2, <1>3, <1>4, TickKeeps DEF Next

-----------------------------------------------------------------------------
(* RESULTS                                                                  *)

(* The gate, the counters and the handlers keep their invariant over every  *)
(* interleaving, lost answer, crash and passing of time.                    *)
THEOREM Invariance == Spec => []IInv
<1> QED
    BY InitIInv, StepIInv, PTL DEF Spec

(* Every variable keeps its type.                                           *)
THEOREM TypeCorrect == Spec => []TypeOK
<1>1. IInv => TypeOK
    BY DEF IInv
<1> QED
    BY <1>1, Invariance, PTL

(* Every anonymous capture was paid for once, every charge but those whose  *)
(* answer was lost bought one, and neither limit is ever exceeded.          *)
THEOREM QuotaSafety == Spec => []EveryCaptureIsPaid
<1>1. IInv => EveryCaptureIsPaid
    BY DEF IInv, HandlersSound, Sound, CountersAgree, EveryCaptureIsPaid
<1> QED
    BY <1>1, Invariance, PTL

(* Two captures of the gated origin never overlap, whatever becomes of the  *)
(* instances that held its lease.                                           *)
THEOREM GateSafety == Spec => []OneCaptureAtTheOrigin
<1>1. IInv => OneCaptureAtTheOrigin
    BY DEF IInv, GateInv, PermitsHold, Holding, OneCaptureAtTheOrigin
<1> QED
    BY <1>1, Invariance, PTL

(* No capture of the gated origin starts inside a wait that any owner of    *)
(* the gate has written, though later owners write the document too.        *)
THEOREM CooldownSafety == Spec => CooldownOutlivesTheLease
<1>1. IInv /\ [Next]_vars =>
          [\A r \in Gated : req[r].at # "capture" /\ req'[r].at = "capture" => quiet = 0]_vars
    BY StepIInv DEF QuietStart
<1> QED
    BY <1>1, Invariance, PTL DEF Spec, CooldownOutlivesTheLease
-----------------------------------------------------------------------------
(* THE WRITES OF THE DOCUMENTS                                              *)

\* What a step may do to the gate's document.
GateStep ==
    /\ gate.owner # None /\ gate.lease > 0 /\ gate'.owner # gate.owner =>
          gate'.owner = None /\ req[gate.owner].at = "releasing"
    /\ gate'.cool < gate.cool => Tick
    /\ gate.owner # None /\ gate'.owner = gate.owner /\ gate'.lease < gate.lease => Tick

\* A lease that is not over is given up by its owner's release and by nobody else,
\* and no write of the document, whoever makes it and however late, shortens a
\* wait that it holds or the lease of an owner: only time does.
GateIsTheOwners == [][GateStep]_vars

\* What a step may do to the day's counters.
ChargeStep ==
    /\ site' # site \/ used' # used =>
          \E r \in Requests :
             /\ req[r].charge = "none" /\ req'[r].charge # "none"
             /\ site' = site + 1
             /\ used' = [used EXCEPT ![VisitorOf[r]] = @ + 1]
    /\ \A r \in Requests : req[r].charge # "none" => req'[r].charge = req[r].charge

\* Both counters are raised or none, by one each, for one request that was not
\* charged before; no charge is booked twice, taken back or moved to another.
ChargesAreFinal == [][ChargeStep]_vars

\* A step that leaves the document alone.
LEMMA SameGate == ASSUME IInv, UNCHANGED gate PROVE GateStep
<1>1. gate.cool \in Nat /\ gate.lease \in Nat
    BY Bounds DEF IInv, TypeOK
<1> QED
    BY <1>1 DEF GateStep

\* Every write of the gate is its owner's, or finds nobody's lease.
LEMMA StepGate == IInv /\ [Next]_vars => GateStep
<1> SUFFICES ASSUME IInv, [Next]_vars PROVE GateStep
    OBVIOUS
<1>1. /\ gate.cool \in Nat /\ gate.lease \in Nat
      /\ gate \in [owner : Requests \cup {None}, lease : 0..LeaseTicks, cool : Nat]
      /\ req \in [Requests -> Request]
    BY Bounds DEF IInv, TypeOK
<1>2. ASSUME NEW r \in Requests, NEW told \in BOOLEAN, GateClaim(r, told) PROVE GateStep
    <2>1. /\ r \in fresh /\ req[r].at = "claim"
          /\ gate' = [owner |-> r, lease |-> req[r].lease, cool |-> req[r].pend]
        BY <1>2 DEF GateClaim, Commit
    <2>2. ~(gate.owner # None /\ gate.lease > 0) /\ gate.cool = 0
        BY <2>1 DEF IInv, GateInv, ReadsHold, Occupied
    <2>3. req[r].pend \in Nat /\ req[r].lease \in Nat
        BY <1>1, Bounds DEF Request
    <2>4. ~(gate'.cool < gate.cool)
        BY <2>1, <2>2, <2>3
    <2>5. gate.owner # None => gate.lease = 0 /\ ~(gate'.lease < gate.lease)
        BY <1>1, <2>1, <2>2, <2>3
    <2> QED
        BY <2>4, <2>5 DEF GateStep
<1>3. ASSUME NEW r \in Requests, NoteCommit(r) PROVE GateStep
    <2>1. CASE r \notin fresh
        BY <1>3, <2>1, SameGate DEF NoteCommit
    <2>2. CASE r \in fresh
        <3>1. gate' = [gate EXCEPT !.cool = Longer(@, req[r].retry)]
            BY <1>3, <2>2 DEF NoteCommit, Commit
        <3>2. Longer(gate.cool, req[r].retry) >= gate.cool
            BY <1>1, LongerNat DEF Request
        <3>3. gate'.owner = gate.owner /\ gate'.lease = gate.lease /\ gate'.cool >= gate.cool
            BY <1>1, <3>1, <3>2
        <3>4. gate'.cool \in Nat
            BY <1>1, <3>1, LongerNat DEF Request
        <3> QED
            BY <1>1, <3>3, <3>4 DEF GateStep
    <2> QED
        BY <2>1, <2>2
<1>4. ASSUME NEW r \in Requests, ReleaseCommit(r) PROVE GateStep
    <2>1. CASE r \notin fresh
        BY <1>4, <2>1, SameGate DEF ReleaseCommit
    <2>2. CASE r \in fresh
        <3>1. /\ req[r].at = "releasing"
              /\ gate' = [owner |-> None, lease |-> 0, cool |-> Longer(gate.cool, Wait(r))]
            BY <1>4, <2>2 DEF ReleaseCommit, Commit
        <3>2. gate.owner = r
            BY <2>2, <3>1 DEF IInv, GateInv, ReadsHold
        <3>3. Wait(r) \in Nat
            <4>1. req[r].retry \in Nat /\ req[r].pend \in Nat
                BY <1>1, Bounds DEF Request
            <4> QED
                BY <4>1, LongerNat DEF Wait
        <3>4. Longer(gate.cool, Wait(r)) \in Nat /\ Longer(gate.cool, Wait(r)) >= gate.cool
            BY <1>1, <3>3, LongerNat
        <3> QED
            BY <1>1, <3>1, <3>2, <3>4, PreviewAssumption DEF GateStep
    <2> QED
        BY <2>1, <2>2
<1>5. CASE Tick
    BY <1>1, <1>5 DEF Tick, GateStep
<1>6. CASE UNCHANGED gate
    BY <1>6, SameGate
<1>7. ASSUME NEW r \in Requests, Work(r) PROVE GateStep
    BY <1>2, <1>3, <1>4, <1>6, <1>7
    DEF Work, Check, GateBusy, GateRead, GateConflict, ReadSite, ReadVisitor, ReadCounters,
        Charge, Contended, Abandon, Throw, CaptureEnds, NoteRead, ReleaseRead
<1>8. ASSUME NEW r \in Requests, Trouble(r) PROVE GateStep
    BY <1>2, <1>6, <1>8 DEF Trouble, Throw, Charge, NoteFails, ReleaseFails, Crash
<1>9. ASSUME NEW r \in Requests, Arrive(r) \/ \E wait \in RetryAfters : ObserveRetryAfter(r, wait)
      PROVE  GateStep
    BY <1>6, <1>9 DEF Arrive, ObserveRetryAfter
<1> QED
    BY <1>5, <1>6, <1>7, <1>8, <1>9 DEF Next, vars

(* The gate's document is safe with every writer: claims find it free,      *)
(* releases are the owner's, and waits only add up.                         *)
THEOREM GateWriteSafety == Spec => GateIsTheOwners
<1>1. IInv /\ [Next]_vars => [GateStep]_vars
    BY StepGate
<1> QED
    BY <1>1, Invariance, PTL DEF Spec, GateIsTheOwners

\* A handler's step that charges nobody: its new record has its charge.
LEMMA SameCharge ==
    ASSUME IInv, NEW r \in Requests, NEW h, Go(r, h), DOMAIN h = DOMAIN NoRequest,
           h.charge = req[r].charge, UNCHANGED <<site, used>>
    PROVE  ChargeStep
<1> DEFINE g == [h EXCEPT !.captured = @ \/ (h.at = "capture" /\ r \notin Evaluations)]
<1>1. DOMAIN g = DOMAIN NoRequest /\ g.charge = h.charge
    BY DEF NoRequest
<1> HIDE DEF g
<1>2. Kept(g).charge = g.charge
    <2>1. CASE g.at = "done"
        BY <2>1 DEF Kept, NoRequest
    <2>2. CASE g.at \in {"settle", "releasing"}
        <3>1. Kept(g) = [g EXCEPT !.left = 0, !.tries = 0, !.all = None, !.own = None]
            BY <2>2, Zenon DEF Kept
        <3> QED
            BY <1>1, <3>1 DEF NoRequest
    <2>3. CASE g.at = "capture"
        <3>1. Kept(g) = [g EXCEPT !.tries = 0, !.all = None, !.own = None]
            BY <2>3, Zenon DEF Kept
        <3> QED
            BY <1>1, <3>1 DEF NoRequest
    <2>4. CASE g.at \notin {"done", "settle", "releasing", "capture"}
        BY <2>4, Zenon DEF Kept
    <2> QED
        BY <2>1, <2>2, <2>3, <2>4
<1>3. req' = [req EXCEPT ![r] = Kept(g)]
    BY DEF Go, g
<1>4. \A q \in Requests : req'[q].charge = req[q].charge
    BY <1>1, <1>2, <1>3 DEF IInv, TypeOK
<1> QED
    BY <1>4 DEF ChargeStep

\* A step that leaves every charge as it was.
LEMMA NoCharge ==
    ASSUME UNCHANGED <<site, used>>, \A q \in Requests : req'[q].charge = req[q].charge
    PROVE  ChargeStep
BY DEF ChargeStep

\* Only a charge raises the counters, and both.
LEMMA ChargeRaises ==
    ASSUME IInv, NEW r \in Requests, NEW told \in BOOLEAN, Charge(r, told)
    PROVE  ChargeStep
<1> DEFINE there == IF told THEN "capture" ELSE Finally(r)
           made == IF told THEN "paid" ELSE "lost"
           h == [req[r] EXCEPT !.at = there, !.charge = made]
<1>1. /\ req[r] \in Request /\ Sound(r, req[r])
      /\ req[r].at = "charging"
      /\ site' = site + 1 /\ used' = [used EXCEPT ![VisitorOf[r]] = used[VisitorOf[r]] + 1]
      /\ Go(r, h)
    BY DEF Charge, Unchanged, IInv, TypeOK, HandlersSound
<1>2. there \in Stages /\ made \in {"paid", "lost"}
    BY DEF Stages, Finally
<1> HIDE DEF there, made
<1>3. h \in Request /\ h.charge = made
    BY <1>1, <1>2 DEF Request
<1> HIDE DEF h
<1>4. /\ \A q \in Requests : q # r => req'[q] = req[q]
      /\ req'[r].charge = made
    BY <1>1, <1>3, GoFields DEF IInv
<1>5. req[r].charge = "none"
    BY <1>1 DEF Sound
<1> QED
    BY <1>1, <1>2, <1>4, <1>5 DEF ChargeStep

\* Every step keeps the charges there are, and raises both counters or none.
LEMMA StepCharge == IInv /\ [Next]_vars => ChargeStep
<1> SUFFICES ASSUME IInv, [Next]_vars PROVE ChargeStep
    OBVIOUS
<1>1. req \in [Requests -> Request] /\ \A r \in Requests : DOMAIN req[r] = DOMAIN NoRequest
    BY DEF IInv, TypeOK, Request, NoRequest
<1>2. ASSUME NEW r \in Requests, NEW h, Go(r, h), UNCHANGED <<site, used>>,
             DOMAIN h = DOMAIN req[r], h.charge = req[r].charge
      PROVE  ChargeStep
    BY <1>1, <1>2, SameCharge
<1>3. CASE UNCHANGED vars
    BY <1>3, NoCharge DEF vars
<1>4. CASE Tick
    <2>1. \A r \in Requests : req'[r].charge = req[r].charge
        BY <1>4, TickFields DEF IInv
    <2> QED
        BY <1>4, <2>1, NoCharge DEF Tick
<1>5. ASSUME NEW r \in Requests,
             \/ Arrive(r) \/ Check(r) \/ GateBusy(r) \/ Contended(r) \/ Throw(r) \/ Crash(r)
             \/ ReadSite(r) \/ ReadVisitor(r)
             \/ ReleaseRead(r) \/ ReleaseFails(r)
      PROVE  ChargeStep
    <2>1. CASE Arrive(r)
        BY <1>1, <1>2, <2>1 DEF Arrive, Request
    <2>2. CASE Check(r)
        BY <1>1, <1>2, <2>2 DEF Check, Request
    <2>3. CASE GateBusy(r)
        BY <1>1, <1>2, <2>3 DEF GateBusy, Request
    <2>4. CASE Contended(r)
        BY <1>1, <1>2, <2>4 DEF Contended, Request
    <2>5. CASE Throw(r)
        BY <1>1, <1>2, <2>5 DEF Throw, Request
    <2>6. CASE Crash(r)
        BY <1>1, <1>2, <2>6 DEF Crash, Request
    <2>7. ASSUME NEW all, NEW own, ReadCounters(r, all, own) PROVE ChargeStep
        BY <1>1, <1>2, <2>7 DEF ReadCounters, Request
    <2>8. CASE ReleaseRead(r)
        BY <1>1, <1>2, <2>8 DEF ReleaseRead, Request
    <2>9. CASE ReleaseFails(r)
        BY <1>1, <1>2, <2>9 DEF ReleaseFails, Request
    <2> QED
        BY <1>5, <2>1, <2>2, <2>3, <2>4, <2>5, <2>6, <2>7, <2>8, <2>9 DEF ReadSite, ReadVisitor
<1>6. ASSUME NEW r \in Requests, NEW told \in BOOLEAN, GateClaim(r, told) PROVE ChargeStep
    BY <1>1, <1>2, <1>6 DEF GateClaim, Request
<1>7. ASSUME NEW r \in Requests, NEW wait, CaptureEnds(r, wait) PROVE ChargeStep
    BY <1>1, <1>2, <1>7 DEF CaptureEnds, Request
<1>8. ASSUME NEW r \in Requests, ReleaseCommit(r) PROVE ChargeStep
    <2>1. CASE r \in fresh
        BY <1>1, <1>2, <1>8, <2>1 DEF ReleaseCommit, Request
    <2>2. CASE r \notin fresh
        <3>1. req' = [req EXCEPT ![r].at = "settle", ![r].pend = 0] /\ UNCHANGED <<site, used>>
            BY <1>8, <2>2 DEF ReleaseCommit
        <3>2. \A q \in Requests : req'[q].charge = req[q].charge
            BY <1>1, <3>1 DEF Request
        <3> QED
            BY <3>1, <3>2, NoCharge
    <2> QED
        BY <2>1, <2>2
<1>9. ASSUME NEW r \in Requests,
             \/ GateRead(r) \/ GateConflict(r) \/ NoteRead(r) \/ NoteCommit(r) \/ NoteFails(r)
             \/ \E wait \in RetryAfters : ObserveRetryAfter(r, wait)
      PROVE  ChargeStep
    <2>1. UNCHANGED <<site, used>>
        BY <1>9 DEF GateRead, GateConflict, NoteRead, NoteCommit, NoteFails, ObserveRetryAfter
    <2>2. \A q \in Requests : req'[q].charge = req[q].charge
        <3>1. CASE GateRead(r) \/ GateConflict(r)
            BY <1>1, <3>1 DEF GateRead, GateConflict, Request
        <3>2. CASE NoteRead(r) \/ NoteCommit(r) \/ NoteFails(r)
            BY <1>1, <3>2 DEF NoteRead, NoteCommit, NoteFails, Request
        <3>3. CASE \E wait \in RetryAfters : ObserveRetryAfter(r, wait)
            BY <1>1, <3>3 DEF ObserveRetryAfter, Request
        <3> QED
            BY <1>9, <3>1, <3>2, <3>3
    <2> QED
        BY <2>1, <2>2, NoCharge
<1>10. ASSUME NEW r \in Requests, Work(r) PROVE ChargeStep
    BY <1>5, <1>6, <1>7, <1>8, <1>9, <1>10, ChargeRaises DEF Work, Abandon
<1>11. ASSUME NEW r \in Requests, Trouble(r) PROVE ChargeStep
    BY <1>5, <1>6, <1>9, <1>11, ChargeRaises DEF Trouble
<1> QED
    BY <1>3, <1>4, <1>5, <1>9, <1>10, <1>11 DEF Next

(* The two counters move together and for one request at a time, whoever     *)
(* else reads and commits, and a charge is for ever.                        *)
THEOREM ChargeSafety == Spec => ChargesAreFinal
<1>1. IInv /\ [Next]_vars => [ChargeStep]_vars
    BY StepCharge
<1> QED
    BY <1>1, Invariance, PTL DEF Spec, ChargesAreFinal
=============================================================================
