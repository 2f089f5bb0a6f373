----------------------------- MODULE LadderProofs -----------------------------
(* Proofs about Ladder, for any vendors, sizes and numbers of runs: the      *)
(* answer is the best page that stands, and logins, people and vendors are   *)
(* used where the mode and the overrides allow them.                         *)
EXTENDS Ladder, SequenceTheorems, FiniteSetTheorems, WellFoundedInduction, TLAPS

-----------------------------------------------------------------------------
(* Numbers.                                                                *)

(* A set of numbers that is not empty has a least one.                      *)
LEMMA LeastOf ==
    ASSUME NEW T, T \subseteq Nat, T # {}
    PROVE  \E x \in T : \A y \in T : x <= y
<1>1. PICK R : R = OpToRel(<, Nat) /\ R = {ss \in Nat \X Nat : ss[1] < ss[2]}
    BY DEF OpToRel
<1>2. IsWellFoundedOn(R, Nat)
    BY <1>1, NatLessThanWellFounded
<1>3. PICK x \in T : \A y \in T : ~(<<y, x>> \in R)
    BY <1>2, WFMin
<1>4. \A y \in T : ~(y < x)
    BY <1>1, <1>3
<1>. QED BY <1>4

(* What holds of 0, and of k when it holds of k - 1, holds up to n.         *)
LEMMA UpTo ==
    ASSUME NEW n \in Nat, NEW S, 0 \in S, \A k \in 1 .. n : k - 1 \in S => k \in S
    PROVE  0 .. n \subseteq S
<1>. SUFFICES ASSUME (0 .. n) \ S # {} PROVE FALSE
    OBVIOUS
<1>1. PICK x \in (0 .. n) \ S : \A y \in (0 .. n) \ S : x <= y
  <2>1. (0 .. n) \ S \subseteq Nat
      OBVIOUS
  <2>. QED BY <2>1, LeastOf
<1>2. x \in 1 .. n /\ x - 1 \in S
    BY <1>1
<1>. QED BY <1>1, <1>2

(* The latest attempt with evidence is one, or there is none.               *)
LEMMA LatestIs ==
    ASSUME NEW n \in Nat, NEW T, T \subseteq 1 .. n
    PROVE  Max({0} \cup T) \in {0} \cup T
<1>. DEFINE W == {0} \cup T
            D == {n - y : y \in W}
<1>1. D \subseteq Nat /\ D # {}
    OBVIOUS
<1>2. PICK d \in D : \A e \in D : d <= e
    BY <1>1, LeastOf
<1>3. PICK x \in W : d = n - x
    BY <1>2
<1>4. \A y \in W : x >= y
  <2>. TAKE y \in W
  <2>1. n - y \in D /\ y \in Int /\ x \in Int /\ n \in Int
      OBVIOUS
  <2>2. d <= n - y
      BY <2>1, <1>2
  <2>. HIDE DEF W, D
  <2>. QED BY <2>1, <2>2, <1>3
<1>5. \E z \in W : \A y \in W : z >= y
    BY <1>4
<1>. HIDE DEF W
<1>6. Max(W) \in W
    BY <1>5, Zenon DEF Max
<1>. QED BY <1>6 DEF W

-----------------------------------------------------------------------------
(* The best page of the first attempts.                                    *)

Blocked(tried, j) == tried[j].res.is = "blocked"

(* An attempt that stands among the first m: Stands, of their prefix.       *)
StandsBy(tried, m, i) ==
    /\ tried[i].res.is = "page" /\ tried[i].res.clean
    /\ ~(tried[i].res.size = 0 /\ \E j \in 1 .. m : j > i /\ Blocked(tried, j))

(* b is the first of the largest pages that stand among them, 0 for none.   *)
FirstBest(tried, m, b) ==
    IF b = 0 THEN \A i \in 1 .. m : ~StandsBy(tried, m, i)
    ELSE /\ b \in 1 .. m /\ StandsBy(tried, m, b)
         /\ \A i \in 1 .. m : StandsBy(tried, m, i) =>
               \/ tried[i].res.size < tried[b].res.size
               \/ tried[i].res.size = tried[b].res.size /\ i >= b

SizeAt(tried, b) == IF b = 0 THEN -1 ELSE tried[b].res.size

(* What an attempt makes of the best page before it.                        *)
NextBest(tried, m, b) ==
    LET o == tried[m].res
    IN  IF o.is = "page" THEN IF o.clean /\ o.size > SizeAt(tried, b) THEN m ELSE b
        ELSE IF o.is = "blocked" /\ SizeAt(tried, b) = 0 THEN 0 ELSE b

Is == {"page", "failed", "blocked"}
Classes == {"none", "gate", "rate", "login", "vendor"}
ResultRow ==
    [is : Is, size : 0 .. MaxSize, thin : BOOLEAN, clean : BOOLEAN, cls : Classes,
     asked : BOOLEAN, evidence : BOOLEAN, later : BOOLEAN, door : BOOLEAN, login : BOOLEAN,
     resume : BOOLEAN]

(* How a result differs from a failure without a class, one change each.     *)
LEMMA FailureIs ==
    /\ Failure \in ResultRow
    /\ Failure.is = "failed" /\ Failure.clean /\ Failure.cls = "none"
    /\ ~Failure.login /\ ~Failure.door /\ ~Failure.evidence
BY LadderAssumption DEF Failure, ResultRow, Is, Classes

(* What the run relies on of a result, and of one that refuses no login.    *)
Sane(o) ==
    /\ o \in ResultRow
    /\ o.evidence => o.is = "failed"
    /\ o.door => o.is = "blocked"
NoRefusal(o) == ~o.login /\ o.cls # "login"

\* Pages, blocks and the other kinds of result, each as it is built.
LEMMA KindsAre ==
    /\ \A n \in 0 .. MaxSize : Sane(Page(n)) /\ NoRefusal(Page(n)) /\ Page(n).is = "page"
    /\ \A c \in Classes : Sane(Block(c)) /\ (c # "login" => NoRefusal(Block(c)))
                          /\ Block(c).is = "blocked"
    /\ Sane(Failure) /\ NoRefusal(Failure)
    /\ Sane(Evidence) /\ NoRefusal(Evidence)
<1>1. ASSUME NEW n \in 0 .. MaxSize
      PROVE  Sane(Page(n)) /\ NoRefusal(Page(n)) /\ Page(n).is = "page"
    BY FailureIs DEF Sane, NoRefusal, Page, ResultRow, Is
<1>2. ASSUME NEW c \in Classes
      PROVE  /\ Sane(Block(c)) /\ (c # "login" => NoRefusal(Block(c)))
             /\ Block(c).is = "blocked"
    BY FailureIs DEF Sane, NoRefusal, Block, ResultRow, Is
<1>3. Sane(Failure) /\ NoRefusal(Failure)
    BY FailureIs DEF Sane, NoRefusal
<1>4. Sane(Evidence) /\ NoRefusal(Evidence)
    BY FailureIs DEF Sane, NoRefusal, Evidence, ResultRow
<1>. QED BY <1>1, <1>2, <1>3, <1>4

(* What a result of a rung is like; a login is refused to a saved one only. *)
LEMMA ResultsAre ==
    /\ \A o \in HttpResults : Sane(o) /\ NoRefusal(o)
    /\ \A o \in BrowserResults : Sane(o) /\ NoRefusal(o)
    /\ \A o \in LoginResults : Sane(o)
    /\ Sane(NoLogin) /\ NoRefusal(NoLogin)
    /\ \A o \in VendorResults(BOOLEAN, BOOLEAN) : Sane(o) /\ NoRefusal(o)
<1>1. MaxSize \in 0 .. MaxSize /\ {"gate", "rate", "login", "vendor"} \subseteq Classes
    BY LadderAssumption DEF Classes
<1>2. Sane(RateLimit) /\ NoRefusal(RateLimit)
    BY KindsAre, <1>1 DEF RateLimit, Sane, NoRefusal, ResultRow
<1>3. ASSUME NEW o \in HttpResults PROVE Sane(o) /\ NoRefusal(o)
  <2>1. CASE \E n \in 0 .. MaxSize : o = Page(n)
      BY <2>1, KindsAre
  <2>2. CASE \E n \in 0 .. MaxSize : o = [Page(n) EXCEPT !.thin = TRUE]
    <3>. PICK n \in 0 .. MaxSize : o = [Page(n) EXCEPT !.thin = TRUE]
        BY <2>2
    <3>1. PICK p : p = Page(n)
        OBVIOUS
    <3>2. p \in ResultRow /\ Sane(p) /\ NoRefusal(p) /\ p.is = "page"
        BY <3>1, <1>1, KindsAre DEF Sane
    <3>3. o = [p EXCEPT !.thin = TRUE]
        BY <3>1
    <3>. QED BY <3>2, <3>3 DEF Sane, NoRefusal, ResultRow
  <2>3. CASE o \in {Block("gate"), RateLimit, Failure}
      BY <2>3, <1>1, <1>2, KindsAre
  <2>4. CASE o = [Evidence EXCEPT !.asked = TRUE]
      BY <2>4, KindsAre DEF Sane, NoRefusal, ResultRow
  <2>5. \/ \E n \in 0 .. MaxSize : o = Page(n)
        \/ \E n \in 0 .. MaxSize : o = [Page(n) EXCEPT !.thin = TRUE]
        \/ o \in {Block("gate"), RateLimit, Failure} \/ o = [Evidence EXCEPT !.asked = TRUE]
      BY SMT DEF HttpResults
  <2>. QED BY <2>1, <2>2, <2>3, <2>4, <2>5, Zenon
<1>4. ASSUME NEW o \in BrowserResults PROVE Sane(o) /\ NoRefusal(o)
  <2>1. CASE \E n \in 0 .. MaxSize : o = Page(n)
      BY <2>1, KindsAre
  <2>2. CASE o = [Page(MaxSize) EXCEPT !.clean = FALSE]
    <3>1. PICK p : p = Page(MaxSize)
        OBVIOUS
    <3>2. p \in ResultRow /\ Sane(p) /\ NoRefusal(p) /\ p.is = "page"
        BY <3>1, <1>1, KindsAre DEF Sane
    <3>3. o = [p EXCEPT !.clean = FALSE]
        BY <3>1, <2>2
    <3>. QED BY <3>2, <3>3 DEF Sane, NoRefusal, ResultRow
  <2>3. CASE o \in {Block("gate"), RateLimit, Failure, Evidence}
      BY <2>3, <1>1, <1>2, KindsAre
  <2>5. \/ \E n \in 0 .. MaxSize : o = Page(n)
        \/ o = [Page(MaxSize) EXCEPT !.clean = FALSE]
        \/ o \in {Block("gate"), RateLimit, Failure, Evidence}
      BY SMT DEF BrowserResults
  <2>. QED BY <2>1, <2>2, <2>3, <2>5, Zenon
<1>5. ASSUME NEW o \in LoginResults PROVE Sane(o)
  <2>1. CASE o \in BrowserResults
      BY <2>1, <1>4
  <2>2. CASE o = [Page(MaxSize) EXCEPT !.login = TRUE]
    <3>1. PICK p : p = Page(MaxSize)
        OBVIOUS
    <3>2. p \in ResultRow /\ Sane(p) /\ NoRefusal(p) /\ p.is = "page"
        BY <3>1, <1>1, KindsAre DEF Sane
    <3>3. o = [p EXCEPT !.login = TRUE]
        BY <3>1, <2>2
    <3>. QED BY <3>2, <3>3 DEF Sane, ResultRow
  <2>3. CASE o = Block("login")
      BY <2>3, <1>1, KindsAre
  <2>5. \/ o \in BrowserResults \/ o = [Page(MaxSize) EXCEPT !.login = TRUE]
        \/ o = Block("login")
      BY SMT DEF LoginResults
  <2>. QED BY <2>1, <2>2, <2>3, <2>5, Zenon
<1>6. Sane(NoLogin) /\ NoRefusal(NoLogin)
    BY KindsAre DEF NoLogin, Sane, NoRefusal, ResultRow
<1>7. ASSUME NEW o \in VendorResults(BOOLEAN, BOOLEAN) PROVE Sane(o) /\ NoRefusal(o)
  <2>1. CASE \E n \in 0 .. MaxSize, k \in BOOLEAN : o = VendorPage(n, k)
    <3>. PICK n \in 0 .. MaxSize, k \in BOOLEAN : o = VendorPage(n, k)
        BY <2>1
    <3>1. PICK p : p = Page(n)
        OBVIOUS
    <3>2. p \in ResultRow /\ Sane(p) /\ NoRefusal(p) /\ p.is = "page"
        BY <3>1, <1>1, KindsAre DEF Sane
    <3>3. o = [p EXCEPT !.resume = k]
        BY <3>1 DEF VendorPage
    <3>. QED BY <3>2, <3>3 DEF Sane, NoRefusal, ResultRow
  <2>2. CASE \E d \in BOOLEAN, k \in BOOLEAN :
               o = VendorBlock(d, k)
    <3>1. PICK d \in BOOLEAN, k \in BOOLEAN :
               o = VendorBlock(d, k)
        BY <2>2
    <3>2. PICK b : b = Block("gate")
        OBVIOUS
    <3>3. b \in ResultRow /\ b.is = "blocked" /\ NoRefusal(b) /\ ~b.evidence
        BY <3>2, <1>1, KindsAre DEF Sane
    <3>4. PICK r \in BOOLEAN : r = (d /\ k)
        OBVIOUS
    <3>5. o = [b EXCEPT !.door = d, !.resume = r]
        BY <3>1, <3>2, <3>4 DEF VendorBlock
    <3>. QED BY <3>3, <3>5 DEF Sane, NoRefusal, ResultRow
  <2>3. CASE o \in {Block("rate"), Failure, Evidence}
      BY <2>3, <1>1, KindsAre
  <2>4. CASE o = [Failure EXCEPT !.cls = "vendor"]
      BY <2>4, <1>1, KindsAre DEF Sane, NoRefusal, ResultRow
  <2>5. \/ \E n \in 0 .. MaxSize, k \in BOOLEAN : o = VendorPage(n, k)
        \/ \E d \in BOOLEAN, k \in BOOLEAN :
               o = VendorBlock(d, k)
        \/ o \in {Block("rate"), Failure, Evidence} \/ o = [Failure EXCEPT !.cls = "vendor"]
      BY SMT DEF VendorResults
  <2>. QED BY <2>1, <2>2, <2>3, <2>4, <2>5, Zenon
<1>. QED BY <1>3, <1>4, <1>5, <1>6, <1>7

(* Every result is sane.                                                    *)
LEMMA AllAreSane ==
    ASSUME NEW o \in AllResults
    PROVE  Sane(o) /\ o \in ResultRow
BY ResultsAre DEF AllResults, Sane

(* What the rung at work may come back with.                                *)
LEMMA OfferedIs ==
    ASSUME NEW o \in Offered
    PROVE  /\ o \in AllResults
           /\ ~Rejects(o) => NoRefusal(o)
<1>1. rungs # << >> \/ rungs = << >>
    OBVIOUS
<1>2. PICK c : c = Head(rungs)
    OBVIOUS
<1>3. o \in Results(c)
    BY <1>2 DEF Offered
<1>4. CASE c = "http"
  <2>1. o \in HttpResults
      BY <1>3, <1>4, Zenon DEF Results
  <2>. QED BY <2>1, ResultsAre DEF AllResults
<1>5. CASE c = "browser_local"
  <2>1. o \in BrowserResults
      BY <1>3, <1>5, Zenon DEF Results
  <2>. QED BY <2>1, ResultsAre DEF AllResults, LoginResults
<1>6. CASE c = "authed_session"
  <2>1. o \in IF run.login THEN LoginResults ELSE {NoLogin}
      BY <1>3, <1>6, Zenon DEF Results
  <2>2. o \in AllResults
      BY <2>1 DEF AllResults
  <2>3. ~Rejects(o) => NoRefusal(o)
      BY <1>2, <1>6 DEF Rejects, NoRefusal
  <2>. QED BY <2>2, <2>3
<1>7. CASE c \notin {"http", "browser_local", "authed_session"}
  <2>1. o \in VendorResults(Optional, Optional)
      BY <1>3, <1>7, Zenon DEF Results
  <2>2. Optional \subseteq BOOLEAN
      BY DEF Optional
  <2>3. o \in VendorResults(BOOLEAN, BOOLEAN)
      BY <2>1, <2>2 DEF VendorResults
  <2>. QED BY <2>3, ResultsAre DEF AllResults
<1>. QED BY <1>4, <1>5, <1>6, <1>7

-----------------------------------------------------------------------------
(* The best page, attempt by attempt.                                      *)

(* An attempt's fields.                                                     *)
LEMMA TriedIs ==
    ASSUME NEW tried \in Seq(Attempt), NEW i \in 1 .. Len(tried)
    PROVE  /\ tried[i] \in Attempt /\ tried[i].res \in AllResults /\ Sane(tried[i].res)
           /\ tried[i].res.size \in Nat /\ tried[i].res.is \in Is
           /\ tried[i].res.clean \in BOOLEAN
<1>1. tried[i] \in Attempt
    OBVIOUS
<1>2. tried[i].res \in AllResults
    BY <1>1 DEF Attempt
<1>3. Sane(tried[i].res) /\ tried[i].res \in ResultRow
    BY <1>2, AllAreSane
<1>4. \A n \in 0 .. MaxSize : n \in Nat
    BY LadderAssumption
<1>. QED BY <1>1, <1>2, <1>3, <1>4 DEF ResultRow

(* Of the attempts before, an attempt changes only whether an empty page    *)
(* stands, when it is blocked.                                              *)
LEMMA StandsNext ==
    ASSUME NEW tried \in Seq(Attempt), NEW m \in 1 .. Len(tried)
    PROVE  /\ \A i \in 1 .. m - 1 :
                StandsBy(tried, m, i) <=>
                  /\ StandsBy(tried, m - 1, i)
                  /\ ~(tried[i].res.size = 0 /\ Blocked(tried, m))
           /\ StandsBy(tried, m, m) <=> tried[m].res.is = "page" /\ tried[m].res.clean
<1>1. \A i \in 1 .. m - 1 :
        (\E j \in 1 .. m : j > i /\ Blocked(tried, j))
          <=> (\E j \in 1 .. m - 1 : j > i /\ Blocked(tried, j)) \/ Blocked(tried, m)
    OBVIOUS
<1>2. ~ \E j \in 1 .. m : j > m /\ Blocked(tried, j)
    OBVIOUS
<1>3. \A i \in 1 .. m - 1 : tried[i].res.clean \in BOOLEAN
    BY TriedIs
<1>. QED BY <1>1, <1>2, <1>3 DEF StandsBy

(* The best page after an attempt, from the best page before it.            *)
LEMMA BestNext ==
    ASSUME NEW tried \in Seq(Attempt), NEW m \in 1 .. Len(tried), NEW b,
           FirstBest(tried, m - 1, b)
    PROVE  FirstBest(tried, m, NextBest(tried, m, b))
<1>. DEFINE size(i) == tried[i].res.size
            page(i) == tried[i].res.is = "page" /\ tried[i].res.clean
<1>1. \A i \in 1 .. m : size(i) \in Nat /\ i \in Nat
  <2>1. \A i \in 1 .. m : i \in 1 .. Len(tried)
      OBVIOUS
  <2>. QED BY <2>1, TriedIs
<1>2. /\ \A i \in 1 .. m - 1 :
           StandsBy(tried, m, i) <=>
             StandsBy(tried, m - 1, i) /\ ~(size(i) = 0 /\ Blocked(tried, m))
      /\ StandsBy(tried, m, m) <=> page(m)
    BY StandsNext
<1>3. b = 0 \/ b \in 1 .. m - 1
    BY DEF FirstBest
<1>4. \A i \in 1 .. m : i = m \/ i \in 1 .. m - 1
    OBVIOUS
<1>5. CASE Blocked(tried, m)
  <2>1. ~StandsBy(tried, m, m)
      BY <1>2, <1>5 DEF Blocked
  <2>2. NextBest(tried, m, b) = IF SizeAt(tried, b) = 0 THEN 0 ELSE b
      BY <1>5 DEF NextBest, Blocked
  <2>3. CASE b = 0
    <3>1. NextBest(tried, m, b) = 0
        BY <2>2, <2>3
    <3>. QED BY <3>1, <2>1, <2>3, <1>2, <1>4 DEF FirstBest
  <2>4. CASE b # 0 /\ size(b) = 0
    <3>1. NextBest(tried, m, b) = 0
        BY <2>2, <2>4 DEF SizeAt
    <3>2. \A i \in 1 .. m - 1 : StandsBy(tried, m - 1, i) => size(i) = 0
        BY <2>4, <1>1, <1>3 DEF FirstBest
    <3>. QED BY <3>1, <3>2, <2>1, <1>2, <1>4, <1>5 DEF FirstBest
  <2>5. CASE b # 0 /\ size(b) # 0
    <3>1. NextBest(tried, m, b) = b /\ b \in 1 .. m
        BY <2>2, <2>5, <1>3 DEF SizeAt
    <3>. QED BY <3>1, <2>1, <2>5, <1>2, <1>4, <1>3 DEF FirstBest
  <2>. QED BY <2>3, <2>4, <2>5
<1>6. CASE ~Blocked(tried, m) /\ ~page(m)
  <2>1. NextBest(tried, m, b) = b
      BY <1>6 DEF NextBest, Blocked
  <2>. QED BY <2>1, <1>2, <1>3, <1>4, <1>6 DEF FirstBest
<1>7. CASE page(m)
  <2>1. ~Blocked(tried, m) /\ m # 0
      BY <1>7 DEF Blocked
  <2>2. NextBest(tried, m, b) = IF size(m) > SizeAt(tried, b) THEN m ELSE b
      BY <1>7 DEF NextBest
  <2>3. CASE b = 0
    <3>1. NextBest(tried, m, b) = m
        BY <2>2, <2>3, <1>1 DEF SizeAt
    <3>. QED BY <3>1, <2>1, <2>3, <1>2, <1>4, <1>7 DEF FirstBest
  <2>4. CASE b # 0 /\ size(m) > size(b)
    <3>1. NextBest(tried, m, b) = m
        BY <2>2, <2>4 DEF SizeAt
    <3>2. \A i \in 1 .. m - 1 : StandsBy(tried, m, i) => size(i) < size(m)
        BY <2>1, <2>4, <1>1, <1>2, <1>3 DEF FirstBest
    <3>. QED BY <3>1, <3>2, <2>1, <1>2, <1>4, <1>7 DEF FirstBest
  <2>5. CASE b # 0 /\ ~(size(m) > size(b))
    <3>1. NextBest(tried, m, b) = b /\ b \in 1 .. m /\ b \in 1 .. m - 1
        BY <2>2, <2>5, <1>3 DEF SizeAt
    <3>2. StandsBy(tried, m, b)
        BY <3>1, <2>1, <2>5, <1>2 DEF FirstBest
    <3>3. ASSUME NEW i \in 1 .. m, StandsBy(tried, m, i)
          PROVE  size(i) < size(b) \/ (size(i) = size(b) /\ i >= b)
      <4>1. CASE i = m
          BY <4>1, <3>1, <2>5, <1>1
      <4>2. CASE i \in 1 .. m - 1
          BY <4>2, <3>3, <2>5, <1>2 DEF FirstBest
      <4>. QED BY <4>1, <4>2, <1>4
    <3>. QED BY <3>1, <3>2, <3>3, <2>5 DEF FirstBest
  <2>. QED BY <2>3, <2>4, <2>5
<1>. QED BY <1>5, <1>6, <1>7

(* Nothing is the best of nothing, and attempts to come change nothing.     *)
LEMMA BestPrefix ==
    ASSUME NEW tried \in Seq(Attempt), NEW a \in Attempt, NEW b,
           FirstBest(tried, Len(tried), b)
    PROVE  FirstBest(Append(tried, a), Len(tried), b)
<1>. DEFINE t == Append(tried, a)
            n == Len(tried)
<1>1. \A i \in 1 .. n : t[i] = tried[i]
    BY AppendProperties
<1>2. \A i \in 1 .. n : StandsBy(t, n, i) <=> StandsBy(tried, n, i)
  <2>. HIDE DEF t
  <2>. QED BY <1>1 DEF StandsBy, Blocked
<1>. HIDE DEF t
<1>3. FirstBest(t, n, b)
  <2>1. CASE b = 0
      BY <1>2, <2>1 DEF FirstBest
  <2>2. CASE b # 0
    <3>1. b \in 1 .. n /\ t[b] = tried[b]
        BY <1>1, <2>2 DEF FirstBest
    <3>. QED BY <1>1, <1>2, <2>2, <3>1 DEF FirstBest
  <2>. QED BY <2>1, <2>2
<1>. QED BY <1>3 DEF t

(* The attempts t are tried with a appended; b was the best page.           *)
Grown(tried, a, b, t) ==
    /\ t \in Seq(Attempt) /\ Len(t) = Len(tried) + 1 /\ Len(tried) \in Nat
    /\ t[Len(t)] = a /\ t # << >>
    /\ \A i \in 1 .. Len(tried) : t[i] = tried[i]
    /\ FirstBest(t, Len(t), NextBest(t, Len(t), b))
    /\ SizeAt(t, b) = SizeAt(tried, b)

(* The best page once a rung's result is appended.                          *)
LEMMA BestWith ==
    ASSUME NEW tried \in Seq(Attempt), NEW a \in Attempt, NEW b,
           FirstBest(tried, Len(tried), b), NEW t, t = Append(tried, a)
    PROVE  Grown(tried, a, b, t)
<1>1. /\ t \in Seq(Attempt) /\ Len(t) = Len(tried) + 1 /\ Len(tried) \in Nat
      /\ t[Len(t)] = a /\ t # << >>
      /\ \A i \in 1 .. Len(tried) : t[i] = tried[i]
    BY AppendProperties
<1>2. FirstBest(t, Len(t) - 1, b)
    BY <1>1, BestPrefix
<1>3. FirstBest(t, Len(t), NextBest(t, Len(t), b))
  <2>1. Len(t) \in 1 .. Len(t)
      BY <1>1
  <2>. QED BY <1>1, <1>2, <2>1, BestNext
<1>4. SizeAt(t, b) = SizeAt(tried, b)
    BY <1>1 DEF SizeAt, FirstBest
<1>. QED BY <1>1, <1>3, <1>4 DEF Grown

(* What deadlineOutcome reads off the attempts, as a run over them.         *)
LEMMA LateRun ==
    ASSUME NEW tried \in Seq(Attempt)
    PROVE  \E p \in [0 .. Len(tried) -> Int] :
              /\ p[0] = 0 /\ p[Len(tried)] = LateBest(tried)
              /\ \A k \in 1 .. Len(tried) : p[k] = NextBest(tried, k, p[k - 1])
<1>. DEFINE n == Len(tried)
            body(f, i) ==
              IF i = 0 THEN 0
              ELSE LET o == tried[i].res
                       size(j) == IF j = 0 THEN -1 ELSE tried[j].res.size
                       k == IF o.is = "blocked" /\ size(f[i - 1]) = 0 THEN 0 ELSE f[i - 1]
                   IN  IF o.is = "page" /\ o.clean /\ o.size > size(k) THEN i ELSE k
            keep == CHOOSE f : f = [i \in 0 .. n |-> body(f, i)]
            Solves(f, k) == /\ f \in [0 .. k -> Int] /\ f[0] = 0
                            /\ \A i \in 1 .. k : f[i] = NextBest(tried, i, f[i - 1])
            S == {k \in 0 .. n : \E f : Solves(f, k)}
<1>1. LateBest(tried) = keep[n]
    BY DEF LateBest
<1>2. n \in Nat
    OBVIOUS
<1>3. ASSUME NEW f, NEW i \in 1 .. n PROVE body(f, i) = NextBest(tried, i, f[i - 1])
  <2>1. i # 0
      OBVIOUS
  <2>2. CASE tried[i].res.is = "page"
      BY <2>1, <2>2 DEF NextBest, SizeAt
  <2>3. CASE tried[i].res.is # "page"
      BY <2>1, <2>3 DEF NextBest, SizeAt
  <2>. QED BY <2>2, <2>3
<1>4. 0 \in S
  <2>. DEFINE f == [i \in 0 .. 0 |-> 0]
  <2>1. Solves(f, 0)
      OBVIOUS
  <2>2. 0 \in 0 .. n
      BY <1>2
  <2>. HIDE DEF f, Solves
  <2>. QED BY <2>1, <2>2
<1>5. ASSUME NEW k \in 1 .. n, k - 1 \in S PROVE k \in S
  <2>1. PICK f : Solves(f, k - 1)
      BY <1>5
  <2>2. k - 1 \in 0 .. k - 1 /\ k \in 0 .. n
      OBVIOUS
  <2>3. f[k - 1] \in Int
      BY <2>1, <2>2
  <2>. DEFINE v == NextBest(tried, k, f[k - 1])
              g == [i \in 0 .. k |-> IF i = k THEN v ELSE f[i]]
  <2>4. v \in Int
      BY <2>3 DEF NextBest
  <2>5. Solves(g, k)
    <3>. HIDE DEF v
    <3>1. g \in [0 .. k -> Int] /\ g[0] = 0 /\ g[k] = v
        BY <2>1, <2>4
    <3>2. \A i \in 0 .. k - 1 : g[i] = f[i]
        OBVIOUS
    <3>. HIDE DEF g
    <3>3. \A i \in 1 .. k : g[i] = NextBest(tried, i, g[i - 1])
      <4>. TAKE i \in 1 .. k
      <4>1. i - 1 \in 0 .. k - 1 /\ g[i - 1] = f[i - 1]
          BY <3>2
      <4>2. CASE i = k
          BY <4>1, <4>2, <3>1 DEF v
      <4>3. CASE i # k
          BY <4>1, <4>3, <3>2, <2>1
      <4>. QED BY <4>2, <4>3
    <3>. QED BY <3>1, <3>3
  <2>. HIDE DEF Solves, g
  <2>. QED BY <2>2, <2>5
<1>6. n \in S
  <2>. HIDE DEF S
  <2>1. \A k \in 1 .. n : k - 1 \in S => k \in S
      BY <1>5
  <2>2. 0 .. n \subseteq S
      BY <1>2, <1>4, <2>1, UpTo
  <2>. QED BY <1>2, <2>2
<1>7. PICK f : Solves(f, n)
    BY <1>6
<1>8. f = [i \in 0 .. n |-> body(f, i)]
  <2>1. \A i \in 0 .. n : f[i] = body(f, i)
    <3>. TAKE i \in 0 .. n
    <3>1. CASE i = 0
        BY <3>1, <1>7
    <3>2. CASE i # 0
      <4>1. i \in 1 .. n
          BY <3>2
      <4>. QED BY <4>1, <1>3, <1>7
    <3>. QED BY <3>1, <3>2
  <2>. HIDE DEF body
  <2>. QED BY <2>1, <1>7
<1>9. keep = [i \in 0 .. n |-> body(keep, i)]
  <2>. HIDE DEF body
  <2>. QED BY <1>8, Zenon
<1>10. \A i \in 0 .. n : keep[i] = body(keep, i)
  <2>. HIDE DEF body, keep
  <2>. QED BY <1>9
<1>11. \A i \in 1 .. n : keep[i] = NextBest(tried, i, keep[i - 1])
  <2>. TAKE i \in 1 .. n
  <2>1. i \in 0 .. n
      OBVIOUS
  <2>. HIDE DEF body, keep
  <2>. QED BY <2>1, <1>3, <1>10
<1>12. keep[0] = 0
  <2>1. 0 \in 0 .. n /\ body(keep, 0) = 0
      BY <1>2
  <2>. HIDE DEF body, keep
  <2>. QED BY <2>1, <1>10
<1>13. keep \in [0 .. n -> Int]
  <2>. DEFINE Z == {i \in 0 .. n : keep[i] \in Int}
  <2>1. 0 \in Z
    <3>. HIDE DEF keep
    <3>. QED BY <1>2, <1>12
  <2>2. ASSUME NEW i \in 1 .. n, i - 1 \in Z PROVE i \in Z
    <3>. HIDE DEF keep
    <3>. QED BY <2>2, <1>11 DEF NextBest
  <2>3. 0 .. n \subseteq Z
    <3>. HIDE DEF Z
    <3>. QED BY <1>2, <2>1, <2>2, UpTo
  <2>. HIDE DEF body
  <2>4. \A i \in 0 .. n : keep[i] \in Int
      BY <2>3
  <2>. HIDE DEF keep
  <2>. QED BY <1>9, <2>4
<1>. HIDE DEF keep
<1>. QED BY <1>1, <1>11, <1>12, <1>13

(* deadlineOutcome finds the best page of all the attempts.                 *)
LEMMA LateBestIs ==
    ASSUME NEW tried \in Seq(Attempt)
    PROVE  FirstBest(tried, Len(tried), LateBest(tried))
<1>. DEFINE n == Len(tried)
<1>1. PICK p \in [0 .. n -> Int] :
        /\ p[0] = 0 /\ p[n] = LateBest(tried)
        /\ \A k \in 1 .. n : p[k] = NextBest(tried, k, p[k - 1])
    BY LateRun
<1>. DEFINE S == {k \in 0 .. n : FirstBest(tried, k, p[k])}
<1>2. n \in Nat
    OBVIOUS
<1>3. 0 \in S
    BY <1>1, <1>2 DEF FirstBest
<1>4. ASSUME NEW k \in 1 .. n, k - 1 \in S PROVE k \in S
    BY <1>1, <1>4, BestNext
<1>5. 0 .. n \subseteq S
  <2>. HIDE DEF S
  <2>. QED BY <1>2, <1>3, <1>4, UpTo
<1>. QED BY <1>1, <1>2, <1>5

-----------------------------------------------------------------------------
(* The answer.                                                             *)

(* What BestPageIsKept says of an answer, whatever ends the run with it.    *)
GoodAnswer(tried, at, as) ==
    LET pages == {i \in 1 .. Len(tried) : StandsBy(tried, Len(tried), i)}
        o == tried[at].res
    IN  IF pages # {}
        THEN /\ at \in pages
             /\ \A i \in pages : \/ tried[i].res.size < o.size
                                 \/ tried[i].res.size = o.size /\ i >= at
        ELSE IF at = 0 THEN LatestEvidence(tried) = 0
        ELSE /\ o.is = "page" => as = "compromised"
             /\ /\ o.is = "failed" /\ o.cls = "none" /\ ~o.evidence
                /\ ~Last(tried).again
                => LatestEvidence(tried) = 0

(* The latest page kept as evidence is one of the attempts', or none is.    *)
LEMMA EvidenceIs ==
    ASSUME NEW tried \in Seq(Attempt)
    PROVE  /\ LatestEvidence(tried) \in 0 .. Len(tried)
           /\ LatestEvidence(tried) # 0 =>
                /\ tried[LatestEvidence(tried)].res.evidence
                /\ tried[LatestEvidence(tried)].res.is = "failed"
<1>. DEFINE T == {i \in DOMAIN tried : tried[i].res.evidence}
<1>1. T \subseteq 1 .. Len(tried) /\ Len(tried) \in Nat
    OBVIOUS
<1>2. Max({0} \cup T) \in {0} \cup T
  <2>. HIDE DEF T
  <2>. QED BY <1>1, LatestIs
<1>3. PICK e : e = LatestEvidence(tried)
    OBVIOUS
<1>4. e = 0 \/ e \in T
    BY <1>2, <1>3 DEF LatestEvidence
<1>5. e \in T => e \in 1 .. Len(tried) /\ tried[e].res.evidence
    BY <1>1
<1>6. e \in T => tried[e].res.is = "failed"
    BY <1>5, TriedIs DEF Sane
<1>. HIDE DEF T
<1>. QED BY <1>1, <1>3, <1>4, <1>5, <1>6

(* The best page is a good answer, and so is, when there is none, what was  *)
(* kept as evidence or said last.                                           *)
LEMMA GoodIs ==
    ASSUME NEW tried \in Seq(Attempt), NEW b, FirstBest(tried, Len(tried), b), NEW as
    PROVE  /\ b # 0 => b \in 1 .. Len(tried) /\ GoodAnswer(tried, b, as)
           /\ b = 0 =>
                \A at \in 0 .. Len(tried) :
                   /\ at = 0 => LatestEvidence(tried) = 0
                   /\ at # 0 /\ tried[at].res.is = "page" => as = "compromised"
                   /\ /\ at # 0 /\ tried[at].res.is = "failed" /\ tried[at].res.cls = "none"
                      /\ ~tried[at].res.evidence /\ ~Last(tried).again
                      => LatestEvidence(tried) = 0
                   => GoodAnswer(tried, at, as)
<1>. DEFINE pages == {i \in 1 .. Len(tried) : StandsBy(tried, Len(tried), i)}
<1>1. CASE b # 0
  <2>1. b \in pages /\ b \in 1 .. Len(tried)
      BY <1>1 DEF FirstBest
  <2>2. \A i \in pages : \/ tried[i].res.size < tried[b].res.size
                         \/ tried[i].res.size = tried[b].res.size /\ i >= b
      BY <1>1 DEF FirstBest
  <2>3. GoodAnswer(tried, b, as)
      BY <2>1, <2>2 DEF GoodAnswer
  <2>. QED BY <1>1, <2>1, <2>3
<1>2. CASE b = 0
  <2>1. pages = {}
      BY <1>2 DEF FirstBest
  <2>2. \A at : GoodAnswer(tried, at, as) <=>
           IF at = 0 THEN LatestEvidence(tried) = 0
           ELSE /\ tried[at].res.is = "page" => as = "compromised"
                /\ /\ tried[at].res.is = "failed" /\ tried[at].res.cls = "none"
                   /\ ~tried[at].res.evidence /\ ~Last(tried).again
                   => LatestEvidence(tried) = 0
      BY <2>1 DEF GoodAnswer
  <2>. QED BY <1>2, <2>2
<1>. QED BY <1>1, <1>2

(* A run that is over answers well, with the page kept or its last word.    *)
LEMMA ConcludeGood ==
    ASSUME NEW tried \in Seq(Attempt), tried # << >>, NEW b,
           FirstBest(tried, Len(tried), b), Conclude(tried, b)
    PROVE  /\ phase' = "ended" /\ answer' = [at |-> answer'.at, as |-> answer'.as]
           /\ answer'.at \in 1 .. Len(tried) /\ answer'.as \in {"itself", "compromised"}
           /\ GoodAnswer(tried, answer'.at, answer'.as)
<1>1. CASE b # 0
  <2>1. phase' = "ended" /\ answer' = [at |-> b, as |-> "itself"]
      BY <1>1 DEF Conclude, Answer
  <2>2. b \in 1 .. Len(tried) /\ GoodAnswer(tried, b, "itself")
      BY <1>1, GoodIs
  <2>. QED BY <2>1, <2>2
<1>2. CASE b = 0
  <2>1. PICK at, as : /\ at = FailedAnswer(tried)
                      /\ as = (IF tried[at].res.clean THEN "itself" ELSE "compromised")
      OBVIOUS
  <2>2. phase' = "ended" /\ answer' = [at |-> at, as |-> as]
      BY <1>2, <2>1 DEF Conclude, Answer
  <2>3. Len(tried) \in 1 .. Len(tried) /\ Len(tried) \in Nat /\ Last(tried) = tried[Len(tried)]
      BY DEF Last
  <2>4. PICK l, e : l = tried[Len(tried)].res /\ e = LatestEvidence(tried)
      OBVIOUS
  <2>5. at = IF l.is = "failed" /\ ~l.evidence /\ l.cls = "none" /\ e # 0 THEN e ELSE Len(tried)
      BY <2>1, <2>3, <2>4 DEF FailedAnswer
  <2>6. /\ e \in 0 .. Len(tried)
        /\ e # 0 => tried[e].res.evidence /\ tried[e].res.is = "failed"
      BY <2>4, EvidenceIs
  <2>7. at \in 1 .. Len(tried) /\ at \in 0 .. Len(tried) /\ at # 0
      BY <2>3, <2>5, <2>6
  <2>8. tried[at].res.is = "page" => as = "compromised"
    <3>. SUFFICES ASSUME tried[at].res.is = "page", tried[at].res.clean PROVE FALSE
        BY <2>1
    <3>1. at = Len(tried)
        BY <2>5, <2>6
    <3>2. StandsBy(tried, Len(tried), Len(tried))
        BY <3>1, <2>3 DEF StandsBy
    <3>. QED BY <3>2, <2>3, <1>2 DEF FirstBest
  <2>9. /\ tried[at].res.is = "failed" /\ tried[at].res.cls = "none"
        /\ ~tried[at].res.evidence /\ ~Last(tried).again
        => LatestEvidence(tried) = 0
      BY <2>4, <2>5, <2>6
  <2>10. GoodAnswer(tried, at, as)
      BY <2>7, <2>8, <2>9, <1>2, GoodIs
  <2>. QED BY <2>1, <2>2, <2>7, <2>10
<1>. QED BY <1>1, <1>2

(* A deadline answers well, with a partial page or the latest evidence.     *)
LEMMA DeadlineGood ==
    ASSUME NEW tried \in Seq(Attempt), DeadlineOutcome(tried)
    PROVE  /\ phase' = "ended" /\ answer' = [at |-> answer'.at, as |-> answer'.as]
           /\ answer'.at \in 0 .. Len(tried) /\ answer'.as \in {"partial", "timeout"}
           /\ GoodAnswer(tried, answer'.at, answer'.as)
<1>1. PICK b, e : b = LateBest(tried) /\ e = LatestEvidence(tried)
    OBVIOUS
<1>2. FirstBest(tried, Len(tried), b)
    BY <1>1, LateBestIs
<1>3. CASE b # 0
  <2>1. phase' = "ended" /\ answer' = [at |-> b, as |-> "partial"]
      BY <1>1, <1>3 DEF DeadlineOutcome, Answer
  <2>2. b \in 1 .. Len(tried) /\ GoodAnswer(tried, b, "partial")
      BY <1>2, <1>3, GoodIs
  <2>. QED BY <2>1, <2>2
<1>4. CASE b = 0
  <2>1. phase' = "ended" /\ answer' = [at |-> e, as |-> "timeout"]
      BY <1>1, <1>4 DEF DeadlineOutcome, Answer
  <2>2. /\ e \in 0 .. Len(tried)
        /\ e # 0 => tried[e].res.evidence /\ tried[e].res.is = "failed"
      BY <1>1, EvidenceIs
  <2>3. GoodAnswer(tried, e, "timeout")
      BY <1>1, <1>2, <1>4, <2>2, GoodIs
  <2>. QED BY <2>1, <2>2, <2>3
<1>. QED BY <1>3, <1>4

(* A good answer keeps the best page.                                       *)
LEMMA GoodIsKept ==
    attempts \in Seq(Attempt) /\ GoodAnswer(attempts, answer.at, answer.as) => BestPageIsKept
<1>. SUFFICES ASSUME attempts \in Seq(Attempt), GoodAnswer(attempts, answer.at, answer.as)
              PROVE  BestPageIsKept
    OBVIOUS
<1>1. DOMAIN attempts = 1 .. Len(attempts)
    OBVIOUS
<1>2. \A i \in 1 .. Len(attempts) : Stands(i) <=> StandsBy(attempts, Len(attempts), i)
    BY <1>1 DEF Stands, StandsBy, Blocked
<1>3. {i \in DOMAIN attempts : Stands(i)}
        = {i \in 1 .. Len(attempts) : StandsBy(attempts, Len(attempts), i)}
    BY <1>1, <1>2
<1>. QED BY <1>3 DEF BestPageIsKept, GoodAnswer

-----------------------------------------------------------------------------
(* The rungs of a run.                                                     *)

LocalRungs == {"http", "browser_local", "authed_session"}

(* Each vendor has one rung, beside the three local ones.                   *)
LEMMA RungsAre ==
    /\ Len(Vendors) \in Nat /\ Vendors \in Seq(VendorRungs) /\ DOMAIN Vendors = 1 .. Len(Vendors)
    /\ \A i, j \in 1 .. Len(Vendors) : Vendors[i] = Vendors[j] => i = j
    /\ VendorRungs \cap LocalRungs = {} /\ None \notin Rungs
    /\ Rungs = LocalRungs \cup VendorRungs
    /\ IsFiniteSet(VendorRungs) /\ Cardinality(VendorRungs) = Len(Vendors)
    /\ Cardinality(Rungs) = Len(Vendors) + 3
<1>1. /\ Len(Vendors) \in Nat /\ Vendors \in Seq(VendorRungs)
      /\ DOMAIN Vendors = 1 .. Len(Vendors)
    BY LadderAssumption DEF VendorRungs
<1>2. \A i, j \in 1 .. Len(Vendors) : Vendors[i] = Vendors[j] => i = j
    BY <1>1, LadderAssumption DEF IsInjective
<1>3. VendorRungs \cap LocalRungs = {} /\ None \notin Rungs
    BY LadderAssumption DEF VendorRungs, LocalRungs, Rungs
<1>4. Rungs = LocalRungs \cup VendorRungs
    BY DEF Rungs, LocalRungs
<1>5. IsFiniteSet(VendorRungs) /\ Cardinality(VendorRungs) = Len(Vendors)
  <2>1. Vendors \in [1 .. Len(Vendors) -> VendorRungs]
      BY <1>1
  <2>2. \A v \in VendorRungs : \E i \in 1 .. Len(Vendors) : Vendors[i] = v
      BY <1>1 DEF VendorRungs, Range
  <2>3. Vendors \in Surjection(1 .. Len(Vendors), VendorRungs)
      BY <2>1, <2>2 DEF Surjection
  <2>4. Vendors \in Injection(1 .. Len(Vendors), VendorRungs)
      BY <2>1, <1>2 DEF Injection, IsInjective
  <2>5. IsFiniteSet(1 .. Len(Vendors)) /\ Cardinality(1 .. Len(Vendors)) = Len(Vendors)
      BY <1>1, FS_Interval
  <2>. QED BY <2>3, <2>4, <2>5, FS_Surjection
<1>6. Cardinality(Rungs) = Len(Vendors) + 3
  <2>1. PICK A, B, C : /\ A = VendorRungs \cup {"http"} /\ B = A \cup {"browser_local"}
                       /\ C = B \cup {"authed_session"}
      OBVIOUS
  <2>2. "http" \notin VendorRungs /\ "browser_local" \notin A /\ "authed_session" \notin B
      BY <2>1, <1>3 DEF LocalRungs
  <2>3. IsFiniteSet(A) /\ Cardinality(A) = Len(Vendors) + 1
      BY <1>5, <2>1, <2>2, FS_AddElement
  <2>4. IsFiniteSet(B) /\ Cardinality(B) = Cardinality(A) + 1
      BY <2>1, <2>2, <2>3, FS_AddElement
  <2>5. IsFiniteSet(C) /\ Cardinality(C) = Cardinality(B) + 1
      BY <2>1, <2>2, <2>4, FS_AddElement
  <2>6. C = Rungs
      BY <2>1, <1>4 DEF LocalRungs
  <2>. QED BY <1>1, <2>3, <2>4, <2>5, <2>6
<1>. QED BY <1>1, <1>2, <1>3, <1>4, <1>5, <1>6

(* A ranking names every vendor, each once.                                 *)
LEMMA RankedIs ==
    ASSUME NEW ranked \in SetToSeqs(VendorRungs)
    PROVE  /\ ranked \in [1 .. Len(Vendors) -> VendorRungs] /\ Len(ranked) = Len(Vendors)
           /\ \A i, j \in 1 .. Len(Vendors) : ranked[i] = ranked[j] => i = j
           /\ \A v \in VendorRungs : \E i \in 1 .. Len(Vendors) : ranked[i] = v
<1>1. /\ ranked \in [1 .. Len(Vendors) -> VendorRungs]
      /\ \A i, j \in 1 .. Len(Vendors) : ranked[i] = ranked[j] => i = j
    BY RungsAre DEF SetToSeqs
<1>2. Len(ranked) = Len(Vendors)
    BY <1>1, RungsAre
<1>3. \A v \in VendorRungs : \E i \in 1 .. Len(Vendors) : ranked[i] = v
  <2>1. ranked \in Injection(1 .. Len(Vendors), VendorRungs)
      BY <1>1 DEF Injection, IsInjective
  <2>2. Cardinality(1 .. Len(Vendors)) = Len(Vendors)
    <3>1. PICK n : n = Len(Vendors)
        OBVIOUS
    <3>2. n \in Int /\ n >= 0
        BY <3>1, RungsAre
    <3>3. Cardinality(1 .. n) = IF 1 > n THEN 0 ELSE n - 1 + 1
        BY <3>2, FS_Interval
    <3>. QED BY <3>1, <3>2, <3>3
  <2>3. ranked \in Surjection(1 .. Len(Vendors), VendorRungs)
      BY <2>1, <2>2, RungsAre, FS_Injection
  <2>. QED BY <2>3 DEF Surjection
<1>. QED BY <1>1, <1>2, <1>3

(* The vendor that goes first is one, and not the one that broke last when  *)
(* there is another.                                                        *)
LEMMA StartingIs ==
    ASSUME NEW ranked \in SetToSeqs(VendorRungs), Len(Vendors) > 1,
           history.last \in VendorRungs \cup {None}, history.broken \in SUBSET VendorRungs
    PROVE  /\ StartingVendor(ranked) \in VendorRungs
           /\ history.last \in history.broken => StartingVendor(ranked) # history.last
<1>1. /\ ranked \in [1 .. Len(Vendors) -> VendorRungs] /\ Len(ranked) = Len(Vendors)
      /\ \A i, j \in 1 .. Len(Vendors) : ranked[i] = ranked[j] => i = j
      /\ \A v \in VendorRungs : \E i \in 1 .. Len(Vendors) : ranked[i] = v
      /\ Len(Vendors) \in Nat
    BY RankedIs, RungsAre
<1>2. CASE history.last \in history.broken
  <2>1. PICK n \in Nat : n = Len(Vendors)
      BY <1>1
  <2>2. PICK k : k = CHOOSE i \in DOMAIN ranked : ranked[i] = history.last
      OBVIOUS
  <2>3. k \in 1 .. n /\ ranked[k] = history.last
      BY <1>1, <1>2, <2>1, <2>2
  <2>4. PICK m : m = (k % n) + 1
      OBVIOUS
  <2>5. m = IF k = n THEN 1 ELSE k + 1
      BY <2>1, <2>3, <2>4
  <2>6. m \in 1 .. n /\ m # k
      BY <2>1, <2>3, <2>5
  <2>7. StartingVendor(ranked) = ranked[m]
      BY <1>1, <1>2, <2>1, <2>2, <2>4 DEF StartingVendor
  <2>. QED BY <1>1, <2>1, <2>3, <2>6, <2>7
<1>3. CASE history.last \notin history.broken
  <2>1. StartingVendor(ranked) = ranked[1] /\ 1 \in 1 .. Len(Vendors)
      BY <1>1, <1>3 DEF StartingVendor
  <2>. QED BY <1>1, <1>3, <2>1
<1>. QED BY <1>2, <1>3

(* No rung of a sequence is there twice.                                    *)
Distinct(s) == \A j, k \in DOMAIN s : s[j] = s[k] => j = k

(* orderProviders: every vendor once, the starting one first.                *)
LEMMA OrderIs ==
    ASSUME NEW ranked \in SetToSeqs(VendorRungs), NEW q, q = OrderProviders(ranked),
           history.last \in VendorRungs \cup {None}, history.broken \in SUBSET VendorRungs
    PROVE  /\ q \in Seq(VendorRungs) /\ Len(q) <= Len(Vendors) /\ Distinct(q)
           /\ Len(Vendors) > 1 /\ history.last \in history.broken =>
                Len(q) >= 1 /\ q[1] # history.last
<1>1. Len(Vendors) \in Nat /\ Vendors \in Seq(VendorRungs) /\ DOMAIN Vendors = 1 .. Len(Vendors)
    BY RungsAre
<1>2. CASE Len(Vendors) <= 1
    BY <1>1, <1>2, RungsAre DEF OrderProviders, Distinct
<1>3. CASE Len(Vendors) > 1
  <2>1. PICK n, v : n = Len(Vendors) /\ v = StartingVendor(ranked)
      OBVIOUS
  <2>2. v \in VendorRungs /\ (history.last \in history.broken => v # history.last)
      BY <1>3, <2>1, StartingIs
  <2>3. PICK k : k = CHOOSE i \in DOMAIN Vendors : Vendors[i] = v
      OBVIOUS
  <2>4. k \in 1 .. n /\ n \in Nat /\ n > 1 /\ k \in Nat /\ k >= 1 /\ k <= n
    <3>1. \E i \in DOMAIN Vendors : Vendors[i] = v
        BY <2>2 DEF VendorRungs, Range
    <3>2. k \in DOMAIN Vendors
        BY <3>1, <2>3
    <3>. QED BY <3>2, <2>1, <1>1, <1>3
  <2>5. PICK a, c : a = SubSeq(Vendors, 1, k - 1) /\ c = SubSeq(Vendors, k + 1, n)
      OBVIOUS
  <2>6. q = << v >> \o RemoveAt(Vendors, k)
      BY <1>1, <1>3, <2>1, <2>3 DEF OrderProviders
  <2>7. RemoveAt(Vendors, k) = a \o c
      BY <2>1, <2>5 DEF RemoveAt
  <2>8. a \in Seq(VendorRungs) /\ Len(a) = k - 1 /\ \A i \in 1 .. k - 1 : a[i] = Vendors[i]
    <3>1. \A i \in 1 .. k - 1 : Vendors[i] \in VendorRungs
        BY <1>1, <2>1, <2>4
    <3>2. Len(a) = IF 1 <= k - 1 THEN (k - 1) - 1 + 1 ELSE 0
        BY <2>4, <2>5, <3>1, SubSeqProperties
    <3>3. a \in Seq(VendorRungs)
        BY <2>4, <2>5, <3>1, SubSeqProperties
    <3>4. \A i \in 1 .. k - 1 : a[i] = Vendors[i]
        BY <2>4, <2>5, <3>2, <3>3
    <3>. QED BY <2>4, <3>2, <3>3, <3>4
  <2>9. c \in Seq(VendorRungs) /\ Len(c) = n - k /\ \A i \in 1 .. n - k : c[i] = Vendors[k + i]
    <3>1. \A i \in k + 1 .. n : Vendors[i] \in VendorRungs
        BY <1>1, <2>1, <2>4
    <3>2. Len(c) = IF k + 1 <= n THEN n - (k + 1) + 1 ELSE 0
        BY <2>4, <2>5, <3>1, SubSeqProperties
    <3>3. c \in Seq(VendorRungs)
        BY <2>4, <2>5, <3>1, SubSeqProperties
    <3>4. \A i \in 1 .. n - k : c[i] = Vendors[k + i]
        BY <2>4, <2>5, <3>2, <3>3
    <3>. QED BY <2>4, <3>2, <3>3, <3>4
  <2>10. PICK d : d = a \o c
      OBVIOUS
  <2>11. /\ d \in Seq(VendorRungs) /\ Len(d) = Len(a) + Len(c)
         /\ \A i \in 1 .. Len(a) + Len(c) : d[i] = IF i <= Len(a) THEN a[i] ELSE c[i - Len(a)]
      BY <2>8, <2>9, <2>10, ConcatProperties
  <2>12. Len(d) = n - 1
      BY <2>4, <2>8, <2>9, <2>11
  <2>13. PICK s : s = << v >>
      OBVIOUS
  <2>14. s \in Seq(VendorRungs) /\ Len(s) = 1 /\ s[1] = v
      BY <2>2, <2>13
  <2>15. /\ q \in Seq(VendorRungs) /\ Len(q) = Len(s) + Len(d)
         /\ \A i \in 1 .. Len(s) + Len(d) : q[i] = IF i <= Len(s) THEN s[i] ELSE d[i - Len(s)]
      BY <2>6, <2>7, <2>10, <2>11, <2>13, <2>14, ConcatProperties
  <2>16. Len(q) = n /\ q[1] = v
      BY <2>4, <2>12, <2>14, <2>15
  <2>17. PICK from : from = [i \in 1 .. n |-> IF i = 1 THEN k ELSE IF i <= k THEN i - 1 ELSE i]
      OBVIOUS
  <2>18. \A i \in 1 .. n : q[i] = Vendors[from[i]]
    <3>. TAKE i \in 1 .. n
    <3>1. CASE i = 1
        BY <2>3, <2>4, <2>16, <2>17, <3>1, <2>2 DEF VendorRungs, Range
    <3>2. CASE i # 1
      <4>1. i - 1 \in 1 .. n - 1 /\ q[i] = d[i - 1]
          BY <2>4, <2>12, <2>14, <2>15, <3>2
      <4>2. CASE i <= k
          BY <2>4, <2>8, <2>9, <2>11, <2>17, <3>2, <4>1, <4>2
      <4>3. CASE i > k
        <5>1. d[i - 1] = c[i - k] /\ i - k \in 1 .. n - k /\ k + (i - k) = i
            BY <2>4, <2>8, <2>9, <2>11, <4>1, <4>3
        <5>. QED BY <2>4, <2>9, <2>17, <3>2, <4>1, <4>3, <5>1
      <4>. QED BY <2>4, <4>2, <4>3
    <3>. QED BY <3>1, <3>2
  <2>19. \A i, j \in 1 .. n : from[i] \in 1 .. n /\ (from[i] = from[j] => i = j)
      BY <2>4, <2>17
  <2>20. Distinct(q)
    <3>1. DOMAIN q = 1 .. n
        BY <2>15, <2>16
    <3>2. \A i, j \in 1 .. n : Vendors[i] = Vendors[j] => i = j
        BY <2>1, RungsAre
    <3>. SUFFICES ASSUME NEW i \in 1 .. n, NEW j \in 1 .. n, q[i] = q[j]
                  PROVE  i = j
        BY <3>1 DEF Distinct
    <3>3. Vendors[from[i]] = Vendors[from[j]] /\ from[i] \in 1 .. n /\ from[j] \in 1 .. n
        BY <2>18, <2>19
    <3>. QED BY <2>19, <3>2, <3>3
  <2>. QED BY <1>3, <2>1, <2>2, <2>4, <2>15, <2>16, <2>20
<1>. QED BY <1>1, <1>2, <1>3

(* What the rungs of a run are like when it begins: each once, local ones   *)
(* first, a login in authed runs only, and the vendor to avoid after another.        *)
Ordering(rg, avoid) ==
    /\ rg \in Seq(Rungs) /\ Len(rg) <= Cardinality(Rungs) /\ Distinct(rg)
    /\ rg # << >> /\ rg[1] \notin VendorRungs
    /\ \A j, k \in DOMAIN rg : j < k /\ rg[j] \in VendorRungs => rg[k] \in VendorRungs
    /\ ~Authed => \A k \in DOMAIN rg : rg[k] # "authed_session"
    /\ \A k \in DOMAIN rg : rg[k] = avoid =>
          \E j \in 1 .. k - 1 : rg[j] \in VendorRungs \ {avoid}

\* Three local rungs at most, and the vendors.
LEMMA UpToThree ==
    ASSUME NEW n \in Nat, NEW l \in 1 .. 3
    PROVE  l <= n + 3 /\ \A m \in Nat : m <= n => l + m <= n + 3
OBVIOUS

\* The rungs every run begins with.
LEMMA OrderedIs ==
    ASSUME NEW ranked \in SetToSeqs(VendorRungs), NEW login \in BOOLEAN, NEW wait \in BOOLEAN,
           history.last \in VendorRungs \cup {None}, history.broken \in SUBSET VendorRungs,
           NEW avoid, avoid = IF history.last \in history.broken /\ Len(Vendors) > 1
                              THEN history.last ELSE None
    PROVE  Ordering(Ordered(login, wait, ranked), avoid)
<1>1. PICK public : public = IF wait THEN << "browser_local" >> ELSE << "http", "browser_local" >>
    OBVIOUS
<1>2. PICK local : local = IF ~Authed THEN public
                           ELSE IF login THEN << "authed_session" >> \o public
                           ELSE public \o << "authed_session" >>
    OBVIOUS
<1>3. /\ public \in Seq(LocalRungs) /\ Len(public) \in {1, 2}
      /\ \A k \in 1 .. Len(public) : public[k] # "authed_session"
  <2>1. CASE wait
      BY <1>1, <2>1 DEF LocalRungs
  <2>2. CASE ~wait
      BY <1>1, <2>2 DEF LocalRungs
  <2>. QED BY <2>1, <2>2
<1>4. << "authed_session" >> \in Seq(LocalRungs) /\ Len(<< "authed_session" >>) = 1
    BY DEF LocalRungs
<1>5. local \in Seq(LocalRungs) /\ Len(local) \in 1 .. 3
  <2>1. CASE ~Authed
      BY <1>2, <1>3, <2>1
  <2>2. CASE Authed /\ login
      BY <1>2, <1>3, <1>4, <2>2, ConcatProperties
  <2>3. CASE Authed /\ ~login
      BY <1>2, <1>3, <1>4, <2>3, ConcatProperties
  <2>. QED BY <2>1, <2>2, <2>3
<1>6. ~Authed => \A k \in 1 .. Len(local) : local[k] # "authed_session"
    BY <1>2, <1>3
<1>7. /\ \A k \in 1 .. Len(local) : local[k] \in LocalRungs /\ local[k] \notin VendorRungs
      /\ \A k \in 1 .. Len(local) : local[k] # avoid
  <2>1. avoid \notin LocalRungs
      BY RungsAre
  <2>. QED BY <1>5, <2>1, RungsAre
<1>20. Distinct(local)
  <2>1. CASE ~Authed
      BY <1>1, <1>2, <2>1 DEF Distinct
  <2>2. CASE Authed /\ login /\ wait
      BY <1>1, <1>2, <2>2 DEF Distinct
  <2>3. CASE Authed /\ login /\ ~wait
      BY <1>1, <1>2, <2>3 DEF Distinct
  <2>4. CASE Authed /\ ~login /\ wait
      BY <1>1, <1>2, <2>4 DEF Distinct
  <2>5. CASE Authed /\ ~login /\ ~wait
      BY <1>1, <1>2, <2>5 DEF Distinct
  <2>. QED BY <2>1, <2>2, <2>3, <2>4, <2>5
<1>8. PICK rg : rg = Ordered(login, wait, ranked)
    OBVIOUS
<1>9. CASE wait \/ setting.mode = "standard"
  <2>1. rg = local
      BY <1>1, <1>2, <1>8, <1>9 DEF Ordered
  <2>2. local \in Seq(Rungs) /\ DOMAIN local = 1 .. Len(local) /\ Len(local) <= Cardinality(Rungs)
    <3>1. PICK n : n = Len(Vendors)
        OBVIOUS
    <3>2. n \in Nat /\ Cardinality(Rungs) = n + 3 /\ LocalRungs \subseteq Rungs
        BY <3>1, RungsAre
    <3>3. local \in Seq(Rungs) /\ DOMAIN local = 1 .. Len(local)
        BY <1>5, <3>2
    <3>5. n \in Nat
        BY <3>2
    <3>4. Len(local) <= n + 3
        BY <1>5, <3>5, UpToThree
    <3>. QED BY <3>2, <3>3, <3>4
  <2>3. local # << >> /\ local[1] \notin VendorRungs
      BY <1>5, <1>7
  <2>4. Ordering(local, avoid)
      BY <1>6, <1>7, <1>20, <2>2, <2>3 DEF Ordering
  <2>. QED BY <1>8, <2>1, <2>4
<1>10. CASE ~(wait \/ setting.mode = "standard")
  <2>1. PICK q : q = OrderProviders(ranked)
      OBVIOUS
  <2>2. rg = local \o q
      BY <1>1, <1>2, <1>8, <1>10, <2>1 DEF Ordered
  <2>3. /\ q \in Seq(VendorRungs) /\ Len(q) <= Len(Vendors) /\ Distinct(q)
        /\ avoid # None => Len(q) >= 1 /\ q[1] # avoid
      BY <2>1, OrderIs
  <2>4. q \in Seq(Rungs) /\ local \in Seq(Rungs) /\ Len(q) \in Nat /\ Len(local) \in Nat
      BY <1>5, <2>3, RungsAre
  <2>5. /\ rg \in Seq(Rungs) /\ Len(rg) = Len(local) + Len(q)
        /\ \A i \in 1 .. Len(local) + Len(q) :
              rg[i] = IF i <= Len(local) THEN local[i] ELSE q[i - Len(local)]
      BY <2>2, <2>4, ConcatProperties
  <2>6. /\ \A i \in 1 .. Len(local) : rg[i] = local[i]
        /\ \A i \in Len(local) + 1 .. Len(rg) :
              rg[i] = q[i - Len(local)] /\ rg[i] \in VendorRungs
        /\ DOMAIN rg = 1 .. Len(rg)
    <3>1. \A i \in Len(local) + 1 .. Len(rg) : i - Len(local) \in 1 .. Len(q)
        BY <2>4, <2>5
    <3>. QED BY <2>3, <2>4, <2>5, <3>1
  <2>7. Len(rg) <= Cardinality(Rungs) /\ rg # << >> /\ rg[1] \notin VendorRungs
    <3>1. PICK n : n = Len(Vendors)
        OBVIOUS
    <3>2. n \in Nat /\ Cardinality(Rungs) = n + 3 /\ Len(q) <= n
        BY <3>1, <2>3, RungsAre
    <3>3. Len(rg) <= Cardinality(Rungs)
      <4>. PICK l, m, r : l = Len(local) /\ m = Len(q) /\ r = Len(rg)
          OBVIOUS
      <4>1. l \in 1 .. 3 /\ m \in Nat /\ r = l + m /\ m <= n
          BY <1>5, <2>4, <2>5, <3>2
      <4>3. n \in Nat
          BY <3>2
      <4>2. r <= n + 3
          BY <4>1, <4>3, UpToThree
      <4>. QED BY <4>2, <3>2
    <3>4. 1 \in 1 .. Len(local) /\ Len(rg) >= 1
        BY <1>5, <2>4, <2>5
    <3>. QED BY <1>7, <2>6, <3>3, <3>4
  <2>8. ASSUME NEW j \in DOMAIN rg, NEW k \in DOMAIN rg, j < k, rg[j] \in VendorRungs
        PROVE  rg[k] \in VendorRungs
    <3>1. j > Len(local)
        BY <1>7, <2>4, <2>6, <2>8
    <3>. QED BY <2>4, <2>6, <2>8, <3>1
  <2>9. ~Authed => \A k \in DOMAIN rg : rg[k] # "authed_session"
    <3>1. "authed_session" \notin VendorRungs
        BY RungsAre DEF LocalRungs
    <3>. QED BY <1>6, <2>4, <2>6, <3>1
  <2>10. ASSUME NEW k \in DOMAIN rg, rg[k] = avoid
         PROVE  \E j \in 1 .. k - 1 : rg[j] \in VendorRungs \ {avoid}
    <3>1. k > Len(local)
        BY <1>7, <2>4, <2>6, <2>10
    <3>2. avoid \in VendorRungs /\ avoid # None
        BY <2>4, <2>6, <2>10, <3>1, RungsAre
    <3>3. Len(local) + 1 \in Len(local) + 1 .. Len(rg) /\ Len(local) + 1 - Len(local) = 1
        BY <2>3, <2>4, <2>5, <3>2
    <3>4. rg[Len(local) + 1] = q[1] /\ rg[Len(local) + 1] \in VendorRungs
        BY <2>6, <3>3
    <3>5. rg[Len(local) + 1] # avoid
        BY <2>3, <3>2, <3>4
    <3>6. k # Len(local) + 1
        BY <2>10, <3>5
    <3>7. Len(local) + 1 \in 1 .. k - 1
        BY <2>4, <2>6, <3>1, <3>6
    <3>. QED BY <3>4, <3>5, <3>7
  <2>12. Distinct(rg)
    <3>. SUFFICES ASSUME NEW j \in DOMAIN rg, NEW k \in DOMAIN rg, rg[j] = rg[k], j <= k
                  PROVE  j = k
        BY <2>4, <2>6 DEF Distinct
    <3>1. CASE k <= Len(local)
        BY <1>5, <1>20, <2>4, <2>6, <3>1 DEF Distinct
    <3>2. CASE j <= Len(local) /\ k > Len(local)
        BY <1>7, <2>4, <2>6, <3>2
    <3>3. CASE j > Len(local)
      <4>1. /\ j - Len(local) \in DOMAIN q /\ k - Len(local) \in DOMAIN q
            /\ q[j - Len(local)] = q[k - Len(local)]
          BY <2>3, <2>4, <2>5, <2>6, <3>3
      <4>2. j - Len(local) = k - Len(local)
          BY <2>3, <4>1 DEF Distinct
      <4>. QED BY <2>4, <2>6, <4>2
    <3>. QED BY <2>4, <2>6, <3>1, <3>2, <3>3
  <2>11. Ordering(rg, avoid)
      BY <2>5, <2>7, <2>8, <2>9, <2>10, <2>12 DEF Ordering
  <2>. QED BY <1>8, <2>11
<1>. QED BY <1>9, <1>10

-----------------------------------------------------------------------------
(* The inductive invariant.                                                *)

(* best is the best page of the attempts, so that the answer can be.        *)
Tracked == FirstBest(attempts, Len(attempts), best)

(* No attempt of a run that goes on was refused its login, or a retry.      *)
Unrefused == \A i \in DOMAIN attempts : ~attempts[i].again /\ NoRefusal(attempts[i].res)

(* The rungs left: vendors last, none of them tried while a local rung is   *)
(* left, and the one to avoid behind another, tried or left.                *)
InOrder ==
    /\ \A j, k \in DOMAIN rungs : j < k /\ rungs[j] \in VendorRungs => rungs[k] \in VendorRungs
    /\ ~Authed => \A k \in DOMAIN rungs : rungs[k] # "authed_session"
    /\ ~overrode => \A k \in DOMAIN rungs : rungs[k] = run.avoid =>
          \/ \E j \in 1 .. k - 1 : rungs[j] \in VendorRungs \ {run.avoid}
          \/ \E i \in DOMAIN attempts : attempts[i].rung \in VendorRungs \ {run.avoid}
    /\ phase \in {"walk", "fetch"} /\ (\E k \in DOMAIN rungs : rungs[k] \notin VendorRungs) =>
          \A i \in DOMAIN attempts : attempts[i].rung \notin VendorRungs

(* A rung is at work where one has to be, and a person asked for one        *)
(* unblocks the rung whose block was reported last.                         *)
AtWork ==
    /\ phase \in {"walk", "fetch"} =>
         /\ Len(attempts) + Len(rungs) <= Cardinality(Rungs)
         /\ attempts = << >> => rungs # << >> /\ rungs[1] \notin VendorRungs
    /\ phase = "fetch" => rungs # << >> /\ (overrode => rungs[1] \notin VendorRungs)
    /\ phase \in {"human", "retry"} =>
         /\ rungs # << >> /\ attempts # << >> /\ Authed
         /\ Len(attempts) + Len(rungs) <= Cardinality(Rungs) + 1
         /\ Last(attempts).res.is = "blocked" /\ Last(attempts).rung = rungs[1]

Live == phase \in {"walk", "fetch", "human", "retry"}

LiveInv == Tracked /\ Unrefused /\ InOrder /\ AtWork

IInv == TypeOK /\ BestPageIsKept /\ RungsAsPermitted /\ (Live => LiveInv)

HistoryRow == [last : VendorRungs \cup {None}, broken : SUBSET VendorRungs]
AnswerRow ==
    [at : Nat, as : {"none", "itself", "partial", "timeout", "compromised", "rejected",
                     "paused", "refused", "stopped"}]
RunRow == [login : BOOLEAN, wait : BOOLEAN, avoid : VendorRungs \cup {None}]
Saved == {"none", "login", "vendor"}

(* A step that ends the run, with a good answer or the last word.           *)
LEMMA EndsWell ==
    ASSUME IInv, phase' = "ended", runs' = runs, run' = run, rungs' = rungs,
           overrode' = overrode, RungsAsPermitted',
           attempts' \in Seq(Attempt), Len(attempts') <= Cardinality(Rungs) + 1,
           best' \in 0 .. Len(attempts'),
           answer' \in AnswerRow, answer'.at <= Len(attempts'),
           history' \in HistoryRow, saved' \in Saved,
           GoodAnswer(attempts', answer'.at, answer'.as) \/ BestPageIsKept'
    PROVE  IInv'
<1>1. BestPageIsKept'
  <2>1. (attempts \in Seq(Attempt) /\ GoodAnswer(attempts, answer.at, answer.as)
           => BestPageIsKept)'
      BY GoodIsKept, PTL
  <2>2. ASSUME GoodAnswer(attempts', answer'.at, answer'.as)
        PROVE  GoodAnswer(attempts, answer.at, answer.as)'
      BY <2>2 DEF GoodAnswer
  <2>. QED BY <2>1, <2>2
<1>2. TypeOK'
  <2>1. answer'.at \in 0 .. Len(attempts')
      BY DEF AnswerRow
  <2>. QED BY <2>1 DEF IInv, TypeOK, AnswerRow, HistoryRow, Saved
<1>3. ~Live'
    BY DEF Live
<1>. QED BY <1>1, <1>2, <1>3 DEF IInv

(* The attempt a rung's return makes.                                       *)
Attempted(o) == [rung |-> rungs[1], res |-> o, again |-> FALSE]

(* What a rung's return makes of the attempts and of the best page.         *)
Returned(o) ==
    /\ o \in AllResults /\ Sane(o) /\ (~Rejects(o) => NoRefusal(o))
    /\ Attempted(o) \in Attempt /\ attempts' = Append(attempts, Attempted(o))
    /\ With(o) = attempts' /\ attempts \in Seq(Attempt)
    /\ Grown(attempts, Attempted(o), best, attempts')
    /\ Here = Len(attempts') /\ Here \in Nat
    /\ Len(attempts) + Len(rungs) <= Cardinality(Rungs)
    /\ rungs \in Seq(Rungs) /\ rungs # << >> /\ rungs[1] = Head(rungs)
    /\ Len(attempts') <= Cardinality(Rungs) /\ Len(attempts') <= Cardinality(Rungs) + 1
    /\ best \in 0 .. Len(attempts)
    /\ SizeAt(attempts', best) = BestSize

\* A rung's return adds one attempt, and the best page and the rungs left are
\* still those of the run.
LEMMA ReturnIs ==
    ASSUME IInv, NEW o, Returns(o)
    PROVE  Returned(o)
<1>1. /\ phase = "fetch" /\ o \in Offered /\ TypeOK /\ LiveInv /\ Tracked /\ AtWork
      /\ attempts' = With(o)
    BY DEF Returns, IInv, Live, LiveInv
<1>2. /\ rungs \in Seq(Rungs) /\ rungs # << >> /\ attempts \in Seq(Attempt)
      /\ best \in 0 .. Len(attempts) /\ FirstBest(attempts, Len(attempts), best)
      /\ Len(attempts) + Len(rungs) <= Cardinality(Rungs)
    BY <1>1 DEF TypeOK, AtWork, Tracked
<1>3. o \in AllResults /\ Sane(o) /\ (~Rejects(o) => NoRefusal(o))
    BY <1>1, OfferedIs, AllAreSane
<1>4. /\ rungs[1] \in Rungs /\ Head(rungs) = rungs[1] /\ Len(rungs) >= 1 /\ Len(rungs) \in Nat
    BY <1>2
<1>5. Attempted(o) \in Attempt
    BY <1>3, <1>4 DEF Attempted, Attempt
<1>6. attempts' = Append(attempts, Attempted(o)) /\ With(o) = attempts'
    BY <1>1, <1>4 DEF With, Attempted
<1>7. Grown(attempts, Attempted(o), best, attempts')
  <2>. PICK tried, a, b, t : tried = attempts /\ a = Attempted(o) /\ b = best /\ t = attempts'
      OBVIOUS
  <2>1. /\ tried \in Seq(Attempt) /\ a \in Attempt /\ FirstBest(tried, Len(tried), b)
        /\ t = Append(tried, a)
      BY <1>2, <1>5, <1>6
  <2>2. Grown(tried, a, b, t)
      BY <2>1, BestWith
  <2>. QED BY <2>2
<1>8. SizeAt(attempts', best) = BestSize
    BY <1>7 DEF SizeAt, BestSize, Grown
<1>9. Here = Len(attempts') /\ Here \in Nat
    BY <1>7 DEF Here, Grown
<1>10. Len(attempts') <= Cardinality(Rungs) /\ Len(attempts') <= Cardinality(Rungs) + 1
    BY <1>2, <1>4, <1>7, RungsAre DEF Grown
<1>. QED
  BY <1>2, <1>3, <1>4, <1>5, <1>6, <1>7, <1>8, <1>9, <1>10 DEF Returned

(* An attempt on a rung that is permitted keeps the rungs as permitted.      *)
LEMMA PermitsOneMore ==
    ASSUME attempts \in Seq(Attempt), RungsAsPermitted, Unrefused, run' = run,
           setting' = setting, overrode' = overrode,
           NEW a \in Attempt, attempts' = Append(attempts, a),
           ~Authed => a.rung # "authed_session" /\ ~a.again,
           overrode => a.rung \notin VendorRungs,
           a.rung = run.avoid =>
              \E i \in DOMAIN attempts : attempts[i].rung \in VendorRungs \ {run.avoid}
    PROVE  RungsAsPermitted'
<1>. DEFINE n == Len(attempts)
            t == attempts'
<1>1. /\ n \in Nat /\ DOMAIN attempts = 1 .. n /\ DOMAIN t = 1 .. n + 1 /\ Len(t) = n + 1
      /\ t[n + 1] = a /\ \A i \in 1 .. n : t[i] = attempts[i]
    OBVIOUS
<1>2. \A i \in 1 .. n + 1 : i = n + 1 \/ i \in 1 .. n
    BY <1>1
<1>3. (Authed <=> Authed') /\ (run.login <=> run'.login)
    BY DEF Authed
<1>. HIDE DEF t
<1>4. ~Authed => \A i \in DOMAIN t : t[i].rung # "authed_session" /\ ~t[i].again
  <2>. SUFFICES ASSUME ~Authed, NEW i \in DOMAIN t
                PROVE  t[i].rung # "authed_session" /\ ~t[i].again
      OBVIOUS
  <2>1. CASE i = n + 1
      BY <2>1, <1>1
  <2>2. CASE i \in 1 .. n
      BY <2>2, <1>1 DEF RungsAsPermitted
  <2>. QED BY <2>1, <2>2, <1>1, <1>2
<1>5. overrode => \A i \in DOMAIN t : t[i].rung \notin VendorRungs
  <2>. SUFFICES ASSUME overrode, NEW i \in DOMAIN t
                PROVE  t[i].rung \notin VendorRungs
      OBVIOUS
  <2>1. CASE i = n + 1
      BY <2>1, <1>1
  <2>2. CASE i \in 1 .. n
      BY <2>2, <1>1 DEF RungsAsPermitted
  <2>. QED BY <2>1, <2>2, <1>1, <1>2
<1>6. ASSUME NEW i \in DOMAIN t
      PROVE  /\ run.login /\ (t[i].res.login \/ t[i].res.cls = "login") => i = Len(t)
             /\ t[i].again => i = Len(t)
             /\ t[i].rung = run.avoid =>
                  \E j \in 1 .. i - 1 : t[j].rung \in VendorRungs \ {run.avoid}
  <2>1. CASE i = n + 1
    <3>1. i - 1 = n /\ \A j \in 1 .. n : t[j] = attempts[j]
        BY <2>1, <1>1
    <3>. QED BY <2>1, <3>1, <1>1
  <2>2. CASE i \in 1 .. n
    <3>1. t[i] = attempts[i] /\ ~attempts[i].again /\ NoRefusal(attempts[i].res)
        BY <2>2, <1>1 DEF Unrefused
    <3>2. attempts[i].rung = run.avoid =>
            \E j \in 1 .. i - 1 : attempts[j].rung \in VendorRungs \ {run.avoid}
        BY <2>2, <1>1 DEF RungsAsPermitted
    <3>3. \A j \in 1 .. i - 1 : t[j] = attempts[j]
        BY <2>2, <1>1
    <3>. QED BY <3>1, <3>2, <3>3 DEF NoRefusal
  <2>. QED BY <2>1, <2>2, <1>1, <1>2
<1>. QED BY <1>3, <1>4, <1>5, <1>6 DEF RungsAsPermitted, t

(* A rung that returns is one the run may use.                              *)
LEMMA ReturnPermits ==
    ASSUME IInv, NEW o, Returns(o)
    PROVE  RungsAsPermitted'
<1>1. /\ phase = "fetch" /\ TypeOK /\ RungsAsPermitted /\ Unrefused /\ InOrder /\ AtWork
      /\ run' = run /\ setting' = setting /\ overrode' = overrode
    BY DEF Returns, IInv, Live, LiveInv
<1>2. Returned(o)
    BY ReturnIs
<1>3. /\ attempts \in Seq(Attempt) /\ rungs[1] \in Rungs /\ 1 \in DOMAIN rungs
    BY <1>2 DEF Returned
<1>4. PICK a : a = Attempted(o)
    OBVIOUS
<1>5. a \in Attempt /\ attempts' = Append(attempts, a) /\ a.rung = rungs[1] /\ ~a.again
    BY <1>2, <1>4 DEF Returned, Attempted
<1>6. ~Authed => a.rung # "authed_session" /\ ~a.again
    BY <1>1, <1>3, <1>5 DEF InOrder
<1>7. overrode => a.rung \notin VendorRungs
    BY <1>1, <1>5 DEF AtWork
<1>8. a.rung = run.avoid =>
        \E i \in DOMAIN attempts : attempts[i].rung \in VendorRungs \ {run.avoid}
  <2>. SUFFICES ASSUME a.rung = run.avoid
                PROVE  \E i \in DOMAIN attempts :
                          attempts[i].rung \in VendorRungs \ {run.avoid}
      OBVIOUS
  <2>1. run.avoid \in VendorRungs \cup {None}
      BY <1>1 DEF TypeOK
  <2>2. a.rung \in VendorRungs
      BY <2>1, <1>3, <1>5, RungsAre
  <2>3. ~overrode
      BY <2>2, <1>7
  <2>. QED BY <2>3, <1>1, <1>3, <1>5 DEF InOrder
<1>. QED BY <1>1, <1>3, <1>5, <1>6, <1>7, <1>8, PermitsOneMore

(* The vendor history stays one.                                            *)
LEMMA RecordedIs ==
    ASSUME IInv, NEW o, Returned(o), Recorded(o)
    PROVE  history' \in HistoryRow
<1>1. PICK v : v = Head(rungs)
    OBVIOUS
<1>2. history \in HistoryRow
    BY DEF IInv, TypeOK, HistoryRow
<1>3. CASE v \notin VendorRungs
    BY <1>1, <1>2, <1>3 DEF Recorded
<1>4. CASE v \in VendorRungs
  <2>1. history' = [last |-> v, broken |-> IF o.cls = "vendor" THEN history.broken \cup {v}
                                           ELSE history.broken \ {v}]
      BY <1>1, <1>4 DEF Recorded
  <2>. QED BY <1>2, <1>4, <2>1 DEF HistoryRow
<1>. QED BY <1>3, <1>4

(* The types of what a return leaves alone or sets the same way.            *)
LEMMA ReturnTypes ==
    ASSUME IInv, NEW o, Returns(o)
    PROVE  /\ attempts' \in Seq(Attempt) /\ Len(attempts') <= Cardinality(Rungs) + 1
           /\ Len(attempts') \in Nat /\ \A i \in 0 .. Len(attempts) : i \in 0 .. Len(attempts')
           /\ best \in 0 .. Len(attempts') /\ answer \in AnswerRow
           /\ answer.at <= Len(attempts') /\ history \in HistoryRow /\ saved \in Saved
           /\ runs \in 0 .. MaxRuns /\ run \in RunRow /\ overrode \in BOOLEAN
           /\ setting' = setting /\ runs' = runs /\ run' = run /\ overrode' = overrode
<1>1. Returned(o) /\ TypeOK
    BY ReturnIs DEF IInv
<1>2. /\ attempts' \in Seq(Attempt) /\ Len(attempts') <= Cardinality(Rungs) + 1
      /\ Len(attempts') \in Nat /\ Len(attempts') = Len(attempts) + 1 /\ Len(attempts) \in Nat
    BY <1>1 DEF Returned, Grown
<1>3. best \in 0 .. Len(attempts) /\ answer.at \in 0 .. Len(attempts)
    BY <1>1 DEF TypeOK
<1>4. /\ setting' = setting /\ runs' = runs /\ run' = run /\ overrode' = overrode
    BY DEF Returns
<1>5. history \in HistoryRow /\ saved \in Saved /\ runs \in 0 .. MaxRuns
      /\ run \in RunRow /\ overrode \in BOOLEAN
    BY <1>1 DEF TypeOK, HistoryRow, Saved, RunRow
<1>. QED BY <1>1, <1>2, <1>3, <1>4, <1>5 DEF TypeOK, AnswerRow

(* A rung's return that ends the run with a good answer or its last word.   *)
LEMMA ReturnEnds ==
    ASSUME IInv, NEW o, Returns(o), phase' = "ended", rungs' = rungs,
           best' \in 0 .. Len(attempts'), history' \in HistoryRow, saved' \in Saved,
           answer' \in AnswerRow, answer'.at <= Len(attempts'),
           GoodAnswer(attempts', answer'.at, answer'.as) \/ BestPageIsKept'
    PROVE  IInv'
BY EndsWell, ReturnTypes, ReturnPermits

(* The rung that returned is dropped, and the next one is looked at.        *)
LEMMA ReturnGoesOn ==
    ASSUME IInv, NEW o, Returns(o), ~Rejects(o), GoOn,
           best' = NextBest(attempts', Len(attempts'), best),
           history' \in HistoryRow, saved' \in Saved
    PROVE  IInv'
<1>1. /\ phase = "fetch" /\ LiveInv /\ Unrefused /\ InOrder /\ AtWork
      /\ phase' = "walk" /\ rungs' = Tail(rungs) /\ answer' = answer
    BY DEF Returns, IInv, Live, LiveInv, GoOn, Left
<1>2. /\ Returned(o) /\ RungsAsPermitted'
    BY ReturnIs, ReturnPermits
<1>3. PICK n, t, a, r : n = Len(attempts) /\ t = attempts' /\ a = Attempted(o) /\ r = rungs'
    OBVIOUS
<1>4. /\ n \in Nat /\ DOMAIN attempts = 1 .. n /\ t \in Seq(Attempt) /\ Len(t) = n + 1
      /\ DOMAIN t = 1 .. n + 1 /\ t[n + 1] = a /\ \A i \in 1 .. n : t[i] = attempts[i]
      /\ a.rung = rungs[1] /\ a.res = o /\ ~a.again /\ NoRefusal(o)
      /\ FirstBest(t, Len(t), best')
    BY <1>2, <1>3 DEF Returned, Grown, Attempted
<1>5. /\ rungs \in Seq(Rungs) /\ Len(rungs) \in Nat /\ Len(rungs) >= 1
      /\ DOMAIN rungs = 1 .. Len(rungs)
      /\ r \in Seq(Rungs) /\ Len(r) = Len(rungs) - 1 /\ DOMAIN r = 1 .. Len(r)
      /\ \A k \in 1 .. Len(r) : r[k] = rungs[k + 1] /\ k + 1 \in DOMAIN rungs
  <2>1. rungs \in Seq(Rungs) /\ rungs # << >> /\ r = Tail(rungs)
      BY <1>1, <1>2, <1>3 DEF Returned
  <2>. QED BY <2>1, HeadTailProperties
<1>6. Tracked'
    BY <1>3, <1>4 DEF Tracked
<1>7. Unrefused'
  <2>1. \A i \in 1 .. n + 1 : ~t[i].again /\ NoRefusal(t[i].res)
    <3>. TAKE i \in 1 .. n + 1
    <3>1. CASE i = n + 1
        BY <3>1, <1>4
    <3>2. CASE i \in 1 .. n
        BY <3>2, <1>1, <1>4 DEF Unrefused
    <3>. QED BY <3>1, <3>2, <1>4
  <2>2. (Unrefused <=> \A i \in DOMAIN attempts : ~attempts[i].again /\ NoRefusal(attempts[i].res))'
      BY PTL DEF Unrefused
  <2>3. \A i \in DOMAIN t : ~t[i].again /\ NoRefusal(t[i].res)
      BY <2>1, <1>4
  <2>. QED BY <2>3, <1>3 DEF Unrefused, NoRefusal
<1>8. run' = run /\ overrode' = overrode /\ (Authed <=> Authed')
    BY DEF Returns, Authed
<1>9. InOrder'
  <2>1. ASSUME NEW j \in DOMAIN r, NEW k \in DOMAIN r, j < k, r[j] \in VendorRungs
        PROVE  r[k] \in VendorRungs
    <3>1. j + 1 \in DOMAIN rungs /\ k + 1 \in DOMAIN rungs /\ j + 1 < k + 1
          /\ rungs[j + 1] \in VendorRungs
        BY <2>1, <1>5
    <3>2. rungs[k + 1] \in VendorRungs
        BY <3>1, <1>1 DEF InOrder
    <3>. QED BY <3>2, <1>5
  <2>2. ~Authed => \A k \in DOMAIN r : r[k] # "authed_session"
      BY <1>1, <1>5 DEF InOrder
  <2>3. ASSUME ~overrode, NEW k \in DOMAIN r, r[k] = run.avoid
        PROVE  \/ \E j \in 1 .. k - 1 : r[j] \in VendorRungs \ {run.avoid}
               \/ \E i \in DOMAIN t : t[i].rung \in VendorRungs \ {run.avoid}
    <3>1. k + 1 \in DOMAIN rungs /\ rungs[k + 1] = run.avoid /\ (k + 1) - 1 = k /\ k \in Nat
        BY <2>3, <1>5
    <3>2. \/ \E j \in 1 .. k : rungs[j] \in VendorRungs \ {run.avoid}
          \/ \E i \in DOMAIN attempts : attempts[i].rung \in VendorRungs \ {run.avoid}
        BY <2>3, <3>1, <1>1 DEF InOrder
    <3>3. CASE \E i \in DOMAIN attempts : attempts[i].rung \in VendorRungs \ {run.avoid}
        BY <3>3, <1>4
    <3>4. CASE \E j \in 1 .. k : rungs[j] \in VendorRungs \ {run.avoid}
      <4>. PICK j \in 1 .. k : rungs[j] \in VendorRungs \ {run.avoid}
          BY <3>4
      <4>1. CASE j = 1
        <5>1. n + 1 \in DOMAIN t /\ t[n + 1].rung \in VendorRungs \ {run.avoid}
            BY <4>1, <1>4
        <5>. QED BY <5>1
      <4>2. CASE j # 1
        <5>1. j - 1 \in 1 .. k - 1 /\ j - 1 \in 1 .. Len(r) /\ r[j - 1] = rungs[j]
            BY <4>2, <3>1, <2>3, <1>5
        <5>. QED BY <5>1
      <4>. QED BY <4>1, <4>2
    <3>. QED BY <3>2, <3>3, <3>4
  <2>4. (\E k \in DOMAIN r : r[k] \notin VendorRungs) =>
          \A i \in DOMAIN t : t[i].rung \notin VendorRungs
    <3>. SUFFICES ASSUME NEW k \in DOMAIN r, r[k] \notin VendorRungs, NEW i \in DOMAIN t
                  PROVE  t[i].rung \notin VendorRungs
        OBVIOUS
    <3>1. k + 1 \in DOMAIN rungs /\ 1 \in DOMAIN rungs /\ 1 < k + 1
          /\ rungs[k + 1] \notin VendorRungs
        BY <1>5
    <3>2. rungs[1] \notin VendorRungs
        BY <3>1, <1>1 DEF InOrder
    <3>3. \A m \in DOMAIN attempts : attempts[m].rung \notin VendorRungs
        BY <3>1, <1>1 DEF InOrder
    <3>. QED BY <3>2, <3>3, <1>4
  <2>. QED BY <2>1, <2>2, <2>3, <2>4, <1>3, <1>8 DEF InOrder
<1>10. AtWork'
  <2>1. Len(t) + Len(r) <= Cardinality(Rungs) /\ t # << >>
    <3>. PICK l, m, c : l = Len(rungs) /\ m = Len(r) /\ c = Cardinality(Rungs)
        OBVIOUS
    <3>1. n + l <= c /\ m = l - 1 /\ l \in Nat /\ n \in Nat /\ Len(t) = n + 1
        BY <1>2, <1>3, <1>4, <1>5 DEF Returned
    <3>2. c \in Nat
        BY RungsAre
    <3>3. (n + 1) + m <= c
        BY <3>1, <3>2
    <3>. QED BY <1>4, <3>1, <3>3
  <2>. QED BY <2>1, <1>1, <1>3 DEF AtWork
<1>11. TypeOK'
  <2>1. best' \in 0 .. Len(t)
      BY <1>4 DEF FirstBest
  <2>2. answer.at \in 0 .. Len(t)
      BY <1>3, ReturnTypes DEF AnswerRow
  <2>. QED
    BY <1>1, <1>3, <1>5, <2>1, <2>2, ReturnTypes DEF TypeOK, AnswerRow, RunRow, HistoryRow, Saved
<1>12. BestPageIsKept'
    BY <1>1 DEF BestPageIsKept, Ended
<1>. QED BY <1>2, <1>6, <1>7, <1>9, <1>10, <1>11, <1>12 DEF IInv, LiveInv

(* A page kept, or none: how NextBest reads to the run.                     *)
LEMMA BestStep ==
    ASSUME IInv, NEW o, Returns(o)
    PROVE  /\ o.is = "page" =>
                NextBest(attempts', Len(attempts'), best) = (IF Improves(o) THEN Here ELSE best)
           /\ o.is # "page" => NextBest(attempts', Len(attempts'), best) = Kept(o)
           /\ BestSize \in Int /\ o.size \in Nat /\ (best = 0 => BestSize = -1)
<1>1. Returned(o) /\ TypeOK
    BY ReturnIs DEF IInv
<1>2. /\ attempts'[Len(attempts')].res = o /\ Here = Len(attempts')
      /\ SizeAt(attempts', best) = BestSize
    BY <1>1 DEF Returned, Grown, Attempted
<1>3. o \in AllResults /\ o.size \in Nat
  <2>1. o \in ResultRow
      BY <1>1 DEF Returned, Sane
  <2>. QED BY <1>1, <2>1, LadderAssumption DEF Returned, ResultRow
<1>4. BestSize \in Int /\ (best = 0 => BestSize = -1)
  <2>1. CASE best = 0
      BY <2>1 DEF BestSize
  <2>2. CASE best # 0
    <3>1. best \in 1 .. Len(attempts) /\ attempts \in Seq(Attempt)
        BY <2>2, <1>1 DEF TypeOK
    <3>2. attempts[best].res.size \in Nat
        BY <3>1, TriedIs
    <3>. QED BY <2>2, <3>2 DEF BestSize
  <2>. QED BY <2>1, <2>2
<1>5. o.is = "page" =>
        NextBest(attempts', Len(attempts'), best) = (IF Improves(o) THEN Here ELSE best)
    BY <1>2 DEF NextBest, Improves
<1>6. o.is # "page" => NextBest(attempts', Len(attempts'), best) = Kept(o)
    BY <1>2 DEF NextBest, Kept
<1>. QED BY <1>3, <1>4, <1>5, <1>6

(* A rung's return that ends the run with the best page of all.             *)
LEMMA ReturnConcludes ==
    ASSUME IInv, NEW o, Returns(o), rungs' = rungs,
           best' = NextBest(attempts', Len(attempts'), best),
           Conclude(attempts', best'), history' \in HistoryRow, saved' \in Saved
    PROVE  IInv'
<1>1. PICK t, b : t = attempts' /\ b = best'
    OBVIOUS
<1>2. /\ t \in Seq(Attempt) /\ t # << >> /\ FirstBest(t, Len(t), b) /\ Len(t) \in Nat
    BY <1>1, ReturnIs DEF Returned, Grown
<1>3. Conclude(t, b)
    BY <1>1
<1>4. /\ phase' = "ended" /\ answer' = [at |-> answer'.at, as |-> answer'.as]
      /\ answer'.at \in 1 .. Len(t) /\ answer'.as \in {"itself", "compromised"}
      /\ GoodAnswer(t, answer'.at, answer'.as)
    BY <1>2, <1>3, ConcludeGood
<1>5. best' \in 0 .. Len(attempts')
    BY <1>1, <1>2 DEF FirstBest
<1>6. answer' \in AnswerRow /\ answer'.at <= Len(attempts')
    BY <1>1, <1>2, <1>4 DEF AnswerRow
<1>7. GoodAnswer(attempts', answer'.at, answer'.as)
    BY <1>1, <1>4
<1>. QED BY <1>4, <1>5, <1>6, <1>7, ReturnEnds

(* A wait the site asks for is the last word.                               *)
LEMMA LaterStep ==
    ASSUME IInv, NEW o, ReturnLater(o)
    PROVE  IInv'
<1>1. /\ Returns(o) /\ o.later /\ phase' = "ended" /\ answer' = [at |-> Here, as |-> "itself"]
      /\ UNCHANGED << rungs, best, history, saved >>
    BY DEF ReturnLater, Answer
<1>2. Returned(o)
    BY <1>1, ReturnIs
<1>3. Last(attempts').res.later /\ ~Last(attempts').again
    BY <1>1, <1>2 DEF Returned, Grown, Attempted, Last
<1>4. BestPageIsKept'
    BY <1>3 DEF BestPageIsKept, LastWord
<1>5. answer' \in AnswerRow /\ answer'.at <= Len(attempts')
    BY <1>1, <1>2 DEF AnswerRow, Returned
<1>. QED BY <1>1, <1>4, <1>5, ReturnTypes, ReturnEnds

(* A login that is refused is the last word.                                *)
LEMMA RejectedStep ==
    ASSUME IInv, NEW o, ReturnRejected(o)
    PROVE  IInv'
<1>1. /\ Returns(o) /\ phase' = "ended" /\ answer' = [at |-> Here, as |-> "rejected"]
      /\ UNCHANGED << rungs, best, history, saved >>
    BY DEF ReturnRejected, Answer
<1>2. Returned(o)
    BY <1>1, ReturnIs
<1>3. BestPageIsKept'
    BY <1>1 DEF BestPageIsKept, LastWord
<1>4. answer' \in AnswerRow /\ answer'.at <= Len(attempts')
    BY <1>1, <1>2 DEF AnswerRow, Returned
<1>. QED BY <1>1, <1>3, <1>4, ReturnTypes, ReturnEnds

(* A page: accepted, a second empty one, or kept while the run goes on.     *)
LEMMA PageStep ==
    ASSUME IInv, NEW o, ReturnPage(o)
    PROVE  IInv'
<1>1. /\ Returns(o) /\ ~Rejects(o) /\ o.is = "page" /\ Recorded(o)
      /\ best' = (IF Improves(o) THEN Here ELSE best)
      /\ saved' = (IF o.resume THEN "vendor" ELSE saved)
    BY DEF ReturnPage, Judged
<1>2. Returned(o)
    BY <1>1, ReturnIs
<1>3. history' \in HistoryRow /\ saved' \in Saved
    BY <1>1, <1>2, RecordedIs, ReturnTypes DEF Saved
<1>4. best' = NextBest(attempts', Len(attempts'), best)
    BY <1>1, BestStep
<1>5. CASE Accepted(o) /\ Answer(Here, "itself") /\ UNCHANGED rungs
  <2>1. Improves(o)
      BY <1>1, <1>5, BestStep DEF Accepted, Worse, Improves
  <2>2. PICK t, b : t = attempts' /\ b = best'
      OBVIOUS
  <2>3. t \in Seq(Attempt) /\ FirstBest(t, Len(t), b) /\ b = Here /\ b # 0 /\ Len(t) \in Nat
        /\ b = Len(t)
      BY <1>1, <1>2, <1>4, <2>1, <2>2 DEF Returned, Grown
  <2>4. GoodAnswer(t, b, "itself")
      BY <2>3, GoodIs
  <2>5. phase' = "ended" /\ answer' = [at |-> Here, as |-> "itself"]
      BY <1>5 DEF Answer
  <2>6. GoodAnswer(attempts', answer'.at, answer'.as)
      BY <2>2, <2>3, <2>4, <2>5
  <2>7. answer' \in AnswerRow /\ answer'.at <= Len(attempts') /\ best' \in 0 .. Len(attempts')
    <3>3. answer' = [at |-> b, as |-> "itself"]
        BY <2>3, <2>5, Zenon
    <3>4. b \in Nat
        BY <2>3
    <3>5. b <= Len(t)
        BY <2>3
    <3>1. answer' = [at |-> b, as |-> "itself"] /\ b \in Nat /\ b <= Len(t)
        BY <3>3, <3>4, <3>5
    <3>2. answer' \in AnswerRow
        BY <3>1 DEF AnswerRow
    <3>. QED BY <2>2, <2>3, <3>1, <3>2
  <2>. QED BY <1>1, <1>3, <1>5, <2>5, <2>6, <2>7, ReturnEnds
<1>6. CASE EmptyConfirmed(o) /\ Conclude(With(o), best) /\ UNCHANGED rungs
  <2>1. ~Improves(o)
      BY <1>1, <1>6, BestStep DEF EmptyConfirmed, Worse, Improves
  <2>2. Conclude(attempts', best')
      BY <1>1, <1>2, <1>6, <2>1 DEF Returned
  <2>. QED BY <1>1, <1>3, <1>4, <1>6, <2>2, ReturnConcludes
<1>7. CASE GoOn
    BY <1>1, <1>3, <1>4, <1>7, ReturnGoesOn
<1>. QED BY <1>5, <1>6, <1>7 DEF ReturnPage

(* What a return without a page sets.                                       *)
LEMMA NoPageIs ==
    ASSUME IInv, NEW o, ReturnNoPage(o)
    PROVE  /\ Returns(o) /\ ~Rejects(o) /\ o.is # "page" /\ Returned(o)
           /\ history' \in HistoryRow /\ best' = NextBest(attempts', Len(attempts'), best)
           /\ best' = Kept(o)
<1>1. Returns(o) /\ ~Rejects(o) /\ o.is # "page" /\ Recorded(o) /\ best' = Kept(o)
    BY DEF ReturnNoPage, Judged
<1>. QED BY <1>1, ReturnIs, RecordedIs, BestStep

(* A failure that no other rung answers.                                    *)
LEMMA StopStep ==
    ASSUME IInv, NEW o, ReturnStop(o)
    PROVE  IInv'
<1>1. /\ ReturnNoPage(o) /\ Conclude(With(o), Kept(o)) /\ UNCHANGED << rungs, saved >>
    BY DEF ReturnStop
<1>2. Conclude(attempts', best')
    BY <1>1, NoPageIs DEF Returned
<1>. QED BY <1>1, <1>2, NoPageIs, ReturnTypes, ReturnConcludes

(* A failure that sends the run to the next rung.                           *)
LEMMA NextStep ==
    ASSUME IInv, NEW o, ReturnNext(o)
    PROVE  IInv'
<1>1. ReturnNoPage(o) /\ GoOn /\ UNCHANGED saved
    BY DEF ReturnNext
<1>. QED BY <1>1, NoPageIs, ReturnTypes, ReturnGoesOn

(* A deadline cuts the rung that returns.                                   *)
LEMMA LateStep ==
    ASSUME IInv, NEW o, ReturnLate(o)
    PROVE  IInv'
<1>1. /\ Returns(o) /\ DeadlineOutcome(With(o)) /\ UNCHANGED << rungs, best, history, saved >>
    BY DEF ReturnLate
<1>2. PICK t : t = attempts'
    OBVIOUS
<1>3. t \in Seq(Attempt) /\ Len(t) \in Nat /\ DeadlineOutcome(t)
    BY <1>1, <1>2, ReturnIs DEF Returned, Grown
<1>4. /\ phase' = "ended" /\ answer' = [at |-> answer'.at, as |-> answer'.as]
      /\ answer'.at \in 0 .. Len(t) /\ answer'.as \in {"partial", "timeout"}
      /\ GoodAnswer(t, answer'.at, answer'.as)
    BY <1>3, DeadlineGood
<1>5. answer' \in AnswerRow /\ answer'.at <= Len(attempts')
    BY <1>2, <1>3, <1>4 DEF AnswerRow
<1>. QED BY <1>1, <1>2, <1>4, <1>5, ReturnTypes, ReturnEnds

(* Whoever is asked unblocks the rung whose block was reported last, and     *)
(* with nobody to ask the run is paused on its best page.                   *)
LEMMA DoorStep ==
    ASSUME IInv, NEW o, ReturnDoor(o)
    PROVE  IInv'
<1>1. /\ ReturnNoPage(o) /\ o.door /\ Authed /\ rungs' = rungs
      /\ saved' = (IF o.resume THEN "vendor" ELSE saved)
    BY DEF ReturnDoor
<1>2. /\ Returns(o) /\ ~Rejects(o) /\ Returned(o) /\ history' \in HistoryRow
      /\ best' = NextBest(attempts', Len(attempts'), best) /\ best' = Kept(o)
    BY <1>1, NoPageIs
<1>3. saved' \in Saved
    BY <1>1, <1>2, ReturnTypes DEF Saved
<1>4. o.is = "blocked" /\ NoRefusal(o)
    BY <1>1, <1>2 DEF Returned, Sane
<1>5. PICK n, t, a, b : n = Len(attempts) /\ t = attempts' /\ a = Attempted(o) /\ b = best'
    OBVIOUS
<1>6. /\ n \in Nat /\ DOMAIN attempts = 1 .. n /\ t \in Seq(Attempt) /\ Len(t) = n + 1
      /\ DOMAIN t = 1 .. n + 1 /\ t[n + 1] = a /\ \A i \in 1 .. n : t[i] = attempts[i]
      /\ a.rung = rungs[1] /\ a.res = o /\ ~a.again /\ t # << >> /\ Last(t) = a
      /\ FirstBest(t, Len(t), b) /\ b \in 0 .. Len(t) /\ Here = Len(t)
  <2>1. /\ n \in Nat /\ DOMAIN attempts = 1 .. n /\ t \in Seq(Attempt) /\ Len(t) = n + 1
        /\ t[n + 1] = a /\ \A i \in 1 .. n : t[i] = attempts[i]
        /\ a.rung = rungs[1] /\ a.res = o /\ ~a.again /\ t # << >>
        /\ FirstBest(t, Len(t), b) /\ Here = Len(t)
      BY <1>2, <1>5 DEF Returned, Grown, Attempted
  <2>2. b \in 0 .. Len(t)
      BY <2>1 DEF FirstBest
  <2>. QED BY <2>1, <2>2 DEF Last
<1>7. CASE setting.person /\ phase' = "human" /\ UNCHANGED answer
  <2>1. /\ LiveInv /\ Unrefused /\ InOrder /\ AtWork /\ RungsAsPermitted'
        /\ run' = run /\ overrode' = overrode /\ setting' = setting
      BY <1>2, ReturnPermits DEF Returns, IInv, Live, LiveInv
  <2>2. Tracked'
      BY <1>5, <1>6 DEF Tracked
  <2>3. Unrefused'
    <3>1. \A i \in 1 .. n + 1 : ~t[i].again /\ NoRefusal(t[i].res)
      <4>. TAKE i \in 1 .. n + 1
      <4>1. CASE i = n + 1
          BY <4>1, <1>4, <1>6
      <4>2. CASE i \in 1 .. n
          BY <4>2, <1>6, <2>1 DEF Unrefused
      <4>. QED BY <4>1, <4>2, <1>6
    <3>2. \A i \in DOMAIN t : ~t[i].again /\ NoRefusal(t[i].res)
        BY <3>1, <1>6
    <3>. QED BY <3>2, <1>5 DEF Unrefused, NoRefusal
  <2>4. InOrder'
    <3>1. (Authed <=> Authed') /\ rungs' = rungs /\ phase' = "human"
        BY <1>1, <1>7, <2>1 DEF Authed
    <3>2. \A i \in DOMAIN attempts : i \in DOMAIN t /\ t[i] = attempts[i]
        BY <1>6
    <3>3. ~overrode => \A k \in DOMAIN rungs : rungs[k] = run.avoid =>
          \/ \E j \in 1 .. k - 1 : rungs[j] \in VendorRungs \ {run.avoid}
          \/ \E i \in DOMAIN t : t[i].rung \in VendorRungs \ {run.avoid}
        BY <2>1, <3>2 DEF InOrder
    <3>. QED BY <1>5, <2>1, <3>1, <3>3 DEF InOrder
  <2>5. AtWork'
    <3>. PICK l, c : l = Len(rungs) /\ c = Cardinality(Rungs)
        OBVIOUS
    <3>1. n + l <= c /\ l \in Nat /\ rungs # << >>
        BY <1>2, <1>5 DEF Returned
    <3>2. c \in Nat
        BY RungsAre
    <3>3. (n + 1) + l <= c + 1
        BY <1>6, <3>1, <3>2
    <3>4. Authed' /\ rungs' = rungs
        BY <1>1, <2>1 DEF Authed
    <3>. QED BY <1>4, <1>5, <1>6, <1>7, <3>1, <3>3, <3>4 DEF AtWork
  <2>6. TypeOK'
    <3>1. answer.at \in 0 .. Len(t)
        BY <1>2, <1>5, ReturnTypes DEF AnswerRow
    <3>2. rungs \in Seq(Rungs)
        BY <1>2 DEF Returned
    <3>. QED
      BY <1>1, <1>2, <1>3, <1>5, <1>6, <1>7, <3>1, <3>2, ReturnTypes
      DEF TypeOK, AnswerRow, RunRow, HistoryRow, Saved
  <2>7. BestPageIsKept'
      BY <1>7 DEF BestPageIsKept, Ended
  <2>. QED BY <2>1, <2>2, <2>3, <2>4, <2>5, <2>6, <2>7 DEF IInv, LiveInv
<1>8. CASE Answer(IF Kept(o) # 0 THEN Kept(o) ELSE Here, "paused")
  <2>1. PICK at : at = IF b # 0 THEN b ELSE Len(t)
      OBVIOUS
  <2>2. phase' = "ended" /\ answer' = [at |-> at, as |-> "paused"]
      BY <1>2, <1>5, <1>6, <1>8, <2>1 DEF Answer
  <2>3. at \in 1 .. Len(t) /\ at \in 0 .. Len(t) /\ Len(t) \in Nat /\ at # 0
      BY <1>6, <2>1
  <2>4. GoodAnswer(t, at, "paused")
    <3>1. CASE b # 0
        BY <1>6, <2>1, <3>1, GoodIs
    <3>2. CASE b = 0
      <4>1. t[at].res.is = "blocked"
          BY <1>4, <1>6, <2>1, <3>2
      <4>. QED BY <1>6, <2>3, <3>2, <4>1, GoodIs
    <3>. QED BY <3>1, <3>2
  <2>5. answer' \in AnswerRow /\ answer'.at <= Len(attempts') /\ best' \in 0 .. Len(attempts')
      BY <1>5, <1>6, <2>2, <2>3 DEF AnswerRow
  <2>6. GoodAnswer(attempts', answer'.at, answer'.as)
      BY <1>5, <2>2, <2>4
  <2>. QED BY <1>1, <1>2, <1>3, <2>2, <2>5, <2>6, ReturnEnds
<1>. QED BY <1>7, <1>8 DEF ReturnDoor

(* What a run that goes on has.                                             *)
LEMMA LiveIs ==
    ASSUME IInv, Live
    PROVE  /\ TypeOK /\ RungsAsPermitted /\ Tracked /\ Unrefused /\ InOrder /\ AtWork
           /\ attempts \in Seq(Attempt) /\ Len(attempts) \in Nat /\ rungs \in Seq(Rungs)
           /\ DOMAIN attempts = 1 .. Len(attempts) /\ DOMAIN rungs = 1 .. Len(rungs)
           /\ FirstBest(attempts, Len(attempts), best) /\ best \in 0 .. Len(attempts)
           /\ Len(attempts) <= Cardinality(Rungs) + 1
           /\ history \in HistoryRow /\ saved \in Saved /\ answer \in AnswerRow
           /\ answer.at <= Len(attempts)
<1>1. TypeOK /\ RungsAsPermitted /\ LiveInv
    BY DEF IInv
<1>2. /\ attempts \in Seq(Attempt) /\ rungs \in Seq(Rungs) /\ best \in 0 .. Len(attempts)
      /\ Len(attempts) <= Cardinality(Rungs) + 1
      /\ history \in HistoryRow /\ saved \in Saved
    BY <1>1 DEF TypeOK, HistoryRow, Saved
<1>3. Len(attempts) \in Nat
    BY <1>2
<1>4. answer \in AnswerRow /\ answer.at <= Len(attempts)
    BY <1>1, <1>3 DEF TypeOK, AnswerRow
<1>. QED BY <1>1, <1>2, <1>3, <1>4 DEF LiveInv, Tracked

(* A run over without a further attempt: its attempts are what they were.    *)
LEMMA EndsHere ==
    ASSUME IInv, Live, phase' = "ended",
           UNCHANGED << setting, runs, run, rungs, attempts, best, overrode, history, saved >>,
           NEW at \in 0 .. Len(attempts), NEW as, answer' = [at |-> at, as |-> as],
           as \in {"itself", "partial", "timeout", "compromised", "paused", "stopped"},
           as = "stopped" \/ GoodAnswer(attempts, at, as)
    PROVE  IInv'
<1>1. /\ attempts' = attempts /\ attempts \in Seq(Attempt) /\ Len(attempts) \in Nat
      /\ best' \in 0 .. Len(attempts') /\ Len(attempts') <= Cardinality(Rungs) + 1
      /\ history' \in HistoryRow /\ saved' \in Saved
      /\ RungsAsPermitted
    BY LiveIs
<1>2. RungsAsPermitted'
    BY <1>1 DEF RungsAsPermitted, Authed
<1>3. answer'.at = at /\ answer'.as = as
    OBVIOUS
<1>4. answer' \in AnswerRow /\ answer'.at <= Len(attempts')
  <2>1. at \in Nat /\ at <= Len(attempts')
      BY <1>1
  <2>2. answer' \in AnswerRow
      BY <2>1 DEF AnswerRow
  <2>. QED BY <1>3, <2>1, <2>2
<1>5. CASE as = "stopped"
  <2>1. BestPageIsKept'
      BY <1>3, <1>5 DEF BestPageIsKept, Ended
  <2>. QED BY <1>1, <1>2, <1>4, <2>1, EndsWell
<1>6. CASE GoodAnswer(attempts, at, as)
  <2>1. GoodAnswer(attempts', answer'.at, answer'.as)
      BY <1>1, <1>3, <1>6
  <2>. QED BY <1>1, <1>2, <1>4, <2>1, EndsWell
<1>. QED BY <1>5, <1>6

(* No rung is left.                                                         *)
LEMMA ExhaustedStep ==
    ASSUME IInv, Exhausted
    PROVE  IInv'
<1>1. /\ phase = "walk" /\ rungs = << >> /\ Live /\ Conclude(attempts, best)
      /\ UNCHANGED << setting, runs, run, rungs, attempts, best, overrode, history, saved >>
    BY DEF Exhausted, Live
<1>2. attempts # << >>
    BY <1>1, LiveIs DEF AtWork
<1>3. PICK t, b : t = attempts /\ b = best
    OBVIOUS
<1>4. t \in Seq(Attempt) /\ t # << >> /\ FirstBest(t, Len(t), b) /\ Conclude(t, b)
    BY <1>1, <1>2, <1>3, LiveIs
<1>5. /\ phase' = "ended" /\ answer' = [at |-> answer'.at, as |-> answer'.as]
      /\ answer'.at \in 1 .. Len(t) /\ answer'.as \in {"itself", "compromised"}
      /\ GoodAnswer(t, answer'.at, answer'.as)
    BY <1>4, ConcludeGood
<1>6. PICK at, as : at = answer'.at /\ as = answer'.as
    OBVIOUS
<1>7. /\ at \in 0 .. Len(attempts) /\ answer' = [at |-> at, as |-> as]
      /\ as \in {"itself", "compromised"} /\ GoodAnswer(attempts, at, as)
    BY <1>3, <1>5, <1>6
<1>. QED BY <1>1, <1>5, <1>7, EndsHere

(* The caller's deadline comes between rungs or while one is fetching.       *)
LEMMA DeadlineStep ==
    ASSUME IInv, Deadline
    PROVE  IInv'
<1>1. /\ Live /\ DeadlineOutcome(attempts)
      /\ UNCHANGED << setting, runs, run, rungs, attempts, best, overrode, history, saved >>
    BY DEF Deadline, Live
<1>2. PICK t : t = attempts
    OBVIOUS
<1>3. t \in Seq(Attempt) /\ DeadlineOutcome(t)
    BY <1>1, <1>2, LiveIs
<1>4. /\ phase' = "ended" /\ answer' = [at |-> answer'.at, as |-> answer'.as]
      /\ answer'.at \in 0 .. Len(t) /\ answer'.as \in {"partial", "timeout"}
      /\ GoodAnswer(t, answer'.at, answer'.as)
    BY <1>3, DeadlineGood
<1>5. PICK at, as : at = answer'.at /\ as = answer'.as
    OBVIOUS
<1>6. /\ at \in 0 .. Len(attempts) /\ answer' = [at |-> at, as |-> as]
      /\ as \in {"partial", "timeout"} /\ GoodAnswer(attempts, at, as)
    BY <1>2, <1>4, <1>5
<1>. QED BY <1>1, <1>4, <1>6, EndsHere

(* A cancelled run answers with nothing.                                    *)
LEMMA CancelStep ==
    ASSUME IInv, Cancel
    PROVE  IInv'
<1>1. /\ Live /\ phase' = "ended" /\ answer' = [at |-> 0, as |-> "stopped"]
      /\ UNCHANGED << setting, runs, run, rungs, attempts, best, overrode, history, saved >>
    BY DEF Cancel, Live, Answer
<1>2. 0 \in 0 .. Len(attempts)
    BY <1>1, LiveIs
<1>. QED BY <1>1, <1>2, EndsHere

(* The person is done: the run is paused, or its rung gets one retry.        *)
LEMMA TakeOverStep ==
    ASSUME IInv, TakeOver
    PROVE  IInv'
<1>1. /\ phase = "human" /\ Live
      /\ UNCHANGED << setting, runs, run, rungs, attempts, best, overrode, history, saved >>
    BY DEF TakeOver, Live
<1>2. PICK t, b : t = attempts /\ b = best
    OBVIOUS
<1>3. /\ t \in Seq(Attempt) /\ t # << >> /\ FirstBest(t, Len(t), b) /\ Len(t) \in Nat
      /\ Last(t).res.is = "blocked"
    BY <1>1, <1>2, LiveIs DEF AtWork
<1>4. CASE Answer(IF best # 0 THEN best ELSE Len(attempts), "paused")
  <2>1. PICK at : at = IF b # 0 THEN b ELSE Len(t)
      OBVIOUS
  <2>2. phase' = "ended" /\ answer' = [at |-> at, as |-> "paused"]
      BY <1>2, <1>4, <2>1 DEF Answer
  <2>3. at \in 1 .. Len(t) /\ at \in 0 .. Len(t) /\ at # 0
      BY <1>3, <2>1 DEF FirstBest
  <2>4. GoodAnswer(t, at, "paused")
    <3>1. CASE b # 0
        BY <1>3, <2>1, <3>1, GoodIs
    <3>2. CASE b = 0
      <4>1. t[at].res.is = "blocked"
          BY <1>3, <2>1, <3>2 DEF Last
      <4>. QED BY <1>3, <2>3, <3>2, <4>1, GoodIs
    <3>. QED BY <3>1, <3>2
  <2>5. at \in 0 .. Len(attempts) /\ GoodAnswer(attempts, at, "paused")
      BY <1>2, <2>3, <2>4
  <2>. QED BY <1>1, <2>2, <2>5, EndsHere
<1>5. CASE phase' = "retry" /\ UNCHANGED answer
  <2>1. /\ TypeOK /\ RungsAsPermitted /\ Tracked /\ Unrefused /\ InOrder /\ AtWork
      BY <1>1, LiveIs
  <2>2. TypeOK'
      BY <1>1, <1>5, <2>1 DEF TypeOK
  <2>3. RungsAsPermitted'
      BY <1>1, <2>1 DEF RungsAsPermitted, Authed
  <2>4. Tracked' /\ Unrefused'
      BY <1>1, <2>1 DEF Tracked, Unrefused
  <2>5. InOrder'
      BY <1>1, <1>5, <2>1 DEF InOrder, Authed
  <2>6. AtWork'
      BY <1>1, <1>5, <2>1 DEF AtWork, Authed
  <2>7. BestPageIsKept'
      BY <1>5 DEF BestPageIsKept, Ended
  <2>. QED BY <2>2, <2>3, <2>4, <2>5, <2>6, <2>7 DEF IInv, LiveInv
<1>. QED BY <1>4, <1>5 DEF TakeOver

(* The retry a person is asked for, on the rung that was unblocked.          *)
LEMMA RetriedStep ==
    ASSUME IInv, NEW o, Retried(o)
    PROVE  IInv'
<1>1. /\ phase = "retry" /\ Live /\ o \in Offered /\ attempts' = With(o)
      /\ Answer(IF o.is = "page" \/ best = 0 THEN Here ELSE best, "itself")
      /\ UNCHANGED << setting, runs, run, rungs, best, overrode, history, saved >>
    BY DEF Retried, Live
<1>2. /\ RungsAsPermitted /\ Unrefused /\ AtWork /\ TypeOK
      /\ attempts \in Seq(Attempt) /\ rungs \in Seq(Rungs)
      /\ DOMAIN attempts = 1 .. Len(attempts) /\ Len(attempts) \in Nat
      /\ FirstBest(attempts, Len(attempts), best) /\ best \in 0 .. Len(attempts)
      /\ history \in HistoryRow /\ saved \in Saved
    BY <1>1, LiveIs
<1>3. /\ rungs # << >> /\ attempts # << >> /\ Authed
      /\ Len(attempts) + Len(rungs) <= Cardinality(Rungs) + 1
      /\ Last(attempts).res.is = "blocked" /\ Last(attempts).rung = rungs[1]
    BY <1>1, <1>2 DEF AtWork
<1>4. PICK n, t, b, l : /\ n = Len(attempts) /\ t = attempts' /\ b = best
                        /\ l = attempts[n]
    OBVIOUS
<1>5. PICK a : a = [rung |-> rungs[1], res |-> o, again |-> TRUE]
    OBVIOUS
<1>6. n \in Nat /\ n >= 1 /\ n \in 1 .. n /\ l.res.is = "blocked" /\ l.rung = rungs[1]
    BY <1>2, <1>3, <1>4 DEF Last
<1>7. a \in Attempt
  <2>1. o \in AllResults /\ rungs[1] \in Rungs
      BY <1>1, <1>2, <1>3, OfferedIs
  <2>. QED BY <1>5, <2>1 DEF Attempt
<1>8. t = Append(attempts, a)
  <2>1. Head(rungs) = rungs[1] /\ (phase = "retry") = TRUE
      BY <1>1, <1>2, <1>3
  <2>2. a = [rung |-> Head(rungs), res |-> o, again |-> phase = "retry"]
      BY <1>5, <2>1
  <2>. QED BY <1>1, <1>4, <2>2 DEF With
<1>9. Grown(attempts, a, b, t)
  <2>1. PICK tried : tried = attempts
      OBVIOUS
  <2>2. /\ tried \in Seq(Attempt) /\ FirstBest(tried, Len(tried), b) /\ t = Append(tried, a)
      BY <1>2, <1>4, <1>8, <2>1
  <2>3. Grown(tried, a, b, t)
      BY <1>7, <2>2, BestWith
  <2>. QED BY <2>1, <2>3
<1>10. /\ t \in Seq(Attempt) /\ Len(t) = n + 1 /\ t[n + 1] = a /\ Last(t) = a /\ t # << >>
       /\ FirstBest(t, Len(t), NextBest(t, Len(t), b)) /\ Len(t) \in Nat
       /\ b \in 0 .. n /\ Here = Len(t)
    BY <1>2, <1>4, <1>6, <1>9 DEF Grown, Last, Here
<1>11. RungsAsPermitted'
  <2>1. overrode => a.rung \notin VendorRungs
      BY <1>2, <1>4, <1>5, <1>6 DEF RungsAsPermitted
  <2>2. a.rung = run.avoid =>
          \E i \in DOMAIN attempts : attempts[i].rung \in VendorRungs \ {run.avoid}
    <3>1. l.rung = run.avoid =>
            \E j \in 1 .. n - 1 : attempts[j].rung \in VendorRungs \ {run.avoid}
        BY <1>2, <1>4, <1>6 DEF RungsAsPermitted
    <3>2. \A j \in 1 .. n - 1 : j \in DOMAIN attempts
        BY <1>2, <1>4, <1>6
    <3>. QED BY <1>5, <1>6, <3>1, <3>2
  <2>3. attempts' = Append(attempts, a)
      BY <1>4, <1>8
  <2>. QED BY <1>1, <1>2, <1>3, <1>7, <2>1, <2>2, <2>3, PermitsOneMore
<1>12. PICK at : at = IF o.is = "page" \/ b = 0 THEN Len(t) ELSE b
    OBVIOUS
<1>13. phase' = "ended" /\ answer' = [at |-> at, as |-> "itself"]
    BY <1>1, <1>4, <1>10, <1>12 DEF Answer
<1>14. at \in 0 .. Len(t) /\ at \in Nat /\ at <= Len(t) /\ b \in 0 .. Len(t)
  <2>1. PICK m : m = Len(t)
      OBVIOUS
  <2>2. m \in Nat /\ m = n + 1 /\ b \in 0 .. n
      BY <1>10, <2>1
  <2>3. b \in 0 .. m /\ b \in Nat /\ b <= m
      BY <1>6, <2>2
  <2>4. at = m \/ at = b
      BY <1>12, <2>1
  <2>. QED BY <2>1, <2>2, <2>3, <2>4
<1>15. answer' \in AnswerRow /\ answer'.at <= Len(attempts')
  <2>1. answer' \in AnswerRow
      BY <1>13, <1>14 DEF AnswerRow
  <2>. QED BY <1>4, <1>13, <1>14, <2>1
<1>16. Len(attempts') <= Cardinality(Rungs) + 1
  <2>1. PICK k, c : k = Len(rungs) /\ c = Cardinality(Rungs)
      OBVIOUS
  <2>2. n + k <= c + 1 /\ k \in Nat /\ k >= 1
      BY <1>2, <1>3, <1>4, <2>1
  <2>3. c \in Nat
      BY <2>1, RungsAre
  <2>4. n + 1 <= c + 1
      BY <1>6, <2>2, <2>3
  <2>. QED BY <1>4, <1>10, <2>1, <2>4
<1>17. CASE o.is = "page"
  <2>1. Last(attempts').again /\ Last(attempts').res.is = "page"
      BY <1>4, <1>5, <1>10, <1>17
  <2>2. BestPageIsKept'
      BY <2>1 DEF BestPageIsKept, LastWord
  <2>. QED
    BY <1>1, <1>2, <1>4, <1>10, <1>11, <1>13, <1>14, <1>15, <1>16, <2>2, EndsWell
<1>18. CASE o.is # "page"
  <2>1. t[Len(t)].res = o /\ t[Len(t)].again /\ SizeAt(t, b) = SizeAt(attempts, b)
      BY <1>5, <1>9, <1>10 DEF Grown
  <2>2. GoodAnswer(t, at, "itself")
    <3>1. CASE b # 0
      <4>1. b \in 1 .. n /\ StandsBy(attempts, n, b)
          BY <1>2, <1>4, <1>10, <3>1 DEF FirstBest
      <4>2. b # n /\ n > b
          BY <1>4, <1>6, <4>1 DEF StandsBy
      <4>3. attempts[b].res.size # 0
          BY <1>4, <1>6, <4>1, <4>2 DEF StandsBy, Blocked
      <4>4. NextBest(t, Len(t), b) = b
          BY <1>18, <2>1, <3>1, <4>3 DEF NextBest, SizeAt
      <4>5. FirstBest(t, Len(t), b) /\ at = b
          BY <1>10, <1>12, <1>18, <3>1, <4>4
      <4>. QED BY <1>10, <3>1, <4>5, GoodIs
    <3>2. CASE b = 0
      <4>1. NextBest(t, Len(t), b) = 0
          BY <1>18, <2>1, <3>2 DEF NextBest
      <4>2. FirstBest(t, Len(t), 0) /\ at = Len(t) /\ at # 0
          BY <1>10, <1>12, <1>6, <3>2, <4>1
      <4>3. t[at].res.is # "page" /\ Last(t).again
          BY <1>5, <1>10, <1>18, <2>1, <4>2
      <4>. QED BY <1>10, <1>14, <4>2, <4>3, GoodIs
    <3>. QED BY <3>1, <3>2
  <2>3. GoodAnswer(attempts', answer'.at, answer'.as)
      BY <1>4, <1>13, <2>2
  <2>. QED
    BY <1>1, <1>2, <1>4, <1>10, <1>11, <1>13, <1>14, <1>15, <1>16, <2>3, EndsWell
<1>. QED BY <1>17, <1>18

(* A vendor is passed over after an override.                               *)
LEMMA SkipStep ==
    ASSUME IInv, SkipVendor
    PROVE  IInv'
<1>1. /\ phase = "walk" /\ Live /\ rungs # << >> /\ Head(rungs) \in VendorRungs /\ overrode
      /\ rungs' = Tail(rungs)
      /\ UNCHANGED << setting, phase, runs, run, attempts, best, overrode, answer, history, saved >>
    BY DEF SkipVendor, Live, Barred, Skipped
<1>2. /\ TypeOK /\ RungsAsPermitted /\ Tracked /\ Unrefused /\ InOrder /\ AtWork
      /\ rungs \in Seq(Rungs)
    BY <1>1, LiveIs
<1>3. PICK r : r = rungs'
    OBVIOUS
<1>4. /\ Len(rungs) \in Nat /\ Len(rungs) >= 1 /\ DOMAIN rungs = 1 .. Len(rungs)
      /\ r \in Seq(Rungs) /\ Len(r) = Len(rungs) - 1 /\ DOMAIN r = 1 .. Len(r)
      /\ \A k \in 1 .. Len(r) : r[k] = rungs[k + 1] /\ k + 1 \in DOMAIN rungs
      /\ rungs[1] = Head(rungs)
    BY <1>1, <1>2, <1>3, HeadTailProperties
<1>5. TypeOK' /\ RungsAsPermitted' /\ Tracked' /\ Unrefused' /\ BestPageIsKept'
  <2>1. TypeOK'
      BY <1>1, <1>2, <1>3, <1>4 DEF TypeOK
  <2>2. RungsAsPermitted'
      BY <1>1, <1>2 DEF RungsAsPermitted, Authed
  <2>3. Tracked' /\ Unrefused'
      BY <1>1, <1>2 DEF Tracked, Unrefused
  <2>4. BestPageIsKept'
      BY <1>1 DEF BestPageIsKept, Ended
  <2>. QED BY <2>1, <2>2, <2>3, <2>4
<1>6. InOrder'
  <2>1. ASSUME NEW j \in DOMAIN r, NEW k \in DOMAIN r, j < k, r[j] \in VendorRungs
        PROVE  r[k] \in VendorRungs
    <3>1. j + 1 \in DOMAIN rungs /\ k + 1 \in DOMAIN rungs /\ j + 1 < k + 1
          /\ rungs[j + 1] \in VendorRungs
        BY <2>1, <1>4
    <3>2. rungs[k + 1] \in VendorRungs
        BY <3>1, <1>2 DEF InOrder
    <3>. QED BY <3>2, <1>4
  <2>2. ~Authed => \A k \in DOMAIN r : r[k] # "authed_session"
      BY <1>2, <1>4 DEF InOrder
  <2>3. \A k \in DOMAIN r : r[k] \in VendorRungs
    <3>. TAKE k \in DOMAIN r
    <3>1. 1 \in DOMAIN rungs /\ k + 1 \in DOMAIN rungs /\ 1 < k + 1 /\ rungs[1] \in VendorRungs
        BY <1>1, <1>4
    <3>2. rungs[k + 1] \in VendorRungs
        BY <3>1, <1>2 DEF InOrder
    <3>. QED BY <3>2, <1>4
  <2>4. (Authed <=> Authed') /\ overrode'
      BY <1>1 DEF Authed
  <2>. QED BY <2>1, <2>2, <2>3, <2>4, <1>1, <1>3 DEF InOrder
<1>7. AtWork'
  <2>1. attempts # << >>
      BY <1>1, <1>2, <1>4 DEF AtWork
  <2>2. Len(attempts) + Len(r) <= Cardinality(Rungs)
    <3>. PICK n, l, m, c : /\ n = Len(attempts) /\ l = Len(rungs) /\ m = Len(r)
                           /\ c = Cardinality(Rungs)
        OBVIOUS
    <3>1. n + l <= c /\ m = l - 1 /\ l \in Nat /\ n \in Nat
        BY <1>1, <1>2, <1>4, LiveIs DEF AtWork
    <3>2. c \in Nat
        BY RungsAre
    <3>. QED BY <3>1, <3>2
  <2>. QED BY <2>1, <2>2, <1>1, <1>3 DEF AtWork
<1>. QED BY <1>5, <1>6, <1>7 DEF IInv, LiveInv

(* A rung's fetch begins, and with it perhaps an override.                   *)
LEMMA FetchStep ==
    ASSUME IInv, NEW sets \in BOOLEAN, Fetch(sets)
    PROVE  IInv'
<1>1. /\ phase = "walk" /\ Live /\ rungs # << >> /\ ~Barred(Head(rungs))
      /\ sets => Head(rungs) \in {"http", "browser_local"}
      /\ overrode' = (overrode \/ sets) /\ phase' = "fetch"
      /\ UNCHANGED << setting, runs, run, rungs, attempts, best, answer, history, saved >>
    BY DEF Fetch, Live
<1>2. /\ TypeOK /\ RungsAsPermitted /\ Tracked /\ Unrefused /\ InOrder /\ AtWork
      /\ rungs \in Seq(Rungs)
    BY <1>1, LiveIs
<1>3. 1 \in DOMAIN rungs /\ rungs[1] = Head(rungs)
    BY <1>1, <1>2
<1>4. overrode' => rungs[1] \notin VendorRungs
    BY <1>1, <1>3, RungsAre DEF Barred, LocalRungs
<1>5. TypeOK'
    BY <1>1, <1>2 DEF TypeOK
<1>6. RungsAsPermitted'
  <2>1. overrode' => \A i \in DOMAIN attempts : attempts[i].rung \notin VendorRungs
      BY <1>1, <1>2, <1>3, <1>4 DEF InOrder, RungsAsPermitted
  <2>2. attempts' = attempts /\ run' = run /\ (Authed <=> Authed')
      BY <1>1 DEF Authed
  <2>. QED BY <2>1, <2>2, <1>2 DEF RungsAsPermitted
<1>7. Tracked' /\ Unrefused'
    BY <1>1, <1>2 DEF Tracked, Unrefused
<1>8. InOrder'
    BY <1>1, <1>2 DEF InOrder, Authed
<1>9. AtWork'
    BY <1>1, <1>2, <1>4 DEF AtWork
<1>10. BestPageIsKept'
    BY <1>1 DEF BestPageIsKept, Ended
<1>. QED BY <1>5, <1>6, <1>7, <1>8, <1>9, <1>10 DEF IInv, LiveInv

(* A run begins: nothing has been tried, and its rungs are ordered.          *)
LEMMA BeginStep ==
    ASSUME IInv, NEW wait \in BOOLEAN, NEW ranked \in SetToSeqs(VendorRungs),
           Begin(wait, ranked)
    PROVE  IInv'
<1>1. PICK login, avoid :
        /\ login = (Authed /\ saved = "login")
        /\ avoid = IF history.last \in history.broken /\ Len(Vendors) > 1
                   THEN history.last ELSE None
    OBVIOUS
<1>2. /\ run' = [login |-> login, wait |-> wait, avoid |-> avoid]
      /\ rungs' = Ordered(login, wait, ranked)
      /\ phase' = "walk" /\ runs < MaxRuns /\ runs' = runs + 1
      /\ attempts' = << >> /\ best' = 0 /\ overrode' = FALSE /\ answer' = NoAnswer
      /\ UNCHANGED << setting, history, saved >>
    BY <1>1 DEF Begin
<1>3. TypeOK /\ history \in HistoryRow /\ login \in BOOLEAN
    BY <1>1 DEF IInv, TypeOK, HistoryRow
<1>4. history.last \in VendorRungs \cup {None} /\ history.broken \in SUBSET VendorRungs
    BY <1>3 DEF HistoryRow
<1>5. Ordering(Ordered(login, wait, ranked), avoid)
    BY <1>1, <1>3, <1>4, OrderedIs
<1>6. PICK rg : rg = Ordered(login, wait, ranked)
    OBVIOUS
<1>7. Ordering(rg, avoid) /\ rungs' = rg
    BY <1>2, <1>5, <1>6
<1>8. run' \in RunRow /\ run'.avoid = avoid
    BY <1>1, <1>2, <1>3, <1>4 DEF RunRow
<1>9. TypeOK'
  <2>1. rg \in Seq(Rungs)
      BY <1>7 DEF Ordering
  <2>2. attempts' \in Seq(Attempt) /\ Len(attempts') = 0 /\ best' \in 0 .. Len(attempts')
      BY <1>2
  <2>3. answer' \in [at : 0 .. Len(attempts'),
                     as : {"none", "itself", "partial", "timeout", "compromised", "rejected",
                           "paused", "refused", "stopped"}]
      BY <1>2, <2>2 DEF NoAnswer
  <2>4. runs' \in 0 .. MaxRuns
      BY <1>2, <1>3, LadderAssumption DEF TypeOK
  <2>5. Len(attempts') <= Cardinality(Rungs) + 1
      BY <2>2, RungsAre
  <2>. QED BY <1>2, <1>3, <1>7, <1>8, <2>1, <2>2, <2>3, <2>4, <2>5 DEF TypeOK, RunRow
<1>10. BestPageIsKept'
    BY <1>2 DEF BestPageIsKept, Ended
<1>11. RungsAsPermitted'
    BY <1>2 DEF RungsAsPermitted
<1>12. Tracked' /\ Unrefused'
  <2>1. Tracked'
      BY <1>2 DEF Tracked, FirstBest
  <2>2. Unrefused'
      BY <1>2 DEF Unrefused
  <2>. QED BY <2>1, <2>2
<1>13. InOrder'
  <2>1. /\ \A j, k \in DOMAIN rg : j < k /\ rg[j] \in VendorRungs => rg[k] \in VendorRungs
        /\ ~Authed => \A k \in DOMAIN rg : rg[k] # "authed_session"
        /\ \A k \in DOMAIN rg : rg[k] = avoid =>
              \E j \in 1 .. k - 1 : rg[j] \in VendorRungs \ {avoid}
      BY <1>7 DEF Ordering
  <2>2. \A i \in DOMAIN attempts' : FALSE
      BY <1>2
  <2>3. Authed <=> Authed'
      BY <1>2 DEF Authed
  <2>. QED BY <1>7, <1>8, <2>1, <2>2, <2>3 DEF InOrder
<1>14. AtWork'
  <2>1. rg # << >> /\ rg[1] \notin VendorRungs /\ Len(rg) <= Cardinality(Rungs)
        /\ Len(rg) \in Nat
      BY <1>7 DEF Ordering
  <2>2. Len(attempts') + Len(rg) <= Cardinality(Rungs)
      BY <1>2, <2>1
  <2>. QED BY <1>2, <1>7, <2>1, <2>2 DEF AtWork
<1>. QED BY <1>9, <1>10, <1>11, <1>12, <1>13, <1>14 DEF IInv, LiveInv

(* A host off the allowlist is refused.                                     *)
LEMMA RefuseStep ==
    ASSUME IInv, RefuseHost
    PROVE  IInv'
<1>1. /\ runs < MaxRuns /\ runs' = runs + 1 /\ run' = NoRun /\ rungs' = << >>
      /\ attempts' = << >> /\ best' = 0 /\ overrode' = FALSE
      /\ phase' = "ended" /\ answer' = [at |-> 0, as |-> "refused"]
      /\ UNCHANGED << setting, history, saved >>
    BY DEF RefuseHost
<1>2. TypeOK
    BY DEF IInv
<1>3. TypeOK'
  <2>1. attempts' \in Seq(Attempt) /\ Len(attempts') = 0 /\ best' \in 0 .. Len(attempts')
        /\ rungs' \in Seq(Rungs)
      BY <1>1
  <2>2. answer' \in [at : 0 .. Len(attempts'),
                     as : {"none", "itself", "partial", "timeout", "compromised", "rejected",
                           "paused", "refused", "stopped"}]
      BY <1>1, <2>1
  <2>3. runs' \in 0 .. MaxRuns
      BY <1>1, <1>2, LadderAssumption DEF TypeOK
  <2>4. Len(attempts') <= Cardinality(Rungs) + 1
      BY <2>1, RungsAre
  <2>. QED BY <1>1, <1>2, <2>1, <2>2, <2>3, <2>4 DEF TypeOK, NoRun
<1>4. BestPageIsKept' /\ RungsAsPermitted'
    BY <1>1 DEF BestPageIsKept, Ended, RungsAsPermitted
<1>5. ~Live'
    BY <1>1 DEF Live
<1>. QED BY <1>3, <1>4, <1>5 DEF IInv

(* At the start no run has begun.                                           *)
LEMMA Starts ==
    Init => IInv
<1>. SUFFICES ASSUME Init PROVE IInv
    OBVIOUS
<1>1. /\ phase = "idle" /\ runs = 0 /\ run = NoRun /\ rungs = << >> /\ attempts = << >>
      /\ best = 0 /\ overrode = FALSE /\ answer = NoAnswer
      /\ history = [last |-> None, broken |-> {}] /\ saved \in {"none", "login"}
    BY DEF Init
<1>2. TypeOK
  <2>1. attempts \in Seq(Attempt) /\ Len(attempts) = 0 /\ rungs \in Seq(Rungs)
      BY <1>1
  <2>2. answer \in [at : 0 .. Len(attempts),
                    as : {"none", "itself", "partial", "timeout", "compromised", "rejected",
                          "paused", "refused", "stopped"}]
      BY <1>1, <2>1 DEF NoAnswer
  <2>3. Len(attempts) <= Cardinality(Rungs) + 1 /\ runs \in 0 .. MaxRuns
      BY <1>1, <2>1, RungsAre, LadderAssumption
  <2>4. run \in RunRow /\ history \in HistoryRow /\ best \in 0 .. Len(attempts)
      BY <1>1, <2>1 DEF NoRun, RunRow, HistoryRow
  <2>5. /\ phase \in {"idle", "walk", "fetch", "human", "retry", "ended"}
        /\ overrode \in BOOLEAN /\ saved \in {"none", "login", "vendor"}
      BY <1>1
  <2>. QED BY <2>1, <2>2, <2>3, <2>4, <2>5, Zenon DEF TypeOK, RunRow, HistoryRow
<1>3. BestPageIsKept /\ RungsAsPermitted
    BY <1>1 DEF BestPageIsKept, Ended, RungsAsPermitted
<1>4. ~Live
    BY <1>1 DEF Live
<1>. QED BY <1>2, <1>3, <1>4 DEF IInv

(* Every step of a run keeps the invariant.                                 *)
LEMMA Steps ==
    IInv /\ [Next]_vars => IInv'
<1>. SUFFICES ASSUME IInv, [Next]_vars PROVE IInv'
    OBVIOUS
<1>1. CASE SkipVendor
    BY <1>1, SkipStep
<1>2. CASE Exhausted
    BY <1>2, ExhaustedStep
<1>3. CASE \E sets \in BOOLEAN : Fetch(sets)
    BY <1>3, FetchStep
<1>4. ASSUME NEW o \in Offered,
             \/ ReturnLater(o) \/ ReturnRejected(o) \/ ReturnPage(o) \/ ReturnDoor(o)
             \/ ReturnStop(o) \/ ReturnNext(o) \/ ReturnLate(o) \/ Retried(o)
      PROVE  IInv'
    BY <1>4, LaterStep, RejectedStep, PageStep, DoorStep, StopStep, NextStep, LateStep,
       RetriedStep
<1>5. CASE Deadline
    BY <1>5, DeadlineStep
<1>6. CASE Cancel
    BY <1>6, CancelStep
<1>7. CASE TakeOver
    BY <1>7, TakeOverStep
<1>8. CASE RefuseHost
    BY <1>8, RefuseStep
<1>9. CASE \E wait \in BOOLEAN, ranked \in SetToSeqs(VendorRungs) : Begin(wait, ranked)
    BY <1>9, BeginStep
<1>10. CASE UNCHANGED vars
  <2>1. TypeOK' /\ BestPageIsKept' /\ RungsAsPermitted'
    <3>1. TypeOK /\ BestPageIsKept /\ RungsAsPermitted
        BY DEF IInv
    <3>2. TypeOK'
        BY <1>10, <3>1 DEF TypeOK, vars
    <3>3. BestPageIsKept'
        BY <1>10, <3>1 DEF BestPageIsKept, Ended, LastWord, Stands, vars
    <3>4. RungsAsPermitted'
        BY <1>10, <3>1 DEF RungsAsPermitted, Authed, vars
    <3>. QED BY <3>2, <3>3, <3>4
  <2>2. Live' => LiveInv'
      BY <1>10 DEF IInv, Live, LiveInv, Tracked, Unrefused, InOrder, AtWork, Authed, vars
  <2>. QED BY <2>1, <2>2 DEF IInv
<1>. QED
  BY <1>1, <1>2, <1>3, <1>4, <1>5, <1>6, <1>7, <1>8, <1>9, <1>10 DEF Next, Step

-----------------------------------------------------------------------------
(* Each rung once.                                                         *)

(* No rung is tried twice in a run but the one a person has unblocked, and   *)
(* that one again at once (ladder.ts:337-387, attemptHandoff).              *)
EachRungOnce ==
    \A i, j \in DOMAIN attempts :
        i < j /\ attempts[i].rung = attempts[j].rung => attempts[j].again /\ i = j - 1

(* No rung left has been tried, but the one a person is asked for.           *)
Untried ==
    \A i \in DOMAIN attempts, k \in DOMAIN rungs :
        attempts[i].rung = rungs[k] =>
            phase \in {"human", "retry"} /\ k = 1 /\ i = Len(attempts)

OnceInv == EachRungOnce /\ (Live => Distinct(rungs) /\ Untried)

(* One attempt more, on a rung that was not tried or for a person.           *)
LEMMA OnceMore ==
    ASSUME EachRungOnce, attempts \in Seq(Attempt), NEW a \in Attempt,
           attempts' = Append(attempts, a),
           \A i \in DOMAIN attempts :
              attempts[i].rung = a.rung => a.again /\ i = Len(attempts)
    PROVE  EachRungOnce'
<1>. PICK n, t : n = Len(attempts) /\ t = attempts'
    OBVIOUS
<1>1. /\ n \in Nat /\ DOMAIN attempts = 1 .. n /\ DOMAIN t = 1 .. n + 1
      /\ t[n + 1] = a /\ \A i \in 1 .. n : t[i] = attempts[i]
    OBVIOUS
<1>2. ASSUME NEW i \in 1 .. n + 1, NEW j \in 1 .. n + 1, i < j, t[i].rung = t[j].rung
      PROVE  t[j].again /\ i = j - 1
  <2>1. i \in 1 .. n /\ t[i] = attempts[i]
      BY <1>1, <1>2
  <2>2. CASE j = n + 1
      BY <1>1, <1>2, <2>1, <2>2
  <2>3. CASE j \in 1 .. n
      BY <1>1, <1>2, <2>1, <2>3 DEF EachRungOnce
  <2>. QED BY <1>1, <2>2, <2>3
<1>. QED BY <1>1, <1>2 DEF EachRungOnce

(* A rung that returns was not tried before, and no rung after it was.       *)
LEMMA ReturnOnce ==
    ASSUME IInv, OnceInv, NEW o, Returns(o)
    PROVE  /\ EachRungOnce' /\ Distinct(rungs) /\ rungs \in Seq(Rungs) /\ rungs # << >>
           /\ \A i \in DOMAIN attempts', k \in DOMAIN rungs :
                attempts'[i].rung = rungs[k] => k = 1 /\ i = Len(attempts')
<1>1. Returned(o) /\ phase = "fetch" /\ EachRungOnce /\ Distinct(rungs) /\ Untried
    BY ReturnIs DEF Returns, OnceInv, Live
<1>2. PICK n, t, a : n = Len(attempts) /\ t = attempts' /\ a = Attempted(o)
    OBVIOUS
<1>3. /\ attempts \in Seq(Attempt) /\ a \in Attempt /\ t = Append(attempts, a)
      /\ rungs \in Seq(Rungs) /\ rungs # << >> /\ a.rung = rungs[1] /\ 1 \in DOMAIN rungs
    BY <1>1, <1>2 DEF Returned, Attempted
<1>4. \A i \in DOMAIN attempts, k \in DOMAIN rungs : attempts[i].rung # rungs[k]
    BY <1>1 DEF Untried
<1>5. EachRungOnce'
    BY <1>1, <1>2, <1>3, <1>4, OnceMore
<1>6. ASSUME NEW i \in DOMAIN t, NEW k \in DOMAIN rungs, t[i].rung = rungs[k]
      PROVE  k = 1 /\ i = Len(t)
  <2>1. /\ n \in Nat /\ DOMAIN attempts = 1 .. n /\ DOMAIN t = 1 .. n + 1 /\ Len(t) = n + 1
        /\ t[n + 1] = a /\ \A j \in 1 .. n : t[j] = attempts[j]
      BY <1>2, <1>3
  <2>2. i = n + 1
      BY <1>4, <1>6, <2>1
  <2>. QED BY <1>1, <1>3, <1>6, <2>1, <2>2 DEF Distinct
<1>. QED BY <1>1, <1>2, <1>3, <1>5, <1>6

(* The rungs after the first are the rest of them.                          *)
LEMMA RestIs ==
    ASSUME NEW S, NEW s \in Seq(S), s # << >>, Distinct(s)
    PROVE  /\ Distinct(Tail(s))
           /\ \A k \in DOMAIN Tail(s) : k + 1 \in DOMAIN s /\ k + 1 # 1 /\ Tail(s)[k] = s[k + 1]
<1>1. /\ Len(s) \in Nat /\ DOMAIN s = 1 .. Len(s) /\ DOMAIN Tail(s) = 1 .. Len(s) - 1
      /\ \A k \in 1 .. Len(s) - 1 : Tail(s)[k] = s[k + 1]
    BY HeadTailProperties
<1>2. \A k \in DOMAIN Tail(s) : k + 1 \in DOMAIN s /\ k + 1 # 1 /\ Tail(s)[k] = s[k + 1]
    BY <1>1
<1>3. \A j, k \in DOMAIN Tail(s) : Tail(s)[j] = Tail(s)[k] => j = k
    BY <1>1, <1>2 DEF Distinct
<1>. QED BY <1>2, <1>3 DEF Distinct

(* What a rung's return leaves to try.                                      *)
LEMMA ReturnLeaves ==
    ASSUME IInv, OnceInv, NEW o, Returns(o),
           phase' = "ended" \/ GoOn \/ (phase' = "human" /\ rungs' = rungs)
    PROVE  OnceInv'
<1>1. /\ EachRungOnce' /\ Distinct(rungs) /\ rungs \in Seq(Rungs) /\ rungs # << >>
      /\ \A i \in DOMAIN attempts', k \in DOMAIN rungs :
           attempts'[i].rung = rungs[k] => k = 1 /\ i = Len(attempts')
    BY ReturnOnce
<1>2. CASE phase' = "ended"
    BY <1>1, <1>2 DEF OnceInv, Live
<1>3. CASE GoOn
  <2>1. phase' = "walk" /\ rungs' = Tail(rungs)
      BY <1>3 DEF GoOn, Left
  <2>2. /\ Distinct(rungs')
        /\ \A k \in DOMAIN rungs' : k + 1 \in DOMAIN rungs /\ k + 1 # 1 /\ rungs'[k] = rungs[k + 1]
      BY <1>1, <2>1, RestIs
  <2>3. Untried'
      BY <1>1, <2>2 DEF Untried
  <2>4. Distinct(rungs)'
      BY <2>2 DEF Distinct
  <2>. QED BY <1>1, <2>3, <2>4 DEF OnceInv
<1>4. CASE phase' = "human" /\ rungs' = rungs
  <2>1. Untried'
      BY <1>1, <1>4 DEF Untried
  <2>2. Distinct(rungs)'
      BY <1>1, <1>4 DEF Distinct
  <2>. QED BY <1>1, <2>1, <2>2 DEF OnceInv
<1>. QED BY <1>2, <1>3, <1>4

(* The attempts and the rungs left stay, and the run may end.                *)
LEMMA OnceStays ==
    ASSUME OnceInv, attempts' = attempts, rungs' = rungs,
           Live' => Live /\ (phase \in {"human", "retry"} => phase' \in {"human", "retry"})
    PROVE  OnceInv'
<1>1. EachRungOnce'
    BY DEF OnceInv, EachRungOnce
<1>2. Live' => Distinct(rungs)' /\ Untried'
  <2>. SUFFICES ASSUME Live' PROVE Distinct(rungs)' /\ Untried'
      OBVIOUS
  <2>1. Distinct(rungs) /\ Untried
      BY DEF OnceInv
  <2>2. Distinct(rungs)'
      BY <2>1 DEF Distinct
  <2>3. Untried'
      BY <2>1 DEF Untried
  <2>. QED BY <2>2, <2>3
<1>. QED BY <1>1, <1>2 DEF OnceInv

(* The retry is of the rung that was tried last.                            *)
LEMMA RetriedOnce ==
    ASSUME IInv, OnceInv, NEW o, Retried(o)
    PROVE  OnceInv'
<1>1. /\ phase = "retry" /\ Live /\ o \in Offered /\ attempts' = With(o) /\ phase' = "ended"
    BY DEF Retried, Live, Answer
<1>2. /\ attempts \in Seq(Attempt) /\ rungs \in Seq(Rungs) /\ rungs # << >>
      /\ EachRungOnce /\ Untried
    BY <1>1, LiveIs DEF AtWork, OnceInv
<1>3. PICK a : a = [rung |-> rungs[1], res |-> o, again |-> TRUE]
    OBVIOUS
<1>4. a \in Attempt /\ 1 \in DOMAIN rungs
  <2>1. o \in AllResults /\ rungs[1] \in Rungs /\ 1 \in DOMAIN rungs
      BY <1>1, <1>2, OfferedIs
  <2>. QED BY <1>3, <2>1 DEF Attempt
<1>5. attempts' = Append(attempts, a)
  <2>1. Head(rungs) = rungs[1] /\ (phase = "retry") = TRUE
      BY <1>1, <1>2
  <2>2. a = [rung |-> Head(rungs), res |-> o, again |-> phase = "retry"]
      BY <1>3, <2>1
  <2>. QED BY <1>1, <2>2 DEF With
<1>6. \A i \in DOMAIN attempts :
         attempts[i].rung = a.rung => a.again /\ i = Len(attempts)
    BY <1>2, <1>3, <1>4 DEF Untried
<1>7. EachRungOnce'
    BY <1>2, <1>4, <1>5, <1>6, OnceMore
<1>. QED BY <1>1, <1>7 DEF OnceInv, Live

(* A run begins with each of its rungs once.                                *)
LEMMA BeginOnce ==
    ASSUME IInv, NEW wait \in BOOLEAN, NEW ranked \in SetToSeqs(VendorRungs),
           Begin(wait, ranked)
    PROVE  OnceInv'
<1>1. PICK login, avoid :
        /\ login = (Authed /\ saved = "login")
        /\ avoid = IF history.last \in history.broken /\ Len(Vendors) > 1
                   THEN history.last ELSE None
    OBVIOUS
<1>2. rungs' = Ordered(login, wait, ranked) /\ attempts' = << >>
    BY <1>1 DEF Begin
<1>3. /\ history.last \in VendorRungs \cup {None} /\ history.broken \in SUBSET VendorRungs
      /\ login \in BOOLEAN
    BY <1>1 DEF IInv, TypeOK
<1>4. Ordering(Ordered(login, wait, ranked), avoid)
    BY <1>1, <1>3, OrderedIs
<1>5. Distinct(rungs')
    BY <1>2, <1>4 DEF Ordering
<1>6. Distinct(rungs)'
    BY <1>5 DEF Distinct
<1>. QED BY <1>2, <1>6 DEF OnceInv, EachRungOnce, Untried

(* Every step tries a rung that is new to the run, or retries for a person.  *)
LEMMA OnceSteps ==
    IInv /\ OnceInv /\ [Next]_vars => OnceInv'
<1>. SUFFICES ASSUME IInv, OnceInv, [Next]_vars PROVE OnceInv'
    OBVIOUS
<1>1. CASE SkipVendor
  <2>1. phase' = phase /\ phase = "walk" /\ rungs # << >> /\ rungs' = Tail(rungs)
        /\ attempts' = attempts
      BY <1>1 DEF SkipVendor, Skipped
  <2>2. EachRungOnce /\ Distinct(rungs) /\ Untried /\ rungs \in Seq(Rungs)
      BY <2>1 DEF OnceInv, Live, IInv, TypeOK
  <2>3. /\ Distinct(rungs')
        /\ \A k \in DOMAIN rungs' : k + 1 \in DOMAIN rungs /\ k + 1 # 1 /\ rungs'[k] = rungs[k + 1]
      BY <2>1, <2>2, RestIs
  <2>4. Untried' /\ EachRungOnce'
    <3>1. Untried'
        BY <2>1, <2>2, <2>3 DEF Untried
    <3>2. EachRungOnce'
        BY <2>1, <2>2 DEF EachRungOnce
    <3>. QED BY <3>1, <3>2
  <2>5. Distinct(rungs)'
      BY <2>3 DEF Distinct
  <2>. QED BY <2>4, <2>5 DEF OnceInv
<1>2. CASE Exhausted \/ Deadline \/ Cancel
  <2>1. attempts' = attempts /\ rungs' = rungs
      BY <1>2 DEF Exhausted, Deadline, Cancel
  <2>2. phase' = "ended"
      BY <1>2 DEF Exhausted, Deadline, Cancel, Conclude, DeadlineOutcome, Answer
  <2>. QED BY <2>1, <2>2, OnceStays DEF Live
<1>3. CASE \E sets \in BOOLEAN : Fetch(sets)
    BY <1>3, OnceStays DEF Fetch, Live
<1>4. ASSUME NEW o \in Offered,
             \/ ReturnLater(o) \/ ReturnRejected(o) \/ ReturnPage(o) \/ ReturnDoor(o)
             \/ ReturnStop(o) \/ ReturnNext(o) \/ ReturnLate(o)
      PROVE  OnceInv'
  <2>1. Returns(o)
      BY <1>4 DEF ReturnLater, ReturnRejected, ReturnPage, ReturnDoor, ReturnStop, ReturnNext,
                  ReturnLate, ReturnNoPage
  <2>2. phase' = "ended" \/ GoOn \/ (phase' = "human" /\ rungs' = rungs)
    <3>1. CASE ReturnLater(o) \/ ReturnRejected(o)
        BY <3>1 DEF ReturnLater, ReturnRejected, Answer
    <3>2. CASE ReturnPage(o)
        BY <3>2 DEF ReturnPage, Answer, Conclude
    <3>3. CASE ReturnDoor(o)
        BY <3>3 DEF ReturnDoor, Answer
    <3>4. CASE ReturnStop(o)
        BY <3>4 DEF ReturnStop, Answer, Conclude
    <3>5. CASE ReturnNext(o)
        BY <3>5 DEF ReturnNext
    <3>6. CASE ReturnLate(o)
        BY <3>6 DEF ReturnLate, DeadlineOutcome, Answer
    <3>. QED BY <1>4, <3>1, <3>2, <3>3, <3>4, <3>5, <3>6
  <2>. QED BY <2>1, <2>2, ReturnLeaves
<1>5. CASE \E o \in Offered : Retried(o)
    BY <1>5, RetriedOnce
<1>6. CASE TakeOver
  <2>1. /\ attempts' = attempts /\ rungs' = rungs /\ phase = "human"
        /\ phase' \in {"ended", "retry"}
      BY <1>6 DEF TakeOver, Answer
  <2>. QED BY <2>1, OnceStays DEF Live
<1>7. CASE RefuseHost
    BY <1>7 DEF RefuseHost, OnceInv, EachRungOnce, Live
<1>8. CASE \E wait \in BOOLEAN, ranked \in SetToSeqs(VendorRungs) : Begin(wait, ranked)
    BY <1>8, BeginOnce
<1>9. CASE UNCHANGED vars
    BY <1>9, OnceStays DEF vars, Live
<1>. QED
  BY <1>1, <1>2, <1>3, <1>4, <1>5, <1>6, <1>7, <1>8, <1>9 DEF Next, Step

-----------------------------------------------------------------------------
(* What holds of every run.                                                *)

(* IInv is inductive.                                                       *)
THEOREM Invariance == Spec => []IInv
<1>. QED BY Starts, Steps, PTL DEF Spec

(* The variables keep their types; a run has at most one attempt more than   *)
(* there are rungs, the one a person asked for.                             *)
THEOREM LadderTypeCorrect == Spec => []TypeOK
<1>1. IInv => TypeOK
    BY DEF IInv
<1>. QED BY Invariance, <1>1, PTL

(* A run that ends with its own answer answers with the first of the largest *)
(* pages that still stand, but where LastWord names the last rung: a wait    *)
(* the site asks for, a refused login, a page read after a person's help     *)
(* (LadderRunner.run, deadlineOutcome).                                      *)
THEOREM AnswerSafety == Spec => []BestPageIsKept
<1>1. IInv => BestPageIsKept
    BY DEF IInv
<1>. QED BY Invariance, <1>1, PTL

(* A login is used in authed runs only, nothing follows a refused login, no   *)
(* vendor is tried once an override is recorded, and the vendor that broke    *)
(* last comes after another one.                                            *)
THEOREM RungSafety == Spec => []RungsAsPermitted
<1>1. IInv => RungsAsPermitted
    BY DEF IInv
<1>. QED BY Invariance, <1>1, PTL

(* No rung is tried twice in a run, but the one a person unblocked, which is  *)
(* tried again at once (LadderRunner.run, attemptHandoff).                  *)
THEOREM RungOnceSafety == Spec => []EachRungOnce
<1>1. Init => OnceInv
    BY DEF Init, OnceInv, EachRungOnce, Live
<1>2. Spec => []OnceInv
    BY <1>1, OnceSteps, Invariance, PTL DEF Spec
<1>3. OnceInv => EachRungOnce
    BY DEF OnceInv
<1>. QED BY <1>2, <1>3, PTL
=============================================================================
