---------------------------- MODULE FrontierProofs ----------------------------
(* Lemmas about the frontier of module Frontier: what its folds over URLs,   *)
(* its filter and its queue compute, for sequences of every length.          *)
EXTENDS Frontier, SequenceTheorems, FiniteSetTheorems, WellFoundedInduction, TLAPS

-----------------------------------------------------------------------------
(* Induction on numbers, with a set for the predicate.                     *)

(* A set of numbers that is not empty has a least one.                      *)
LEMMA Least ==
    ASSUME NEW T, T \subseteq Nat, T # {}
    PROVE  \E x \in T : \A y \in T : x <= y
<1>1. PICK R : R = OpToRel(<, Nat) /\ R = {ss \in Nat \X Nat : ss[1] < ss[2]}
    BY DEF OpToRel
<1>2. IsWellFoundedOn(R, Nat)
    BY <1>1, NatLessThanWellFounded
<1>3. PICK x \in T : \A y \in T : ~(<<y, x>> \in R)
    BY <1>2, WFMin
<1>4. \A y \in T : ~(y < x)
    BY <1>1, <1>3
<1>. QED BY <1>4

(* What holds of 0, and of k + 1 when it holds of k, holds up to n.         *)
LEMMA Induction ==
    ASSUME NEW n \in Nat, NEW S, 0 \in S, \A k \in 0 .. n - 1 : k \in S => k + 1 \in S
    PROVE  0 .. n \subseteq S
<1>. SUFFICES ASSUME (0 .. n) \ S # {} PROVE FALSE
    OBVIOUS
<1>1. PICK x \in (0 .. n) \ S : \A y \in (0 .. n) \ S : x <= y
  <2>1. (0 .. n) \ S \subseteq Nat
      OBVIOUS
  <2>. QED BY <2>1, Least
<1>2. x - 1 \in 0 .. n - 1 /\ x - 1 \in S
    BY <1>1
<1>. QED BY <1>1, <1>2

(* Max and Min of a set of positions are its ends.                          *)
LEMMA MaxIs ==
    ASSUME NEW n \in Nat, NEW T, T \subseteq 1 .. n, T # {}
    PROVE  Max(T) \in T /\ \A y \in T : y <= Max(T)
<1>. DEFINE D == {k \in Nat : \A y \in T : y <= k}
<1>1. D \subseteq Nat /\ n \in D
    OBVIOUS
<1>2. PICK d \in D : \A k \in D : d <= k
    BY <1>1, Least
<1>3. d \in T
  <2>. SUFFICES ASSUME d \notin T PROVE FALSE
      OBVIOUS
  <2>1. \A y \in T : y \in Nat /\ y <= d /\ y # d /\ y # 0
      BY <1>2
  <2>2. PICK y \in T : y \in Nat /\ y <= d /\ y # d /\ y # 0
      BY <2>1
  <2>3. d - 1 \in D
      BY <2>1, <2>2
  <2>. QED BY <2>3, <1>2
<1>4. \E x \in T : \A y \in T : x >= y
    BY <1>2, <1>3
<1>5. Max(T) \in T /\ \A y \in T : Max(T) >= y
    BY <1>4, Zenon DEF Max
<1>. QED BY <1>5

\* The minimum of a set of numbers that has one.
LEMMA MinIs ==
    ASSUME NEW T, T \subseteq Nat, T # {}
    PROVE  Min(T) \in T /\ \A y \in T : Min(T) <= y
<1>1. \E x \in T : \A y \in T : x =< y
    BY Least
<1>. QED BY <1>1, Zenon DEF Min

\* The maximum of two numbers.
LEMMA MaxOfTwo ==
    ASSUME NEW a \in Nat, NEW b \in Nat
    PROVE  Max({a, b}) \in {a, b} /\ Max({a, b}) >= a /\ Max({a, b}) >= b
<1>1. \E x \in {a, b} : \A y \in {a, b} : x >= y
    OBVIOUS
<1>2. Max({a, b}) \in {a, b} /\ \A y \in {a, b} : Max({a, b}) >= y
    BY <1>1, Zenon DEF Max
<1>. QED BY <1>2

(* A function on the first n positions is a sequence.                       *)
LEMMA RowsAreSeq ==
    ASSUME NEW R, NEW n \in Nat, NEW rows \in [1 .. n -> R]
    PROVE  rows \in Seq(R) /\ Len(rows) = n
<1>1. rows \in Seq(R)
    BY SeqDef
<1>2. Len(rows) \in Nat /\ 1 .. Len(rows) = 1 .. n
    BY <1>1, LenProperties
<1>3. Len(rows) = n
  <2>1. \A k \in Nat : k \in 1 .. n <=> k \in 1 .. Len(rows)
      BY <1>2
  <2>2. n = 0 \/ n \in 1 .. n
      OBVIOUS
  <2>3. Len(rows) = 0 \/ Len(rows) \in 1 .. Len(rows)
      BY <1>2
  <2>4. n <= Len(rows)
      BY <1>2, <2>1, <2>2
  <2>5. Len(rows) <= n
      BY <1>2, <2>1, <2>3
  <2>. QED BY <1>2, <2>4, <2>5
<1>. QED BY <1>1, <1>3

(* The first k positions, taken from the end.                               *)
LEMMA MaxOfFirst ==
    ASSUME NEW k \in Nat \ {0}
    PROVE  1 .. k # {} /\ Max(1 .. k) = k /\ (1 .. k) \ {Max(1 .. k)} = 1 .. (k - 1)
<1>1. k \in 1 .. k
    OBVIOUS
<1>2. Max(1 .. k) \in 1 .. k /\ \A y \in 1 .. k : y <= Max(1 .. k)
    BY <1>1, MaxIs
<1>3. Max(1 .. k) = k
    BY <1>1, <1>2
<1>. QED BY <1>1, <1>3

-----------------------------------------------------------------------------
(* Folds.                                                                  *)

(* g gives, for each set of positions, what the steps at them come to: the   *)
(* form of a fold over a sequence.  F holds the values it passes through.    *)
FoldsTo(g, n, F, base, step) ==
    /\ g[{}] = base
    /\ \A s \in SUBSET (1 .. n) :
          s # {} /\ g[s \ {Max(s)}] \in F => g[s] = step[Max(s)][g[s \ {Max(s)}]]

(* p is the run of the steps from the base.                                 *)
Runs(p, n, base, step) == p[0] = base /\ \A k \in 1 .. n : p[k] = step[k][p[k - 1]]

(* There is a run of them in F, and it ends with what g gives for them all.  *)
HasRun(g, n, F, base, step) ==
    \E p \in [0 .. n -> F] : Runs(p, n, base, step) /\ p[n] = g[1 .. n]

(* kept holds the rows at the positions good, all of them, in their order.   *)
Picks(at, kept, rows, good) ==
    /\ at \in [DOMAIN kept -> good]
    /\ \A i \in DOMAIN kept : kept[i] = rows[at[i]]
    /\ \A i, j \in DOMAIN kept : i < j => at[i] < at[j]
    /\ \A k \in good : \E i \in DOMAIN kept : at[i] = k

(* A fold's steps, over the last element of the set left each time, have a  *)
(* function that follows them, and it stays in F when every step does.      *)
LEMMA FoldExists ==
    ASSUME NEW n \in Nat, NEW F, NEW base \in F, NEW step \in [1 .. n -> [F -> F]]
    PROVE  \E g \in [SUBSET (1 .. n) -> F] : FoldsTo(g, n, F, base, step)
<1>. DEFINE Solves(g, k) ==
              /\ g \in [SUBSET (1 .. k) -> F]
              /\ g[{}] = base
              /\ \A s \in SUBSET (1 .. k) : s # {} => g[s] = step[Max(s)][g[s \ {Max(s)}]]
            S == {k \in 0 .. n : \E g : Solves(g, k)}
<1>1. 0 \in S
  <2>1. 1 .. 0 = {} /\ SUBSET (1 .. 0) = {{}}
      OBVIOUS
  <2>. DEFINE g == [s \in SUBSET (1 .. 0) |-> base]
  <2>2. g \in [SUBSET (1 .. 0) -> F] /\ g[{}] = base
      BY <2>1
  <2>3. \A s \in SUBSET (1 .. 0) : s = {}
      BY <2>1
  <2>4. Solves(g, 0)
    <3>. HIDE DEF g
    <3>. QED BY <2>2, <2>3
  <2>5. 0 \in 0 .. n
      OBVIOUS
  <2>. HIDE DEF g, Solves
  <2>. QED BY <2>4, <2>5
<1>2. ASSUME NEW k \in 0 .. n - 1, k \in S PROVE k + 1 \in S
  <2>1. PICK g : Solves(g, k)
      BY <1>2
  <2>. DEFINE m == k + 1
              h == [s \in SUBSET (1 .. m) |-> IF m \in s THEN step[m][g[s \ {m}]] ELSE g[s]]
  <2>2. m \in 1 .. n /\ 1 .. k \subseteq 1 .. m /\ m \notin 1 .. k /\ (1 .. m) \ {m} = 1 .. k
      OBVIOUS
  <2>3. step[m] \in [F -> F]
      BY <2>2
  <2>4. ASSUME NEW s \in SUBSET (1 .. m) PROVE h[s] \in F
    <3>1. CASE m \in s
      <4>1. s \ {m} \in SUBSET (1 .. k)
          BY <2>2
      <4>2. g[s \ {m}] \in F
          BY <4>1, <2>1
      <4>. QED BY <3>1, <4>2, <2>3
    <3>2. CASE m \notin s
      <4>1. s \in SUBSET (1 .. k)
          BY <2>2, <3>2
      <4>. QED BY <3>2, <4>1, <2>1
    <3>. QED BY <3>1, <3>2
  <2>5. h \in [SUBSET (1 .. m) -> F]
      BY <2>4
  <2>6. h[{}] = base
      BY <2>1
  <2>7. ASSUME NEW s \in SUBSET (1 .. m), s # {}
        PROVE  h[s] = step[Max(s)][h[s \ {Max(s)}]]
    <3>1. Max(s) \in s /\ \A y \in s : y <= Max(s)
        BY <2>7, <2>2, MaxIs, k + 1 \in Nat
    <3>2. CASE m \in s
      <4>1. Max(s) = m
        <5>1. m <= Max(s) /\ Max(s) \in 1 .. m
            BY <3>1, <3>2
        <5>. QED BY <5>1
      <4>2. m \notin s \ {m} /\ s \ {m} \in SUBSET (1 .. m)
          OBVIOUS
      <4>3. h[s \ {m}] = g[s \ {m}]
          BY <4>2
      <4>. QED BY <3>2, <4>1, <4>3
    <3>3. CASE m \notin s
      <4>1. s \in SUBSET (1 .. k) /\ s \ {Max(s)} \in SUBSET (1 .. m) /\ m \notin s \ {Max(s)}
          BY <2>2, <3>3
      <4>2. h[s] = g[s] /\ h[s \ {Max(s)}] = g[s \ {Max(s)}]
          BY <3>3, <4>1
      <4>3. g[s] = step[Max(s)][g[s \ {Max(s)}]]
          BY <2>1, <2>7, <4>1
      <4>. QED BY <4>2, <4>3
    <3>. QED BY <3>2, <3>3
  <2>8. Solves(h, m)
    <3>. HIDE DEF h, m
    <3>. QED BY <2>5, <2>6, <2>7
  <2>9. m \in 0 .. n
      OBVIOUS
  <2>. HIDE DEF h
  <2>. QED BY <2>8, <2>9
<1>3. n \in S
  <2>. HIDE DEF S
  <2>1. 0 .. n \subseteq S
      BY <1>1, <1>2, Induction
  <2>. QED BY <2>1
<1>4. PICK g : Solves(g, n)
    BY <1>3
<1>. QED BY <1>4 DEF FoldsTo

(* Such a function passes, over the first k positions, from one step to the  *)
(* next: a fold is a run of its steps from the base.                         *)
LEMMA FoldRun ==
    ASSUME NEW n \in Nat, NEW F, NEW base \in F, NEW step \in [1 .. n -> [F -> F]],
           NEW it, FoldsTo(it, n, F, base, step)
    PROVE  HasRun(it, n, F, base, step)
<1>. DEFINE p == [k \in 0 .. n |-> it[1 .. k]]
            S == {k \in 0 .. n : it[1 .. k] \in F}
<1>1. 0 \in S /\ p[0] = base
  <2>1. 1 .. 0 = {}
      OBVIOUS
  <2>. QED BY <2>1 DEF FoldsTo
<1>2. ASSUME NEW k \in 0 .. n - 1, k \in S
      PROVE  it[1 .. (k + 1)] = step[k + 1][it[1 .. k]] /\ k + 1 \in S
  <2>1. k + 1 \in 1 .. n /\ k + 1 \in 0 .. n /\ k + 1 \in Nat \ {0} /\ (k + 1) - 1 = k
      OBVIOUS
  <2>2. 1 .. (k + 1) # {} /\ Max(1 .. (k + 1)) = k + 1
        /\ (1 .. (k + 1)) \ {Max(1 .. (k + 1))} = 1 .. k
      BY <2>1, MaxOfFirst
  <2>3. 1 .. (k + 1) \in SUBSET (1 .. n)
      OBVIOUS
  <2>4. it[1 .. (k + 1)] = step[k + 1][it[1 .. k]]
      BY <1>2, <2>2, <2>3 DEF FoldsTo
  <2>5. step[k + 1] \in [F -> F] /\ it[1 .. k] \in F
      BY <1>2, <2>1
  <2>. QED BY <2>1, <2>4, <2>5
<1>3. 0 .. n \subseteq S
  <2>. HIDE DEF S
  <2>. QED BY <1>1, <1>2, Induction
<1>4. p \in [0 .. n -> F] /\ p[n] = it[1 .. n]
    BY <1>3
<1>5. ASSUME NEW k \in 1 .. n PROVE p[k] = step[k][p[k - 1]]
  <2>1. k - 1 \in 0 .. n - 1 /\ k - 1 \in 0 .. n /\ (k - 1) + 1 = k /\ k \in 0 .. n
      OBVIOUS
  <2>2. it[1 .. ((k - 1) + 1)] = step[(k - 1) + 1][it[1 .. (k - 1)]]
      BY <1>2, <1>3, <2>1
  <2>. QED BY <2>1, <2>2
<1>. HIDE DEF p
<1>. QED BY <1>1, <1>4, <1>5 DEF Runs, HasRun

(* What can be queued when only the rows at the positions good are kept: a   *)
(* shorter sequence of the same rows, in their order, with none left out.    *)
LEMMA FilterRun ==
    ASSUME NEW R, NEW rows \in Seq(R), NEW good, good \subseteq 1 .. Len(rows),
           NEW p \in [0 .. Len(rows) -> Seq(R)], p[0] = << >>,
           \A k \in 1 .. Len(rows) :
              p[k] = IF k \in good THEN Append(p[k - 1], rows[k]) ELSE p[k - 1]
    PROVE  \E at : Picks(at, p[Len(rows)], rows, good)
<1>. DEFINE n == Len(rows)
            Follows(k, at) ==
              /\ at \in [1 .. Len(p[k]) -> good]
              /\ \A i \in 1 .. Len(p[k]) : p[k][i] = rows[at[i]] /\ at[i] <= k
              /\ \A i, j \in 1 .. Len(p[k]) : i < j => at[i] < at[j]
              /\ \A m \in good : m <= k => \E i \in 1 .. Len(p[k]) : at[i] = m
            S == {k \in 0 .. n : \E at : Follows(k, at)}
<1>1. n \in Nat /\ 0 \in 0 .. n /\ n \in 0 .. n
    BY LenProperties
<1>2. 0 \in S
  <2>1. Len(p[0]) = 0
      BY EmptySeq
  <2>. DEFINE at == [i \in 1 .. 0 |-> 1]
  <2>2. at \in [1 .. 0 -> good] /\ 1 .. 0 = {} /\ \A m \in good : ~(m <= 0)
      OBVIOUS
  <2>3. Follows(0, at)
    <3>. HIDE DEF at
    <3>. QED BY <2>1, <2>2
  <2>. HIDE DEF at, Follows
  <2>. QED BY <1>1, <2>3
<1>3. ASSUME NEW k \in 0 .. n - 1, k \in S PROVE k + 1 \in S
  <2>1. PICK at : Follows(k, at)
      BY <1>3
  <2>2. k + 1 \in 1 .. n /\ (k + 1) - 1 = k /\ k \in 0 .. n /\ k + 1 \in 0 .. n
      BY <1>1
  <2>3. p[k] \in Seq(R) /\ rows[k + 1] \in R
      BY <2>2, ElementOfSeq
  <2>. DEFINE l == Len(p[k])
  <2>4. l \in Nat
      BY <2>3, LenProperties
  <2>0. \A i \in 1 .. l : at[i] \in Nat /\ at[i] <= k /\ at[i] <= k + 1 /\ at[i] < k + 1
    <3>. TAKE i \in 1 .. l
    <3>1. at[i] \in good /\ at[i] <= k
        BY <2>1
    <3>2. at[i] \in 1 .. n
        BY <3>1
    <3>3. at[i] \in Nat /\ k \in Int
        BY <3>2, <1>1
    <3>. QED BY <3>1, <3>3
  <2>5. CASE k + 1 \in good
    <3>1. p[k + 1] = Append(p[k], rows[k + 1])
        BY <2>2, <2>5
    <3>2. /\ Len(p[k + 1]) = l + 1 /\ p[k + 1][l + 1] = rows[k + 1]
          /\ \A i \in 1 .. l : p[k + 1][i] = p[k][i]
        BY <3>1, <2>3, AppendProperties
    <3>. DEFINE to == [i \in 1 .. l + 1 |-> IF i = l + 1 THEN k + 1 ELSE at[i]]
    <3>3. /\ to[l + 1] = k + 1
          /\ \A i \in 1 .. l : to[i] = at[i]
          /\ \A i \in 1 .. l + 1 : i \in 1 .. l \/ i = l + 1
        BY <2>4
    <3>4. to \in [1 .. l + 1 -> good]
        BY <2>1, <2>5, <2>4
    <3>. HIDE DEF to
    <3>5. \A i \in 1 .. l + 1 : p[k + 1][i] = rows[to[i]] /\ to[i] <= k + 1
      <4>2. \A i \in 1 .. l : p[k + 1][i] = rows[to[i]] /\ to[i] <= k + 1
          BY <2>0, <2>1, <3>2, <3>3, <2>2
      <4>. QED BY <4>2, <3>2, <3>3, <2>2
    <3>6. \A i, j \in 1 .. l + 1 : i < j => to[i] < to[j]
      <4>. TAKE i, j \in 1 .. l + 1
      <4>. HAVE i < j
      <4>2. i \in 1 .. l
          BY <2>4
      <4>3. CASE j = l + 1
          BY <2>0, <4>2, <4>3, <3>3
      <4>4. CASE j \in 1 .. l
          BY <2>1, <4>2, <4>4, <3>3
      <4>. QED BY <4>3, <4>4, <3>3
    <3>7. \A m \in good : m <= k + 1 => \E i \in 1 .. l + 1 : to[i] = m
      <4>. TAKE m \in good
      <4>. HAVE m <= k + 1
      <4>1. CASE m = k + 1
          BY <4>1, <3>3, <2>4
      <4>2. CASE m # k + 1
        <5>1. m <= k
            BY <4>2, <2>2
        <5>2. PICK i \in 1 .. l : at[i] = m
            BY <5>1, <2>1
        <5>. QED BY <5>2, <3>3, <2>4
      <4>. QED BY <4>1, <4>2
    <3>8. Follows(k + 1, to)
        BY <3>2, <3>4, <3>5, <3>6, <3>7
    <3>. QED BY <3>8, <2>2
  <2>6. CASE k + 1 \notin good
    <3>1. p[k + 1] = p[k]
        BY <2>2, <2>6
    <3>2. \A m \in good : m <= k + 1 => m <= k
        BY <2>6, <2>2
    <3>4. Follows(k + 1, at)
        BY <2>0, <2>1, <3>1, <3>2
    <3>. QED BY <3>4, <2>2
  <2>. QED BY <2>5, <2>6
<1>4. n \in S
  <2>. HIDE DEF S
  <2>1. 0 .. n \subseteq S
      BY <1>1, <1>2, <1>3, Induction
  <2>. QED BY <1>1, <2>1
<1>5. PICK at : Follows(n, at)
    BY <1>4
<1>6. DOMAIN p[n] = 1 .. Len(p[n])
    BY <1>1, LenProperties
<1>7. \A m \in good : m <= n
    BY <1>1
<1>8. Picks(at, p[n], rows, good)
    BY <1>5, <1>6, <1>7 DEF Picks
<1>. QED BY <1>8

(* What Kept keeps: the rows in some, in their order.                        *)
LEMMA KeptIs ==
    ASSUME NEW R, NEW rows \in Seq(R), NEW some, NEW good,
           good = {k \in 1 .. Len(rows) : rows[k] \in some},
           NEW kept, kept = Kept(rows, some)
    PROVE  /\ kept \in Seq(R)
           /\ \E at : Picks(at, kept, rows, good)
<1>. DEFINE n == Len(rows)
            F == Seq(R)
            step == [k \in 1 .. n |-> [q \in F |-> IF k \in good THEN Append(q, rows[k]) ELSE q]]
            it == CHOOSE g : g = [s \in SUBSET (DOMAIN rows) |->
                                    IF s = {} THEN << >>
                                    ELSE IF rows[Max(s)] \in some
                                         THEN Append(g[s \ {Max(s)}], rows[Max(s)])
                                         ELSE g[s \ {Max(s)}]]
<1>1. n \in Nat /\ DOMAIN rows = 1 .. n /\ \A k \in 1 .. n : rows[k] \in R
    BY LenProperties, ElementOfSeq
<1>2. << >> \in F
    BY EmptySeq
<1>3. step \in [1 .. n -> [F -> F]]
    BY <1>1, AppendProperties
<1>4. kept = it[1 .. n]
    BY <1>1 DEF Kept, FoldLeft, MapThenFoldSet
<1>5. ASSUME NEW k \in 1 .. n, NEW q \in F
      PROVE  step[k][q] = IF rows[k] \in some THEN Append(q, rows[k]) ELSE q
    OBVIOUS
<1>6. \E g : g = [s \in SUBSET (DOMAIN rows) |->
                    IF s = {} THEN << >>
                    ELSE IF rows[Max(s)] \in some
                         THEN Append(g[s \ {Max(s)}], rows[Max(s)])
                         ELSE g[s \ {Max(s)}]]
  <2>. HIDE DEF step, F, n
  <2>1. PICK g \in [SUBSET (1 .. n) -> F] : FoldsTo(g, n, F, << >>, step)
      BY <1>1, <1>2, <1>3, FoldExists
  <2>2. ASSUME NEW s \in SUBSET (1 .. n), s # {}
        PROVE  Max(s) \in 1 .. n /\ g[s \ {Max(s)}] \in F
      BY <1>1, <2>2, MaxIs
  <2>3. ASSUME NEW s \in SUBSET (1 .. n)
        PROVE  g[s] = IF s = {} THEN << >>
                      ELSE IF rows[Max(s)] \in some
                           THEN Append(g[s \ {Max(s)}], rows[Max(s)])
                           ELSE g[s \ {Max(s)}]
      BY <1>5, <2>1, <2>2 DEF FoldsTo
  <2>. QED BY <1>1, <2>1, <2>3
<1>7. it = [s \in SUBSET (DOMAIN rows) |->
              IF s = {} THEN << >>
              ELSE IF rows[Max(s)] \in some
                   THEN Append(it[s \ {Max(s)}], rows[Max(s)])
                   ELSE it[s \ {Max(s)}]]
    BY <1>6
<1>. HIDE DEF it, F, step
<1>8. FoldsTo(it, n, F, << >>, step)
  <2>1. ASSUME NEW s \in SUBSET (1 .. n), s # {}, it[s \ {Max(s)}] \in F
        PROVE  it[s] = step[Max(s)][it[s \ {Max(s)}]]
    <3>1. Max(s) \in 1 .. n
        BY <1>1, <2>1, MaxIs
    <3>2. it[s] = IF rows[Max(s)] \in some
                  THEN Append(it[s \ {Max(s)}], rows[Max(s)])
                  ELSE it[s \ {Max(s)}]
        BY <1>1, <1>7, <2>1
    <3>. QED BY <1>5, <2>1, <3>1, <3>2
  <2>2. it[{}] = << >>
      BY <1>7
  <2>. QED BY <2>1, <2>2 DEF FoldsTo
<1>10. PICK p \in [0 .. n -> F] : Runs(p, n, << >>, step) /\ p[n] = it[1 .. n]
  <2>1. PICK m, G, base, moves, all :
              m = n /\ G = F /\ base = << >> /\ moves = step /\ all = it
      OBVIOUS
  <2>2. m \in Nat /\ base \in G /\ moves \in [1 .. m -> [G -> G]] /\ FoldsTo(all, m, G, base, moves)
      BY <1>1, <1>2, <1>3, <1>8, <2>1
  <2>3. HasRun(all, m, G, base, moves)
      BY <2>2, FoldRun
  <2>. QED BY <2>1, <2>3 DEF HasRun
<1>11. \A k \in 1 .. n : p[k] = IF k \in good THEN Append(p[k - 1], rows[k]) ELSE p[k - 1]
  <2>. TAKE k \in 1 .. n
  <2>1. k - 1 \in 0 .. n
      BY <1>1
  <2>2. p[k - 1] \in F
      BY <2>1, <1>10
  <2>. QED BY <1>5, <1>10, <2>2 DEF Runs
<1>12. kept = p[n] /\ kept \in F
    BY <1>1, <1>4, <1>10
<1>13. \E at : Picks(at, p[n], rows, good)
  <2>1. good \subseteq 1 .. n /\ p[0] = << >>
      BY <1>10 DEF Runs
  <2>. QED BY <1>10, <1>11, <2>1, FilterRun DEF F
<1>. QED BY <1>12, <1>13 DEF F

-----------------------------------------------------------------------------
(* Filling the frontier.                                                   *)

QueuedUrls(f) == {f.pending[i].url : i \in DOMAIN f.pending}
QueuedKeys(f) == {KeyOf[f.pending[i].url] : i \in DOMAIN f.pending}

(* No page is queued twice, and none whose key is in taken.                 *)
Clean(f, taken) ==
    /\ taken \subseteq f.visited
    /\ QueuedKeys(f) \subseteq f.visited \ taken
    /\ \A i, j \in DOMAIN f.pending :
          KeyOf[f.pending[i].url] = KeyOf[f.pending[j].url] => i = j

(* g is f with some of the URLs new queued or remembered, and no more.       *)
Extends(f, g, new) ==
    /\ g.robotsKnown = f.robotsKnown /\ g.delay = f.delay /\ g.lastStart = f.lastStart
    /\ f.visited \subseteq g.visited
    /\ QueuedKeys(f) \subseteq QueuedKeys(g)
    /\ QueuedUrls(g) \subseteq QueuedUrls(f) \cup new
    /\ \A taken \in SUBSET Keys : Clean(f, taken) => Clean(g, taken)

\* Two extensions of a frontier are one.
LEMMA ExtendsSteps ==
    ASSUME NEW f, NEW g, NEW h, NEW new, NEW more, Extends(f, g, new), Extends(g, h, more)
    PROVE  Extends(f, h, new \cup more)
BY Zenon DEF Extends

\* A frontier extends itself.
LEMMA ExtendsNothing ==
    ASSUME NEW f, NEW new
    PROVE  Extends(f, f, new)
BY DEF Extends

\* The frontier of a new job is empty.
LEMMA EmptyIsClean ==
    /\ EmptyFrontier \in Frontiers
    /\ Clean(EmptyFrontier, {})
    /\ QueuedUrls(EmptyFrontier) = {} /\ QueuedKeys(EmptyFrontier) = {}
<1>1. << >> \in Seq(Item) /\ DOMAIN << >> = {}
    BY EmptySeq
<1>2. EmptyFrontier \in Frontiers
    BY <1>1 DEF EmptyFrontier, Frontiers
<1>3. EmptyFrontier.pending = << >> /\ EmptyFrontier.visited = {}
    BY DEF EmptyFrontier
<1>. QED BY <1>1, <1>2, <1>3 DEF Clean, QueuedUrls, QueuedKeys

(* The queue's keys and URLs, read from its items.                          *)
LEMMA Queued ==
    ASSUME NEW f \in Frontiers
    PROVE  /\ f.pending \in Seq(Item) /\ f.visited \subseteq Keys
           /\ Len(f.pending) \in Nat
           /\ DOMAIN f.pending = 1 .. Len(f.pending)
           /\ \A i \in DOMAIN f.pending :
                /\ f.pending[i] \in Item /\ f.pending[i].url \in Urls
                /\ f.pending[i].depth \in 0 .. MaxDepth
           /\ QueuedUrls(f) \subseteq Urls
           /\ \A u \in QueuedUrls(f) : KeyOf[u] \in QueuedKeys(f)
           /\ \A k \in QueuedKeys(f) : \E u \in QueuedUrls(f) : k = KeyOf[u]
<1>1. f.pending \in Seq(Item) /\ f.visited \subseteq Keys
    BY DEF Frontiers
<1>2. Len(f.pending) \in Nat /\ DOMAIN f.pending = 1 .. Len(f.pending)
    BY <1>1, LenProperties
<1>3. \A i \in DOMAIN f.pending : f.pending[i] \in Item
    BY <1>1, <1>2, ElementOfSeq
<1>4. \A i \in DOMAIN f.pending : f.pending[i].url \in Urls /\ f.pending[i].depth \in 0 .. MaxDepth
    BY <1>3 DEF Item
<1>. QED BY <1>1, <1>2, <1>3, <1>4 DEF QueuedUrls, QueuedKeys

(* What one offer does: nothing, or the page goes to the end of the queue.   *)
LEMMA OfferStep ==
    ASSUME NEW f \in Frontiers, NEW u \in Urls, NEW depth \in Nat,
           NEW g, g = Offer(f, u, depth)
    PROVE  /\ g \in Frontiers
           /\ Extends(f, g, {u})
           /\ depth <= MaxDepth => KeyOf[u] \in g.visited
           /\ g.visited \subseteq f.visited \cup QueuedKeys(g)
           /\ u \in QueuedUrls(g) \ QueuedUrls(f) => KeyOf[u] \notin f.visited
           /\ g.visited \subseteq f.visited \cup {KeyOf[u]}
           /\ depth > MaxDepth => g = f
<1>1. CASE depth > MaxDepth \/ KeyOf[u] \in f.visited
  <2>1. g = f
      BY <1>1, Zenon DEF Offer
  <2>2. ~(depth > MaxDepth) <=> depth <= MaxDepth
      BY FrontierAssumption
  <2>. QED BY <1>1, <2>1, <2>2, ExtendsNothing
<1>2. CASE ~(depth > MaxDepth \/ KeyOf[u] \in f.visited)
  <2>. DEFINE item == [url |-> u, depth |-> depth]
              n == Len(f.pending)
  <2>1. g = [f EXCEPT !.visited = @ \cup {KeyOf[u]}, !.pending = Append(@, item)]
      BY <1>2, Zenon DEF Offer
  <2>2. item \in Item /\ KeyOf[u] \in Keys
      BY <1>2, FrontierAssumption DEF Item, Keys
  <2>3. /\ g.visited = f.visited \cup {KeyOf[u]} /\ g.pending = Append(f.pending, item)
        /\ g.robotsKnown = f.robotsKnown /\ g.delay = f.delay /\ g.lastStart = f.lastStart
      BY <2>1 DEF Frontiers
  <2>4. n \in Nat /\ f.pending \in Seq(Item) /\ DOMAIN f.pending = 1 .. n /\ f.visited \subseteq Keys
      BY Queued
  <2>5. /\ g.pending \in Seq(Item) /\ DOMAIN g.pending = 1 .. n + 1
        /\ g.pending[n + 1] = item
        /\ \A i \in 1 .. n : g.pending[i] = f.pending[i]
    <3>1. g.pending \in Seq(Item) /\ Len(g.pending) = n + 1
          /\ g.pending[n + 1] = item /\ \A i \in 1 .. n : g.pending[i] = f.pending[i]
        BY <2>2, <2>3, <2>4, AppendProperties
    <3>. QED BY <3>1, LenProperties
  <2>6. g \in Frontiers
      BY <2>1, <2>2, <2>3, <2>4, <2>5 DEF Frontiers
  <2>7. \A i \in 1 .. n + 1 : i \in 1 .. n \/ i = n + 1
      BY <2>4
  <2>8. n + 1 \in 1 .. n + 1 /\ 1 .. n \subseteq 1 .. n + 1 /\ item.url = u
      BY <2>4
  <2>. HIDE DEF item, n
  <2>9. QueuedUrls(g) = QueuedUrls(f) \cup {u}
      BY <2>4, <2>5, <2>7, <2>8 DEF QueuedUrls
  <2>10. QueuedKeys(g) = QueuedKeys(f) \cup {KeyOf[u]}
      BY <2>4, <2>5, <2>7, <2>8 DEF QueuedKeys
  <2>11. ASSUME NEW taken \in SUBSET Keys, Clean(f, taken) PROVE Clean(g, taken)
    <3>1. KeyOf[u] \notin taken /\ KeyOf[u] \notin QueuedKeys(f)
        BY <1>2, <2>11 DEF Clean
    <3>2. \A i \in 1 .. n : KeyOf[f.pending[i].url] # KeyOf[u]
        BY <3>1, <2>4 DEF QueuedKeys
    <3>3. \A i, j \in 1 .. n + 1 :
              KeyOf[g.pending[i].url] = KeyOf[g.pending[j].url] => i = j
      <4>1. \A i, j \in 1 .. n :
                KeyOf[f.pending[i].url] = KeyOf[f.pending[j].url] => i = j
          BY <2>4, <2>11 DEF Clean
      <4>. TAKE i, j \in 1 .. n + 1
      <4>2. CASE i \in 1 .. n /\ j \in 1 .. n
          BY <4>1, <4>2, <2>5
      <4>3. CASE i = n + 1 /\ j \in 1 .. n
          BY <4>3, <3>2, <2>5, <2>8
      <4>4. CASE i \in 1 .. n /\ j = n + 1
          BY <4>4, <3>2, <2>5, <2>8
      <4>. QED BY <4>2, <4>3, <4>4, <2>7
    <3>. QED BY <2>3, <2>5, <2>10, <2>11, <3>1, <3>3 DEF Clean
  <2>12. Extends(f, g, {u})
      BY <2>3, <2>9, <2>10, <2>11 DEF Extends
  <2>. QED BY <1>2, <2>3, <2>6, <2>9, <2>10, <2>12
<1>. QED BY <1>1, <1>2

\* markVisited adds a key to those seen and touches nothing else.
LEMMA MarkVisitedStep ==
    ASSUME NEW f \in Frontiers, NEW u \in Urls, NEW g, g = MarkVisited(f, u)
    PROVE  /\ g \in Frontiers
           /\ g.pending = f.pending /\ g.visited = f.visited \cup {KeyOf[u]}
           /\ g.robotsKnown = f.robotsKnown /\ g.delay = f.delay /\ g.lastStart = f.lastStart
           /\ Extends(f, g, {u})
<1>1. KeyOf[u] \in Keys
    BY DEF Keys
<1>2. g = [f EXCEPT !.visited = @ \cup {KeyOf[u]}]
    BY DEF MarkVisited
<1>3. g \in Frontiers
    BY <1>1, <1>2 DEF Frontiers
<1>4. /\ g.pending = f.pending /\ g.visited = f.visited \cup {KeyOf[u]}
      /\ g.robotsKnown = f.robotsKnown /\ g.delay = f.delay /\ g.lastStart = f.lastStart
    BY <1>2 DEF Frontiers
<1>5. Extends(f, g, {u})
    BY <1>4 DEF Extends, Clean, QueuedUrls, QueuedKeys
<1>. QED BY <1>3, <1>4, <1>5

(* Hearing of a host's robots.txt leaves the queue alone.                   *)
LEMMA SetCrawlDelayStep ==
    ASSUME NEW f \in Frontiers, NEW h \in Hosts, NEW delay \in Nat,
           NEW g, g = SetCrawlDelay(f, h, delay)
    PROVE  /\ g \in Frontiers
           /\ g.pending = f.pending /\ g.visited = f.visited /\ g.lastStart = f.lastStart
           /\ g.robotsKnown = f.robotsKnown \cup {h}
           /\ g.delay[h] >= delay
           /\ \A k \in Hosts : g.delay[k] >= f.delay[k]
<1>. DEFINE most == Max({f.delay[h], delay})
<1>1. f.delay \in [Hosts -> Nat]
    BY DEF Frontiers
<1>2. most \in Nat /\ most >= f.delay[h] /\ most >= delay
    BY <1>1, MaxOfTwo
<1>3. g = [f EXCEPT !.robotsKnown = @ \cup {h}, !.delay = [@ EXCEPT ![h] = most]]
  <2>1. g = [f EXCEPT !.robotsKnown = f.robotsKnown \cup {h},
                      !.delay = [f.delay EXCEPT ![h] = Max({f.delay[h], delay})]]
      BY DEF SetCrawlDelay, Frontiers
  <2>. QED BY <2>1 DEF Frontiers
<1>. HIDE DEF most
<1>4. /\ g.pending = f.pending /\ g.visited = f.visited /\ g.lastStart = f.lastStart
      /\ g.robotsKnown = f.robotsKnown \cup {h}
      /\ g.delay = [f.delay EXCEPT ![h] = most]
    BY <1>3 DEF Frontiers
<1>5. g \in Frontiers
  <2>1. [f.delay EXCEPT ![h] = most] \in [Hosts -> Nat]
      BY <1>1, <1>2
  <2>2. f.robotsKnown \cup {h} \in SUBSET Hosts
      BY DEF Frontiers
  <2>3. g = [f EXCEPT !.robotsKnown = f.robotsKnown \cup {h},
                      !.delay = [f.delay EXCEPT ![h] = most]]
      BY <1>3 DEF Frontiers
  <2>. QED BY <2>1, <2>2, <2>3 DEF Frontiers
<1>6. g.delay[h] = most /\ \A k \in Hosts : k # h => g.delay[k] = f.delay[k]
    BY <1>1, <1>4
<1>. QED BY <1>1, <1>2, <1>4, <1>5, <1>6

(* OfferAll is the run of its offers.                                       *)
LEMMA OfferAllRun ==
    ASSUME NEW f \in Frontiers, NEW urls \in Seq(Urls), NEW depth \in Nat
    PROVE  \E p \in [0 .. Len(urls) -> Frontiers] :
              /\ p[0] = f /\ p[Len(urls)] = OfferAll(f, urls, depth)
              /\ \A k \in 1 .. Len(urls) : p[k] = Offer(p[k - 1], urls[k], depth)
<1>. DEFINE n == Len(urls)
            step == [k \in 1 .. n |-> [q \in Frontiers |-> Offer(q, urls[k], depth)]]
            it == CHOOSE g : g = [s \in SUBSET (DOMAIN urls) |->
                                    IF s = {} THEN f
                                    ELSE Offer(g[s \ {Max(s)}], urls[Max(s)], depth)]
<1>1. n \in Nat /\ DOMAIN urls = 1 .. n /\ \A k \in 1 .. n : urls[k] \in Urls
    BY LenProperties, ElementOfSeq
<1>2. step \in [1 .. n -> [Frontiers -> Frontiers]]
    BY <1>1, OfferStep
<1>3. OfferAll(f, urls, depth) = it[1 .. n]
    BY <1>1 DEF OfferAll, FoldLeft, MapThenFoldSet
<1>4. \A k \in 1 .. n, q \in Frontiers : step[k][q] = Offer(q, urls[k], depth)
    OBVIOUS
<1>. HIDE DEF step, n
<1>5. \E g : g = [s \in SUBSET (DOMAIN urls) |->
                    IF s = {} THEN f ELSE Offer(g[s \ {Max(s)}], urls[Max(s)], depth)]
  <2>1. PICK g \in [SUBSET (1 .. n) -> Frontiers] : FoldsTo(g, n, Frontiers, f, step)
      BY <1>1, <1>2, FoldExists
  <2>2. ASSUME NEW s \in SUBSET (1 .. n), s # {}
        PROVE  Max(s) \in 1 .. n /\ g[s \ {Max(s)}] \in Frontiers
      BY <1>1, <2>2, MaxIs
  <2>3. ASSUME NEW s \in SUBSET (1 .. n)
        PROVE  g[s] = IF s = {} THEN f ELSE Offer(g[s \ {Max(s)}], urls[Max(s)], depth)
      BY <1>4, <2>1, <2>2 DEF FoldsTo
  <2>. QED BY <1>1, <2>1, <2>3
<1>6. it = [s \in SUBSET (DOMAIN urls) |->
              IF s = {} THEN f ELSE Offer(it[s \ {Max(s)}], urls[Max(s)], depth)]
    BY <1>5
<1>. HIDE DEF it
<1>7. FoldsTo(it, n, Frontiers, f, step)
  <2>1. ASSUME NEW s \in SUBSET (1 .. n), s # {}, it[s \ {Max(s)}] \in Frontiers
        PROVE  it[s] = step[Max(s)][it[s \ {Max(s)}]]
    <3>1. Max(s) \in 1 .. n
        BY <1>1, <2>1, MaxIs
    <3>2. it[s] = Offer(it[s \ {Max(s)}], urls[Max(s)], depth)
        BY <1>1, <1>6, <2>1
    <3>. QED BY <1>4, <2>1, <3>1, <3>2
  <2>2. it[{}] = f
      BY <1>6
  <2>. QED BY <2>1, <2>2 DEF FoldsTo
<1>8. PICK p \in [0 .. n -> Frontiers] : Runs(p, n, f, step) /\ p[n] = it[1 .. n]
  <2>1. PICK F : F = Frontiers
      OBVIOUS
  <2>2. f \in F /\ step \in [1 .. n -> [F -> F]] /\ FoldsTo(it, n, F, f, step) /\ n \in Nat
      BY <1>1, <1>2, <1>7, <2>1
  <2>3. HasRun(it, n, F, f, step)
      BY <2>2, FoldRun
  <2>. QED BY <2>1, <2>3 DEF HasRun
<1>9. \A k \in 1 .. n : p[k] = Offer(p[k - 1], urls[k], depth)
  <2>. TAKE k \in 1 .. n
  <2>1. k - 1 \in 0 .. n
      BY <1>1
  <2>2. p[k - 1] \in Frontiers
      BY <2>1, <1>8
  <2>. QED BY <1>4, <1>8, <2>2 DEF Runs
<1>. QED BY <1>3, <1>8, <1>9 DEF Runs, n

(* A page's links: within the depth each is remembered, and none is          *)
(* remembered that is not queued or was not known before.                    *)
LEMMA OfferAllIs ==
    ASSUME NEW f \in Frontiers, NEW urls \in Seq(Urls), NEW depth \in Nat,
           NEW g, g = OfferAll(f, urls, depth)
    PROVE  /\ g \in Frontiers
           /\ Extends(f, g, ToSet(urls))
           /\ depth <= MaxDepth => \A u \in ToSet(urls) : KeyOf[u] \in g.visited
           /\ g.visited \subseteq f.visited \cup QueuedKeys(g)
           /\ depth > MaxDepth => g = f
<1>. DEFINE n == Len(urls)
<1>1. PICK p \in [0 .. n -> Frontiers] :
              /\ p[0] = f /\ p[n] = g
              /\ \A k \in 1 .. n : p[k] = Offer(p[k - 1], urls[k], depth)
    BY OfferAllRun
<1>2. n \in Nat /\ DOMAIN urls = 1 .. n /\ \A k \in 1 .. n : urls[k] \in Urls
    BY LenProperties, ElementOfSeq
<1>3. \A k \in 1 .. n : urls[k] \in ToSet(urls)
    BY <1>2 DEF ToSet
<1>4. \A u \in ToSet(urls) : \E k \in 1 .. n : u = urls[k]
    BY <1>2 DEF ToSet
<1>. DEFINE Holds(k) ==
              /\ Extends(f, p[k], ToSet(urls))
              /\ depth <= MaxDepth => \A q \in 1 .. k : KeyOf[urls[q]] \in p[k].visited
              /\ p[k].visited \subseteq f.visited \cup QueuedKeys(p[k])
              /\ depth > MaxDepth => p[k] = f
            S == {k \in 0 .. n : Holds(k)}
<1>5. 0 \in S
    BY <1>1, <1>2, ExtendsNothing
<1>6. ASSUME NEW k \in 0 .. n - 1, k \in S PROVE k + 1 \in S
  <2>1. k \in 0 .. n /\ k + 1 \in 1 .. n /\ k + 1 \in 0 .. n /\ (k + 1) - 1 = k
      BY <1>2
  <2>. DEFINE q == p[k]  r == p[k + 1]  u == urls[k + 1]
  <2>2. q \in Frontiers /\ u \in Urls /\ r = Offer(q, u, depth) /\ u \in ToSet(urls)
      BY <1>1, <1>2, <1>3, <2>1
  <2>3. Holds(k)
      BY <1>6
  <2>. HIDE DEF q, r, u
  <2>4. /\ Extends(q, r, {u})
        /\ depth <= MaxDepth => KeyOf[u] \in r.visited
        /\ r.visited \subseteq q.visited \cup QueuedKeys(r)
        /\ depth > MaxDepth => r = q
      BY <2>2, OfferStep
  <2>5. Extends(f, r, ToSet(urls))
    <3>1. Extends(f, q, ToSet(urls))
        BY <2>3 DEF q
    <3>2. Extends(f, r, ToSet(urls) \cup {u}) /\ ToSet(urls) \cup {u} = ToSet(urls)
        BY <2>2, <2>4, <3>1, ExtendsSteps
    <3>. QED BY <3>2
  <2>6. ASSUME depth <= MaxDepth, NEW j \in 1 .. k + 1 PROVE KeyOf[urls[j]] \in r.visited
    <3>1. j \in 1 .. k \/ j = k + 1
        BY <2>1
    <3>2. q.visited \subseteq r.visited
        BY <2>4 DEF Extends
    <3>3. j \in 1 .. k => KeyOf[urls[j]] \in q.visited
        BY <2>3, <2>6 DEF q
    <3>. QED BY <2>4, <2>6, <3>1, <3>2, <3>3 DEF u
  <2>7. r.visited \subseteq f.visited \cup QueuedKeys(r)
    <3>1. q.visited \subseteq f.visited \cup QueuedKeys(q)
        BY <2>3 DEF q
    <3>. QED BY <2>4, <3>1 DEF Extends
  <2>9. depth > MaxDepth => r = f
      BY <2>3, <2>4 DEF q
  <2>8. Holds(k + 1)
      BY <2>5, <2>6, <2>7, <2>9 DEF r
  <2>. QED BY <2>1, <2>8
<1>7. 0 .. n \subseteq S
  <2>. HIDE DEF S
  <2>. QED BY <1>2, <1>5, <1>6, Induction
<1>8. Holds(n) /\ n \in 0 .. n
    BY <1>2, <1>7
<1>9. g \in Frontiers
    BY <1>1, <1>8
<1>. QED BY <1>1, <1>4, <1>8, <1>9

(* One URL of a batch.                                                       *)
Seed(f, u, fetched) == IF u \in fetched THEN MarkVisited(f, u) ELSE Offer(f, u, 0)

\* seed adds its URL to those seen, and queues it only when it is neither seen
\* nor fetched.
LEMMA SeedStep ==
    ASSUME NEW f \in Frontiers, NEW u \in Urls, NEW fetched,
           NEW g, g = Seed(f, u, fetched)
    PROVE  /\ g \in Frontiers
           /\ Extends(f, g, {u})
           /\ KeyOf[u] \in g.visited
           /\ u \in QueuedUrls(g) \ QueuedUrls(f) => u \notin fetched /\ KeyOf[u] \notin f.visited
<1>1. CASE u \in fetched
  <2>1. g = MarkVisited(f, u)
      BY <1>1 DEF Seed
  <2>. QED BY <2>1, MarkVisitedStep DEF QueuedUrls
<1>2. CASE u \notin fetched
  <2>1. g = Offer(f, u, 0) /\ 0 \in Nat /\ 0 <= MaxDepth
      BY <1>2, FrontierAssumption DEF Seed
  <2>. QED BY <1>2, <2>1, OfferStep
<1>. QED BY <1>1, <1>2

(* So is the feeding of a batch's URLs.                                      *)
LEMMA SeedRun ==
    ASSUME NEW f \in Frontiers, NEW urls \in Seq(Urls), NEW fetched
    PROVE  \E p \in [0 .. Len(urls) -> Frontiers] :
              /\ p[0] = f /\ p[Len(urls)] = SeedBatchUrls(f, urls, fetched)
              /\ \A k \in 1 .. Len(urls) : p[k] = Seed(p[k - 1], urls[k], fetched)
<1>0. ASSUME NEW q \in Frontiers, NEW u \in Urls PROVE Seed(q, u, fetched) \in Frontiers
    BY SeedStep, Zenon
<1>. DEFINE n == Len(urls)
            step == [k \in 1 .. n |-> [q \in Frontiers |-> Seed(q, urls[k], fetched)]]
            it == CHOOSE g : g = [s \in SUBSET (DOMAIN urls) |->
                                    IF s = {} THEN f
                                    ELSE Seed(g[s \ {Max(s)}], urls[Max(s)], fetched)]
<1>1. n \in Nat /\ DOMAIN urls = 1 .. n /\ \A k \in 1 .. n : urls[k] \in Urls
    BY LenProperties, ElementOfSeq
<1>2. step \in [1 .. n -> [Frontiers -> Frontiers]]
    BY <1>0, <1>1
<1>3. SeedBatchUrls(f, urls, fetched) = it[1 .. n]
    BY <1>1 DEF Seed, SeedBatchUrls, FoldLeft, MapThenFoldSet
<1>4. \A k \in 1 .. n, q \in Frontiers : step[k][q] = Seed(q, urls[k], fetched)
    OBVIOUS
<1>. HIDE DEF step, n
<1>5. \E g : g = [s \in SUBSET (DOMAIN urls) |->
                    IF s = {} THEN f ELSE Seed(g[s \ {Max(s)}], urls[Max(s)], fetched)]
  <2>1. PICK g \in [SUBSET (1 .. n) -> Frontiers] : FoldsTo(g, n, Frontiers, f, step)
      BY <1>1, <1>2, FoldExists
  <2>2. ASSUME NEW s \in SUBSET (1 .. n), s # {}
        PROVE  Max(s) \in 1 .. n /\ g[s \ {Max(s)}] \in Frontiers
      BY <1>1, <2>2, MaxIs
  <2>3. ASSUME NEW s \in SUBSET (1 .. n)
        PROVE  g[s] = IF s = {} THEN f ELSE Seed(g[s \ {Max(s)}], urls[Max(s)], fetched)
      BY <1>4, <2>1, <2>2 DEF FoldsTo
  <2>. QED BY <1>1, <2>1, <2>3
<1>6. it = [s \in SUBSET (DOMAIN urls) |->
              IF s = {} THEN f ELSE Seed(it[s \ {Max(s)}], urls[Max(s)], fetched)]
    BY <1>5
<1>. HIDE DEF it
<1>7. FoldsTo(it, n, Frontiers, f, step)
  <2>1. ASSUME NEW s \in SUBSET (1 .. n), s # {}, it[s \ {Max(s)}] \in Frontiers
        PROVE  it[s] = step[Max(s)][it[s \ {Max(s)}]]
    <3>1. Max(s) \in 1 .. n
        BY <1>1, <2>1, MaxIs
    <3>2. it[s] = Seed(it[s \ {Max(s)}], urls[Max(s)], fetched)
        BY <1>1, <1>6, <2>1
    <3>. QED BY <1>4, <2>1, <3>1, <3>2
  <2>2. it[{}] = f
      BY <1>6
  <2>. QED BY <2>1, <2>2 DEF FoldsTo
<1>8. PICK p \in [0 .. n -> Frontiers] : Runs(p, n, f, step) /\ p[n] = it[1 .. n]
  <2>1. PICK F : F = Frontiers
      OBVIOUS
  <2>2. f \in F /\ step \in [1 .. n -> [F -> F]] /\ FoldsTo(it, n, F, f, step) /\ n \in Nat
      BY <1>1, <1>2, <1>7, <2>1
  <2>3. HasRun(it, n, F, f, step)
      BY <2>2, FoldRun
  <2>. QED BY <2>1, <2>3 DEF HasRun
<1>9. \A k \in 1 .. n : p[k] = Seed(p[k - 1], urls[k], fetched)
  <2>. TAKE k \in 1 .. n
  <2>1. k - 1 \in 0 .. n
      BY <1>1
  <2>2. p[k - 1] \in Frontiers
      BY <2>1, <1>8
  <2>. QED BY <1>4, <1>8, <2>2 DEF Runs
<1>. QED BY <1>3, <1>8, <1>9 DEF Runs, n

(* The URLs a batch is given: every one is remembered; one that is queued    *)
(* is not fetched yet and is the first of its page.                          *)
LEMMA SeedIs ==
    ASSUME NEW f \in Frontiers, NEW urls \in Seq(Urls), NEW fetched,
           NEW g, g = SeedBatchUrls(f, urls, fetched)
    PROVE  /\ g \in Frontiers
           /\ Extends(f, g, ToSet(urls))
           /\ \A k \in 1 .. Len(urls) : KeyOf[urls[k]] \in g.visited
           /\ \A u \in QueuedUrls(g) \ QueuedUrls(f) :
                /\ u \notin fetched /\ KeyOf[u] \notin f.visited
                /\ \E k \in 1 .. Len(urls) :
                      urls[k] = u /\ \A q \in 1 .. k - 1 : KeyOf[urls[q]] # KeyOf[u]
<1>. DEFINE n == Len(urls)
            First(k, u) ==
              /\ u \notin fetched /\ KeyOf[u] \notin f.visited
              /\ \E j \in 1 .. k :
                    urls[j] = u /\ \A q \in 1 .. j - 1 : KeyOf[urls[q]] # KeyOf[u]
<1>1. PICK p \in [0 .. n -> Frontiers] :
              /\ p[0] = f /\ p[n] = g
              /\ \A k \in 1 .. n : p[k] = Seed(p[k - 1], urls[k], fetched)
    BY SeedRun
<1>2. n \in Nat /\ DOMAIN urls = 1 .. n /\ \A k \in 1 .. n : urls[k] \in Urls
    BY LenProperties, ElementOfSeq
<1>3. \A k \in 1 .. n : urls[k] \in ToSet(urls)
    BY <1>2 DEF ToSet
<1>. DEFINE Holds(k) ==
              /\ Extends(f, p[k], ToSet(urls))
              /\ \A q \in 1 .. k : KeyOf[urls[q]] \in p[k].visited
              /\ \A u \in QueuedUrls(p[k]) \ QueuedUrls(f) : First(k, u)
            S == {k \in 0 .. n : Holds(k)}
<1>5. 0 \in S
    BY <1>1, <1>2, ExtendsNothing
<1>6. ASSUME NEW k \in 0 .. n - 1, k \in S PROVE k + 1 \in S
  <2>1. k \in 0 .. n /\ k + 1 \in 1 .. n /\ k + 1 \in 0 .. n /\ (k + 1) - 1 = k
      BY <1>2
  <2>. DEFINE q == p[k]  r == p[k + 1]  u == urls[k + 1]
  <2>2. q \in Frontiers /\ u \in Urls /\ r = Seed(q, u, fetched) /\ u \in ToSet(urls)
      BY <1>1, <1>2, <1>3, <2>1
  <2>3. Holds(k)
      BY <1>6
  <2>. HIDE DEF q, r, u
  <2>4. /\ Extends(q, r, {u})
        /\ KeyOf[u] \in r.visited
        /\ u \in QueuedUrls(r) \ QueuedUrls(q) => u \notin fetched /\ KeyOf[u] \notin q.visited
      BY <2>2, SeedStep
  <2>5. Extends(f, r, ToSet(urls)) /\ f.visited \subseteq q.visited
    <3>1. Extends(f, q, ToSet(urls))
        BY <2>3 DEF q
    <3>2. Extends(f, r, ToSet(urls) \cup {u}) /\ ToSet(urls) \cup {u} = ToSet(urls)
        BY <2>2, <2>4, <3>1, ExtendsSteps
    <3>. QED BY <3>1, <3>2 DEF Extends
  <2>6. ASSUME NEW j \in 1 .. k + 1 PROVE KeyOf[urls[j]] \in r.visited
    <3>1. j \in 1 .. k \/ j = k + 1
        BY <2>1
    <3>2. q.visited \subseteq r.visited
        BY <2>4 DEF Extends
    <3>3. j \in 1 .. k => KeyOf[urls[j]] \in q.visited
        BY <2>3 DEF q
    <3>. QED BY <2>4, <3>1, <3>2, <3>3 DEF u
  <2>7. ASSUME NEW v \in QueuedUrls(r) \ QueuedUrls(f) PROVE First(k + 1, v)
    <3>1. CASE v \in QueuedUrls(q)
      <4>1. First(k, v) /\ 1 .. k \subseteq 1 .. k + 1
          BY <2>3, <2>7, <3>1 DEF q
      <4>. QED BY <4>1
    <3>2. CASE v \notin QueuedUrls(q)
      <4>1. v = u
          BY <2>4, <2>7, <3>2 DEF Extends
      <4>2. u \notin fetched /\ KeyOf[u] \notin q.visited
          BY <2>4, <2>7, <3>2, <4>1
      <4>3. \A j \in 1 .. (k + 1) - 1 : KeyOf[urls[j]] # KeyOf[u]
          BY <2>1, <2>3, <4>2 DEF q
      <4>4. k + 1 \in 1 .. k + 1 /\ urls[k + 1] = u
          BY <2>1 DEF u
      <4>. QED BY <2>5, <4>1, <4>2, <4>3, <4>4
    <3>. QED BY <3>1, <3>2
  <2>8. Holds(k + 1)
    <3>. HIDE DEF First
    <3>. QED BY <2>5, <2>6, <2>7 DEF r
  <2>. QED BY <2>1, <2>8
<1>7. 0 .. n \subseteq S
  <2>. HIDE DEF S
  <2>. QED BY <1>2, <1>5, <1>6, Induction
<1>8. Holds(n) /\ n \in 0 .. n
    BY <1>2, <1>7
<1>9. g \in Frontiers
    BY <1>1, <1>8
<1>. QED BY <1>1, <1>8, <1>9

-----------------------------------------------------------------------------
(* Taking from it.                                                         *)

(* What is left of a queue when the items at the positions good stay.        *)
LEMMA PickedQueue ==
    ASSUME NEW f \in Frontiers, NEW g \in Frontiers, g.visited = f.visited,
           NEW good, good \subseteq DOMAIN f.pending,
           NEW at, Picks(at, g.pending, f.pending, good)
    PROVE  /\ QueuedUrls(g) \subseteq QueuedUrls(f)
           /\ QueuedKeys(g) = {KeyOf[f.pending[i].url] : i \in good}
           /\ \A taken \in SUBSET Keys : Clean(f, taken) => Clean(g, taken)
           /\ \A taken \in SUBSET Keys, i \in DOMAIN f.pending \ good :
                 Clean(f, taken) => Clean(g, taken \cup {KeyOf[f.pending[i].url]})
<1>1. /\ at \in [DOMAIN g.pending -> good]
      /\ \A i \in DOMAIN g.pending : at[i] \in good /\ g.pending[i] = f.pending[at[i]]
      /\ \A k \in good : \E i \in DOMAIN g.pending : at[i] = k
    BY DEF Picks
<1>2. ASSUME NEW i \in DOMAIN g.pending, NEW j \in DOMAIN g.pending, at[i] = at[j] PROVE i = j
  <2>1. DOMAIN g.pending \subseteq Nat /\ good \subseteq Nat
      BY Queued
  <2>2. at[i] \in Nat /\ ~(at[i] < at[j]) /\ ~(at[j] < at[i])
      BY <1>1, <1>2, <2>1
  <2>3. ~(i < j) /\ ~(j < i)
      BY <2>2 DEF Picks
  <2>. QED BY <2>1, <2>3
<1>3. QueuedUrls(g) \subseteq QueuedUrls(f)
    BY <1>1 DEF QueuedUrls
<1>4. QueuedKeys(g) = {KeyOf[f.pending[i].url] : i \in good}
    BY <1>1 DEF QueuedKeys
<1>5. QueuedKeys(g) \subseteq QueuedKeys(f)
    BY <1>4 DEF QueuedKeys
<1>6. ASSUME NEW taken \in SUBSET Keys, Clean(f, taken)
      PROVE  \A i, j \in DOMAIN g.pending :
                KeyOf[g.pending[i].url] = KeyOf[g.pending[j].url] => i = j
    BY <1>1, <1>2, <1>6 DEF Clean
<1>7. ASSUME NEW taken \in SUBSET Keys, Clean(f, taken) PROVE Clean(g, taken)
    BY <1>5, <1>6, <1>7 DEF Clean
<1>8. ASSUME NEW taken \in SUBSET Keys, NEW i \in DOMAIN f.pending \ good, Clean(f, taken)
      PROVE  Clean(g, taken \cup {KeyOf[f.pending[i].url]})
  <2>. DEFINE key == KeyOf[f.pending[i].url]
  <2>1. key \in QueuedKeys(f)
      BY DEF QueuedKeys
  <2>2. key \notin QueuedKeys(g)
      BY <1>4, <1>8 DEF Clean
  <2>3. key \in f.visited /\ taken \subseteq f.visited /\ QueuedKeys(f) \subseteq f.visited \ taken
      BY <1>8, <2>1 DEF Clean
  <2>4. \A k, j \in DOMAIN g.pending :
            KeyOf[g.pending[k].url] = KeyOf[g.pending[j].url] => k = j
      BY <1>6, <1>8
  <2>. HIDE DEF key
  <2>5. Clean(g, taken \cup {key})
      BY <1>5, <2>2, <2>3, <2>4 DEF Clean
  <2>. QED BY <2>5 DEF key
<1>. QED BY <1>3, <1>4, <1>7, <1>8

(* The front of the queue, filtered, and what comes after position first.   *)
LEMMA PickedAround ==
    ASSUME NEW R, NEW rows \in Seq(R), NEW first \in 1 .. Len(rows) + 1, NEW some,
           NEW kept, kept = Kept(SubSeq(rows, 1, first - 1), some),
           NEW left, left = kept \o SubSeq(rows, first + 1, Len(rows)),
           NEW good,
           good = {k \in 1 .. Len(rows) : (k < first /\ rows[k] \in some) \/ k > first}
    PROVE  left \in Seq(R) /\ \E at : Picks(at, left, rows, good)
<1>. DEFINE n == Len(rows)
            passed == SubSeq(rows, 1, first - 1)
            rest == SubSeq(rows, first + 1, n)
            front == {k \in 1 .. Len(passed) : passed[k] \in some}
<1>1. n \in Nat /\ first \in Nat /\ 1 <= first /\ first <= n + 1
      /\ \A k \in 1 .. n : rows[k] \in R
    BY LenProperties, ElementOfSeq
<1>2. /\ passed \in Seq(R) /\ Len(passed) = first - 1
      /\ \A k \in 1 .. first - 1 : passed[k] = rows[k]
  <2>1. \A k \in 1 .. first - 1 : rows[k] \in R
      BY <1>1
  <2>2. 1 \in Int /\ first - 1 \in Int /\ (first - 1) - 1 + 1 = first - 1
        /\ (IF 1 <= first - 1 THEN (first - 1) - 1 + 1 ELSE 0) = first - 1
      BY <1>1
  <2>3. /\ passed \in Seq(R)
        /\ Len(passed) = IF 1 <= first - 1 THEN (first - 1) - 1 + 1 ELSE 0
        /\ \A k \in 1 .. (first - 1) - 1 + 1 : passed[k] = rows[1 + k - 1]
      BY <2>1, <2>2, SubSeqProperties
  <2>4. \A k \in 1 .. first - 1 : 1 + k - 1 = k
      BY <1>1
  <2>. HIDE DEF passed
  <2>. QED BY <2>2, <2>3, <2>4
<1>3. /\ rest \in Seq(R) /\ Len(rest) = IF first <= n THEN n - first ELSE 0
      /\ \A k \in 1 .. n - first : rest[k] = rows[first + k]
  <2>1. \A k \in first + 1 .. n : rows[k] \in R
      BY <1>1
  <2>2. first + 1 \in Int /\ n \in Int /\ n - (first + 1) + 1 = n - first
      BY <1>1
  <2>3. /\ rest \in Seq(R)
        /\ Len(rest) = IF first + 1 <= n THEN n - (first + 1) + 1 ELSE 0
        /\ \A k \in 1 .. n - (first + 1) + 1 : rest[k] = rows[first + 1 + k - 1]
      BY <2>1, <2>2, SubSeqProperties
  <2>4. \A k \in 1 .. n - first : first + 1 + k - 1 = first + k
      BY <1>1
  <2>5. (IF first + 1 <= n THEN n - (first + 1) + 1 ELSE 0) = IF first <= n THEN n - first ELSE 0
      BY <1>1
  <2>. HIDE DEF rest
  <2>. QED BY <2>2, <2>3, <2>4, <2>5
<1>. HIDE DEF n, passed, rest
<1>4. kept \in Seq(R) /\ \E at : Picks(at, kept, passed, front)
    BY <1>2, KeptIs DEF passed
<1>5. PICK ahead : Picks(ahead, kept, passed, front)
    BY <1>4
<1>. DEFINE l == Len(kept)
            m == Len(rest)
            at == [i \in 1 .. l + m |-> IF i <= l THEN ahead[i] ELSE first + (i - l)]
<1>6. l \in Nat /\ m \in Nat /\ DOMAIN kept = 1 .. l /\ m = (IF first <= n THEN n - first ELSE 0)
    BY <1>3, <1>4, LenProperties
<1>7. /\ left \in Seq(R) /\ Len(left) = l + m
      /\ \A i \in 1 .. l + m : left[i] = IF i <= l THEN kept[i] ELSE rest[i - l]
    BY <1>3, <1>4, ConcatProperties DEF rest, n
<1>8. DOMAIN left = 1 .. l + m
    BY <1>7, LenProperties
<1>. HIDE DEF l, m, front
<1>9. \A i \in 1 .. l : /\ ahead[i] \in 1 .. first - 1 /\ ahead[i] \in good
                        /\ kept[i] = rows[ahead[i]]
  <2>. TAKE i \in 1 .. l
  <2>1. ahead[i] \in front /\ kept[i] = passed[ahead[i]]
      BY <1>5, <1>6 DEF Picks
  <2>2. ahead[i] \in 1 .. first - 1 /\ passed[ahead[i]] = rows[ahead[i]] /\ passed[ahead[i]] \in some
      BY <1>2, <2>1 DEF front
  <2>3. ahead[i] \in 1 .. n /\ ahead[i] < first
      BY <1>1, <2>2
  <2>. QED BY <2>1, <2>2, <2>3 DEF n
<1>10. \A i \in 1 .. l + m : ~(i <= l) =>
          /\ i - l \in 1 .. n - first /\ first + (i - l) \in good
          /\ first + (i - l) > first /\ rest[i - l] = rows[first + (i - l)]
  <2>. TAKE i \in 1 .. l + m
  <2>. HAVE ~(i <= l)
  <2>1. m # 0 /\ m = n - first
      BY <1>1, <1>6
  <2>2. i - l \in 1 .. n - first
      BY <1>1, <1>6, <2>1
  <2>3. first + (i - l) > first /\ first + (i - l) \in 1 .. n
      BY <1>1, <2>2
  <2>4. first + (i - l) \in good
      BY <2>3 DEF n
  <2>5. rest[i - l] = rows[first + (i - l)]
      BY <1>3, <2>2
  <2>. QED BY <2>2, <2>3, <2>4, <2>5
<1>11. /\ at \in [1 .. l + m -> good]
       /\ \A i \in 1 .. l + m : left[i] = rows[at[i]]
  <2>1. ASSUME NEW i \in 1 .. l + m PROVE at[i] \in good /\ left[i] = rows[at[i]]
    <3>1. CASE i <= l
      <4>1. i \in 1 .. l /\ at[i] = ahead[i]
          BY <1>6, <3>1
      <4>. HIDE DEF at
      <4>. QED BY <1>7, <1>9, <3>1, <4>1
    <3>2. CASE ~(i <= l)
      <4>1. at[i] = first + (i - l)
          BY <3>2
      <4>. HIDE DEF at
      <4>. QED BY <1>7, <1>10, <3>2, <4>1
    <3>. QED BY <3>1, <3>2
  <2>. QED BY <2>1
<1>12. ASSUME NEW i \in 1 .. l + m, NEW j \in 1 .. l + m, i < j PROVE at[i] < at[j]
  <2>0. i \in Nat /\ j \in Nat
      BY <1>6
  <2>1. CASE j <= l
    <3>1. i \in 1 .. l /\ j \in 1 .. l
        BY <1>6, <1>12, <2>0, <2>1
    <3>2. ahead[i] < ahead[j]
        BY <1>5, <1>6, <1>12, <3>1 DEF Picks
    <3>. QED BY <1>6, <3>1, <3>2
  <2>2. CASE i <= l /\ ~(j <= l)
    <3>1. i \in 1 .. l
        BY <1>6, <2>0, <2>2
    <3>2. ahead[i] < first /\ ahead[i] \in Int /\ first + (j - l) > first /\ first + (j - l) \in Int
        BY <1>1, <1>6, <1>9, <1>10, <2>0, <2>2, <3>1
    <3>3. at[i] = ahead[i] /\ at[j] = first + (j - l)
        BY <2>2
    <3>. QED BY <1>1, <3>2, <3>3
  <2>3. CASE ~(i <= l)
    <3>1. ~(j <= l) /\ at[i] = first + (i - l) /\ at[j] = first + (j - l)
        BY <1>6, <1>12, <2>0, <2>3
    <3>. QED BY <1>1, <1>6, <1>12, <2>0, <3>1
  <2>. QED BY <2>1, <2>2, <2>3
<1>13. ASSUME NEW k \in good PROVE \E i \in 1 .. l + m : at[i] = k
  <2>0. k \in 1 .. n
      BY DEF n
  <2>1. CASE k < first /\ rows[k] \in some
    <3>1. k \in front
        BY <1>1, <1>2, <2>0, <2>1 DEF front
    <3>2. PICK i \in 1 .. l : ahead[i] = k
        BY <1>5, <1>6, <3>1 DEF Picks
    <3>3. i \in 1 .. l + m /\ i <= l
        BY <1>6
    <3>. QED BY <3>2, <3>3
  <2>2. CASE k > first
    <3>. DEFINE i == l + (k - first)
    <3>1. first <= n /\ m = n - first
        BY <1>1, <1>6, <2>0, <2>2
    <3>2. i \in 1 .. l + m /\ ~(i <= l) /\ first + (i - l) = k
        BY <1>1, <1>6, <2>0, <2>2, <3>1
    <3>. QED BY <3>2
  <2>. QED BY <2>1, <2>2
<1>. HIDE DEF at
<1>14. Picks(at, left, rows, good)
    BY <1>8, <1>11, <1>12, <1>13 DEF Picks
<1>. QED BY <1>7, <1>14

(* What a host is owed is a time.                                            *)
LEMMA ReadyAtIs ==
    ASSUME NEW f \in Frontiers, NEW h \in Hosts
    PROVE  /\ ReadyAt(f, h) \in Nat
           /\ f.lastStart[h] \in Nat =>
                /\ ReadyAt(f, h) >= f.lastStart[h] + PerHostMinDelay
                /\ ReadyAt(f, h) >= f.lastStart[h] + f.delay[h]
<1>1. f.delay[h] \in Nat /\ f.lastStart[h] \in Nat \cup {None}
    BY DEF Frontiers
<1>2. HostDelay(f, h) \in Nat /\ HostDelay(f, h) >= PerHostMinDelay /\ HostDelay(f, h) >= f.delay[h]
  <2>1. PICK a \in Nat, b \in Nat : a = PerHostMinDelay /\ b = f.delay[h]
      BY <1>1, FrontierAssumption
  <2>2. Max({a, b}) \in {a, b} /\ Max({a, b}) >= a /\ Max({a, b}) >= b
      BY MaxOfTwo
  <2>. QED BY <2>1, <2>2 DEF HostDelay
<1>. QED BY <1>1, <1>2, FrontierAssumption DEF ReadyAt

(* What a look at the queue f may have for its result r and leave for g.     *)
Dequeued(f, now, inFlight, admitted, r, g) ==
    /\ g \in Frontiers
    /\ g.visited = f.visited /\ g.robotsKnown = f.robotsKnown /\ g.delay = f.delay
    /\ QueuedUrls(g) \subseteq QueuedUrls(f)
    /\ \A taken \in SUBSET Keys : Clean(f, taken) => Clean(g, taken)
    /\ r.nextReadyAt \in Nat \cup {None}
    /\ \/ /\ r.item = None
          /\ g.lastStart = f.lastStart
          /\ r.refused \/ QueuedKeys(f) \subseteq QueuedKeys(g)
          /\ r.nextReadyAt # None
                \/ \A u \in QueuedUrls(g) : ~HasSlot(f, HostOf[u], inFlight)
       \/ /\ r.item \in Item /\ r.item.url \in admitted \cap QueuedUrls(f)
          /\ HasSlot(f, HostOf[r.item.url], inFlight)
          /\ ReadyAt(f, HostOf[r.item.url]) <= now
          /\ g.lastStart = [f.lastStart EXCEPT ![HostOf[r.item.url]] = now]
          /\ r.refused
                \/ QueuedKeys(f) \subseteq QueuedKeys(g) \cup {KeyOf[r.item.url]}
          /\ \A taken \in SUBSET Keys :
                Clean(f, taken) => Clean(g, taken \cup {KeyOf[r.item.url]})

(* What Dequeue takes, and what it leaves behind.                           *)
LEMMA DequeueIs ==
    ASSUME NEW f \in Frontiers, NEW now \in Nat, NEW inFlight, NEW admitted,
           NEW r, r = Dequeue(f, now, inFlight, admitted), NEW g, g = r.frontier
    PROVE  Dequeued(f, now, inFlight, admitted, r, g)
<1>. DEFINE n == Len(f.pending)
            host(i) == HostOf[f.pending[i].url]
            isAdmitted(item) == item.url \in admitted
            hasSlot(i) == isAdmitted(f.pending[i]) /\ HasSlot(f, host(i), inFlight)
            startable == {i \in 1 .. n : hasSlot(i) /\ ReadyAt(f, host(i)) <= now}
            first == Min(startable \cup {n + 1})
            passed == SubSeq(f.pending, 1, first - 1)
            some == {item \in ToSet(passed) : isAdmitted(item)}
            kept == Kept(passed, some)
            queue == kept \o SubSeq(f.pending, first + 1, n)
            delayed == {ReadyAt(f, host(i)) : i \in {j \in 1 .. n : hasSlot(j)}}
            left == [f EXCEPT !.pending = queue]
            good == {k \in 1 .. n : (k < first /\ f.pending[k] \in some) \/ k > first}
<1>1. /\ r.item = IF startable = {} THEN None ELSE f.pending[first]
      /\ r.refused <=> \E i \in 1 .. first - 1 : ~isAdmitted(f.pending[i])
      /\ r.nextReadyAt = IF startable # {} \/ delayed = {} THEN None ELSE Min(delayed)
      /\ g = IF startable = {} THEN left
             ELSE [left EXCEPT !.lastStart = [@ EXCEPT ![host(first)] = now]]
    BY Zenon DEF Dequeue
<1>2. /\ f.pending \in Seq(Item) /\ n \in Nat /\ DOMAIN f.pending = 1 .. n
      /\ \A i \in 1 .. n : f.pending[i] \in Item /\ f.pending[i].url \in Urls /\ host(i) \in Hosts
    BY Queued, FrontierAssumption
<1>3. /\ first \in 1 .. n + 1 /\ (startable = {} => first = n + 1)
      /\ startable # {} => first \in startable
      /\ \A i \in startable : first <= i
  <2>1. startable \cup {n + 1} \subseteq Nat /\ startable \cup {n + 1} # {}
      BY <1>2
  <2>2. first \in startable \cup {n + 1} /\ \A y \in startable \cup {n + 1} : first <= y
      BY <2>1, MinIs
  <2>3. startable \subseteq 1 .. n
      OBVIOUS
  <2>. HIDE DEF first, startable, n
  <2>4. startable \subseteq 1 .. n + 1 /\ n + 1 \in 1 .. n + 1 /\ n + 1 \notin startable
      BY <1>2, <2>3
  <2>5. \A i \in startable : i <= n /\ ~(n + 1 <= i)
      BY <1>2, <2>3
  <2>6. startable # {} => first \in startable
    <3>. SUFFICES ASSUME NEW i \in startable, first = n + 1 PROVE FALSE
        BY <2>2
    <3>. QED BY <2>2, <2>5
  <2>7. first \in 1 .. n + 1
      BY <2>2, <2>4
  <2>8. startable = {} => first = n + 1
      BY <2>2
  <2>9. \A i \in startable : first <= i
      BY <2>2
  <2>. QED BY <2>6, <2>7, <2>8, <2>9
<1>4. startable \subseteq 1 .. n
    OBVIOUS
<1>. HIDE DEF first
<1>5. queue \in Seq(Item) /\ \E at : Picks(at, queue, f.pending, good)
  <2>. HIDE DEF some, startable
  <2>1. PICK rows, m : rows = f.pending /\ m = n
      OBVIOUS
  <2>. QED BY <1>2, <1>3, <2>1, PickedAround
<1>6. \A k \in 1 .. first - 1 :
          passed[k] = f.pending[k] /\ k \in 1 .. n /\ (f.pending[k] \in some <=> isAdmitted(f.pending[k]))
  <2>1. \A k \in 1 .. first - 1 : f.pending[k] \in Item /\ k \in 1 .. n
      BY <1>2, <1>3
  <2>2. 1 \in Int /\ first - 1 \in Int /\ (first - 1) - 1 + 1 = first - 1 /\ 0 <= first - 1
      BY <1>2, <1>3
  <2>3. /\ passed \in Seq(Item)
        /\ Len(passed) = IF 1 <= first - 1 THEN (first - 1) - 1 + 1 ELSE 0
        /\ \A k \in 1 .. (first - 1) - 1 + 1 : passed[k] = f.pending[1 + k - 1]
      BY <2>1, <2>2, SubSeqProperties
  <2>4. DOMAIN passed = 1 .. first - 1
    <3>. HIDE DEF passed
    <3>1. Len(passed) = first - 1
        BY <2>2, <2>3
    <3>. QED BY <2>3, <3>1, LenProperties
  <2>5. \A k \in 1 .. first - 1 : 1 + k - 1 = k
      BY <2>2
  <2>6. \A k \in 1 .. first - 1 : passed[k] = f.pending[k]
    <3>. HIDE DEF passed
    <3>. QED BY <2>2, <2>3, <2>5
  <2>. HIDE DEF passed
  <2>7. \A k \in 1 .. first - 1 : f.pending[k] \in ToSet(passed)
      BY <2>4, <2>6 DEF ToSet
  <2>. QED BY <2>1, <2>6, <2>7
<1>. HIDE DEF passed, some, kept
<1>7. left \in Frontiers /\ left.pending = queue /\ left.visited = f.visited
      /\ left.robotsKnown = f.robotsKnown /\ left.delay = f.delay /\ left.lastStart = f.lastStart
  <2>. HIDE DEF queue
  <2>. QED BY <1>5 DEF Frontiers
<1>8. /\ g \in Frontiers /\ g.pending = queue /\ g.visited = f.visited
      /\ g.robotsKnown = f.robotsKnown /\ g.delay = f.delay
      /\ startable = {} => g.lastStart = f.lastStart
      /\ startable # {} => g.lastStart = [f.lastStart EXCEPT ![host(first)] = now]
  <2>. HIDE DEF left, queue, startable, host
  <2>1. CASE startable = {}
      BY <1>1, <1>7, <2>1
  <2>2. CASE startable # {}
    <3>1. g = [left EXCEPT !.lastStart = [@ EXCEPT ![host(first)] = now]]
        BY <1>1, <2>2
    <3>2. [left.lastStart EXCEPT ![host(first)] = now] \in [Hosts -> Nat \cup {None}]
        BY <1>7 DEF Frontiers
    <3>. QED BY <1>7, <2>2, <3>1, <3>2 DEF Frontiers
  <2>. QED BY <2>1, <2>2
<1>9. PICK at : Picks(at, g.pending, f.pending, good)
    BY <1>5, <1>8
<1>10. good \subseteq DOMAIN f.pending
    BY <1>2
<1>. HIDE DEF good, left, queue, startable, n
<1>11. /\ QueuedUrls(g) \subseteq QueuedUrls(f)
       /\ QueuedKeys(g) = {KeyOf[f.pending[i].url] : i \in good}
       /\ \A taken \in SUBSET Keys : Clean(f, taken) => Clean(g, taken)
       /\ \A taken \in SUBSET Keys, i \in DOMAIN f.pending \ good :
             Clean(f, taken) => Clean(g, taken \cup {KeyOf[f.pending[i].url]})
    BY <1>8, <1>9, <1>10, PickedQueue
<1>12. r.nextReadyAt \in Nat \cup {None}
  <2>1. delayed \subseteq Nat
      BY <1>2, ReadyAtIs
  <2>. HIDE DEF delayed
  <2>2. delayed # {} => Min(delayed) \in Nat
      BY <2>1, MinIs
  <2>. QED BY <1>1, <2>2
<1>13. ASSUME ~r.refused, NEW i \in 1 .. n, i # first PROVE i \in good
  <2>1. CASE i < first
    <3>1. i \in 1 .. first - 1
        BY <1>2, <1>3, <2>1
    <3>2. isAdmitted(f.pending[i])
        BY <1>1, <1>13, <3>1
    <3>. QED BY <1>6, <2>1, <3>1, <3>2 DEF good
  <2>2. CASE i > first
      BY <2>2 DEF good
  <2>. QED BY <1>2, <1>3, <1>13, <2>1, <2>2
<1>14. CASE startable = {}
  <2>1. r.item = None /\ g.lastStart = f.lastStart /\ first = n + 1
      BY <1>1, <1>3, <1>8, <1>14
  <2>2. r.refused \/ QueuedKeys(f) \subseteq QueuedKeys(g)
    <3>. SUFFICES ASSUME ~r.refused PROVE QueuedKeys(f) \subseteq QueuedKeys(g)
        OBVIOUS
    <3>1. \A i \in 1 .. n : i # first
        BY <1>2, <2>1
    <3>. QED BY <1>2, <1>11, <1>13, <3>1 DEF QueuedKeys
  <2>3. ASSUME r.nextReadyAt = None, NEW u \in QueuedUrls(g) PROVE ~HasSlot(f, HostOf[u], inFlight)
    <3>1. delayed = {}
      <4>1. delayed \subseteq Nat
          BY <1>2, ReadyAtIs
      <4>. HIDE DEF delayed
      <4>2. delayed # {} => Min(delayed) \in Nat
          BY <4>1, MinIs
      <4>. QED BY <1>1, <1>14, <2>3, <4>2, FrontierAssumption
    <3>2. \A i \in 1 .. n : ~hasSlot(i)
        BY <3>1
    <3>3. PICK k \in DOMAIN g.pending : u = g.pending[k].url
        BY <2>3 DEF QueuedUrls
    <3>4. PICK i \in good : u = f.pending[i].url
        BY <1>9, <3>3 DEF Picks
    <3>5. i \in 1 .. first - 1 /\ i \in 1 .. n /\ f.pending[i] \in some
        BY <1>2, <2>1, <3>4 DEF good
    <3>6. isAdmitted(f.pending[i])
        BY <1>6, <3>5
    <3>. QED BY <3>2, <3>4, <3>5, <3>6
  <2>. QED BY <1>8, <1>11, <1>12, <2>1, <2>2, <2>3 DEF Dequeued
<1>15. CASE startable # {}
  <2>. DEFINE item == f.pending[first]
  <2>1. /\ r.item = item /\ first \in 1 .. n /\ hasSlot(first) /\ ReadyAt(f, host(first)) <= now
    <3>1. first \in startable
        BY <1>3, <1>15
    <3>2. first \in 1 .. n /\ hasSlot(first) /\ ReadyAt(f, host(first)) <= now
        BY <3>1 DEF startable
    <3>. QED BY <1>1, <1>15, <3>2
  <2>2. item \in Item /\ item.url \in admitted \cap QueuedUrls(f)
      BY <1>2, <2>1 DEF QueuedUrls
  <2>3. first \notin good
      BY <1>2, <2>1 DEF good
  <2>4. \A taken \in SUBSET Keys : Clean(f, taken) => Clean(g, taken \cup {KeyOf[r.item.url]})
      BY <1>2, <1>11, <2>1, <2>3
  <2>5. r.refused \/ QueuedKeys(f) \subseteq QueuedKeys(g) \cup {KeyOf[r.item.url]}
    <3>. SUFFICES ASSUME ~r.refused, NEW i \in 1 .. n
                  PROVE  KeyOf[f.pending[i].url] \in QueuedKeys(g) \cup {KeyOf[r.item.url]}
        BY <1>2 DEF QueuedKeys
    <3>1. CASE i = first
        BY <2>1, <3>1
    <3>2. CASE i # first
        BY <1>11, <1>13, <3>2
    <3>. QED BY <3>1, <3>2
  <2>6. g.lastStart = [f.lastStart EXCEPT ![HostOf[r.item.url]] = now]
      BY <1>8, <1>15, <2>1
  <2>. QED BY <1>8, <1>11, <1>12, <2>1, <2>2, <2>4, <2>5, <2>6 DEF Dequeued
<1>. QED BY <1>14, <1>15
=============================================================================
