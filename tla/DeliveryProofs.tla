--------------------------- MODULE DeliveryProofs ---------------------------
(* Proofs about Delivery, for every value of its constants.                 *)
EXTENDS Delivery, SequenceTheorems, TLAPS

(* What else a row keeps: the token counts the attempts, a row that was     *)
(* never enqueued was never claimed, and each replay adds at most one to    *)
(* the budget.                                                              *)
RowInv ==
    \A k \in Deliveries :
        /\ row[k].attempt_count = row[k].token
        /\ row[k].state = "none" => row[k].token = 0
        /\ row[k].state = "delivering" => row[k].token # 0
        /\ replays[k] <= MaxReplays
        /\ row[k].max_attempts <= MaxAttempts + replays[k]

(* What a worker holds is an attempt that was made, and the present row     *)
(* while that attempt is the open one.                                      *)
HolderInv ==
    \A w \in Workers :
        claim[w] # Idle =>
            LET c == claim[w] IN
            /\ c.token \in 1..row[c.key].token
            /\ c.attempt_count \in 1..(MaxAttempts + MaxReplays)
            /\ row[c.key].state = "delivering" /\ row[c.key].token = c.token =>
                  /\ c.attempt_count = row[c.key].attempt_count
                  /\ c.max_attempts = row[c.key].max_attempts

IInv ==
    /\ TypeOK
    /\ RowInv
    /\ HolderInv
    /\ LeaseIsTheOpenAttempt
    /\ WithinBudget
    /\ DeliveredWasAccepted

-----------------------------------------------------------------------------
(* Typing of the transactions                                               *)

\* Enqueueing deliveries leaves rows of their type.
LEMMA EnqueuedType ==
    ASSUME TypeOK, NEW K \in SUBSET Deliveries
    PROVE  Enqueued(K) \in [Deliveries -> Row]
<1> SUFFICES ASSUME NEW k \in Deliveries
             PROVE (IF k \in K /\ row[k].state = "none"
                    THEN [NoRow EXCEPT !.state = "pending", !.max_attempts = MaxAttempts,
                                       !.next_attempt = notBefore[Origin(k)]]
                    ELSE row[k]) \in Row
    BY DEF Enqueued
<1>1. notBefore[Origin(k)] \in Nat /\ MaxAttempts \in Nat
    BY OriginAssumption, BudgetAssumption DEF TypeOK, Origin, Deliveries
<1>2. row[k] \in Row
    BY DEF TypeOK
<1> QED
    BY <1>1, <1>2 DEF Row, NoRow, Live, Settled

(* Closing the attempt of an expired lease keeps the attempts a sequence of *)
(* the same length.                                                         *)
LEMMA ExpiredSeq ==
    ASSUME TypeOK, NEW k \in Deliveries, Len(attempts[k]) = row[k].token,
           row[k].state = "delivering" => row[k].token # 0
    PROVE  /\ Expired(k) \in Seq(Outcome)
           /\ Len(Expired(k)) = Len(attempts[k])
           /\ \A t \in 1..Len(attempts[k]) :
                 Expired(k)[t] = IF /\ t = row[k].token
                                    /\ row[k].state = "delivering"
                                    /\ attempts[k][t] = "sending"
                                 THEN "lease_expired" ELSE attempts[k][t]
<1>1. attempts[k] \in Seq(Outcome) /\ row[k].token \in Nat
    BY DEF TypeOK, Row
<1>2. CASE row[k].state = "delivering" /\ attempts[k][row[k].token] = "sending"
    <2>1. row[k].token \in 1..Len(attempts[k])
        BY <1>1, <1>2
    <2>2. "lease_expired" \in Outcome
        BY DEF Outcome
    <2>3. Expired(k) = [attempts[k] EXCEPT ![row[k].token] = "lease_expired"]
        BY <1>2 DEF Expired
    <2> HIDE DEF Outcome, Expired
    <2> QED
        BY <1>1, <1>2, <2>1, <2>2, <2>3, ExceptSeq, SMT
<1>3. CASE ~(row[k].state = "delivering" /\ attempts[k][row[k].token] = "sending")
    BY <1>1, <1>3 DEF Expired
<1> QED
    BY <1>2, <1>3

-----------------------------------------------------------------------------
(* The inductive invariant, action by action.  RowPart is what the actions  *)
(* that touch rows have to keep; TypeOK is proved beside it.                *)

RowPart ==
    /\ RowInv
    /\ HolderInv
    /\ LeaseIsTheOpenAttempt
    /\ WithinBudget
    /\ DeliveredWasAccepted

\* The invariant holds of an empty outbox.
LEMMA InitIInv == Init => IInv
<1> SUFFICES ASSUME Init PROVE IInv
    OBVIOUS
<1>1. NoRow \in Row
    BY DEF NoRow, Row, Live, Settled
<1>2. TypeOK
    BY <1>1, EmptySeq DEF Init, TypeOK
<1>3. RowInv /\ WithinBudget /\ DeliveredWasAccepted
    BY BudgetAssumption DEF Init, RowInv, WithinBudget, DeliveredWasAccepted, NoRow
<1>4. HolderInv
    BY DEF Init, HolderInv
<1>5. LeaseIsTheOpenAttempt
    BY EmptySeq DEF Init, LeaseIsTheOpenAttempt, NoRow
<1> QED
    BY <1>2, <1>3, <1>4, <1>5 DEF IInv

\* Enqueueing (insert or ignore) keeps what is said of the rows.
LEMMA EnqueueKeeps ==
    ASSUME IInv, NEW K \in SUBSET Deliveries, row' = Enqueued(K),
           UNCHANGED <<attempts, claim, accepted, replays>>
    PROVE  RowPart'
<1> USE DEF IInv
<1>1. ASSUME NEW k \in Deliveries
      PROVE  \/ row'[k] = row[k]
             \/ /\ row[k].state = "none"
                /\ row'[k].state = "pending"
                /\ row'[k].attempt_count = 0
                /\ row'[k].max_attempts = MaxAttempts
                /\ row'[k].token = 0
    BY DEF Enqueued, NoRow
<1>2. \A k \in Deliveries : row[k] \in Row
    BY DEF TypeOK
<1>3. RowInv'
    <2> SUFFICES ASSUME NEW k \in Deliveries
                 PROVE  /\ row'[k].attempt_count = row'[k].token
                        /\ row'[k].state = "none" => row'[k].token = 0
                        /\ row'[k].state = "delivering" => row'[k].token # 0
                        /\ replays[k] <= MaxReplays
                        /\ row'[k].max_attempts <= MaxAttempts + replays[k]
        BY DEF RowInv
    <2>1. replays[k] \in Nat
        BY DEF TypeOK
    <2> QED
        BY <1>1, <2>1, BudgetAssumption DEF RowInv
<1>4. HolderInv'
    <2> SUFFICES ASSUME NEW w \in Workers, claim[w] # Idle
                 PROVE  LET c == claim[w] IN
                        /\ c.token \in 1..row'[c.key].token
                        /\ c.attempt_count \in 1..(MaxAttempts + MaxReplays)
                        /\ row'[c.key].state = "delivering" /\ row'[c.key].token = c.token =>
                              /\ c.attempt_count = row'[c.key].attempt_count
                              /\ c.max_attempts = row'[c.key].max_attempts
        BY DEF HolderInv
    <2>1. claim[w].key \in Deliveries /\ claim[w].token \in Nat
        BY DEF TypeOK, Held
    <2>2. claim[w].token \in 1..row[claim[w].key].token
        BY DEF HolderInv
    <2>3. row[claim[w].key].state # "none"
        BY <2>1, <2>2 DEF RowInv
    <2> QED
        BY <1>1, <2>1, <2>3 DEF HolderInv
<1>5. LeaseIsTheOpenAttempt'
    BY <1>1 DEF LeaseIsTheOpenAttempt, RowInv
<1>6. WithinBudget'
    BY <1>1, BudgetAssumption DEF WithinBudget
<1>7. DeliveredWasAccepted'
    BY <1>1 DEF DeliveredWasAccepted
<1> QED
    BY <1>3, <1>4, <1>5, <1>6, <1>7 DEF RowPart

\* Publishing an event keeps the invariant.
LEMMA PublishKeeps == ASSUME IInv, NEW e \in Events, Publish(e) PROVE IInv'
<1> USE DEF IInv
<1>1. (destinations \X {e}) \in SUBSET Deliveries
    BY DEF TypeOK, Deliveries
<1>2. row' \in [Deliveries -> Row]
    BY <1>1, EnqueuedType DEF Publish
<1>3. TypeOK'
    BY <1>2 DEF Publish, TypeOK
<1>4. RowPart'
    BY <1>1, EnqueueKeeps DEF Publish
<1> QED
    BY <1>3, <1>4 DEF RowPart

\* Registering a destination, with the history fanned out to it, keeps the
\* invariant.
LEMMA RegisterKeeps ==
    ASSUME IInv, NEW s \in Destinations, NEW on \in BOOLEAN, RegisterDestination(s, on)
    PROVE  IInv'
<1> USE DEF IInv
<1> DEFINE history == {e \in Events : outbox[e] # "none"}
<1>1. ({s} \X history) \in SUBSET Deliveries
    BY DEF Deliveries
<1>2. row' = Enqueued({s} \X history)
    BY DEF RegisterDestination, EnqueueHistorical
<1>3. row' \in [Deliveries -> Row]
    BY <1>1, <1>2, EnqueuedType
<1>4. TypeOK'
    BY <1>3 DEF RegisterDestination, TypeOK, EnqueueHistorical
<1>5. RowPart'
    BY <1>1, <1>2, EnqueueKeeps DEF RegisterDestination, EnqueueHistorical
<1> QED
    BY <1>4, <1>5 DEF RowPart

(* Actions that leave the rows, the attempts and the claims alone.          *)
LEMMA ControlKeeps ==
    ASSUME IInv, NEW s \in Destinations, NEW on \in BOOLEAN, SetEnabled(s, on)
    PROVE  IInv'
<1> USE DEF IInv, SetEnabled
<1>1. TypeOK'
    BY DEF TypeOK
<1>2. RowInv' /\ WithinBudget' /\ DeliveredWasAccepted'
    BY DEF RowInv, WithinBudget, DeliveredWasAccepted
<1>3. HolderInv' /\ LeaseIsTheOpenAttempt'
    BY DEF HolderInv, LeaseIsTheOpenAttempt
<1> QED
    BY <1>1, <1>2, <1>3

\* A receiver that accepts a request keeps the invariant.
LEMMA ReceiveKeeps == ASSUME IInv, NEW w \in Workers, Receive(w) PROVE IInv'
<1> USE DEF IInv, Receive
<1>1. claim[w].key \in Deliveries /\ claim[w].token \in Nat
    BY DEF TypeOK, Held
<1>2. TypeOK'
    BY <1>1 DEF TypeOK
<1>3. RowInv' /\ WithinBudget'
    BY DEF RowInv, WithinBudget
<1>4. DeliveredWasAccepted'
    BY <1>1 DEF DeliveredWasAccepted, TypeOK
<1>5. HolderInv' /\ LeaseIsTheOpenAttempt'
    BY DEF HolderInv, LeaseIsTheOpenAttempt
<1> QED
    BY <1>2, <1>3, <1>4, <1>5

\* A worker that dies with its claim keeps the invariant.
LEMMA CrashKeeps == ASSUME IInv, NEW w \in Workers, Crash(w) PROVE IInv'
<1> USE DEF IInv, Crash
<1>1. TypeOK'
    BY DEF TypeOK
<1>2. RowInv' /\ WithinBudget' /\ DeliveredWasAccepted'
    BY DEF RowInv, WithinBudget, DeliveredWasAccepted
<1>3. HolderInv'
    BY DEF HolderInv, TypeOK
<1>4. LeaseIsTheOpenAttempt'
    BY DEF LeaseIsTheOpenAttempt
<1> QED
    BY <1>1, <1>2, <1>3, <1>4

(* What one claim transaction does to a row: nothing, give it up, or lease  *)
(* it; only the last one adds an attempt.                                   *)
GivesUp(j) ==
    /\ row[j].state \in Live
    /\ row'[j] = GivenUp(j)
    /\ attempts'[j] = Expired(j)

Leases(j) ==
    /\ row[j].state \in Live
    /\ row[j].attempt_count < row[j].max_attempts
    /\ row'[j] = Leased(j)
    /\ attempts'[j] = Append(Expired(j), "sending")

Spares(j) == row'[j] = row[j] /\ attempts'[j] = attempts[j]

(* The updates of a row, and what they leave in each field.                 *)
LeaseOf(r, a, n) ==
    [r EXCEPT !.state = "delivering", !.attempt_count = a, !.token = n, !.lease = LeaseTicks]
EndOf(r, st, n) == [r EXCEPT !.state = st, !.lease = 0, !.next_attempt = n]
ReopenOf(r, n, m) ==
    [r EXCEPT !.state = "pending", !.lease = 0, !.next_attempt = n, !.max_attempts = m]

\* The fields of a row that has just been leased.
LEMMA RowLeased ==
    ASSUME NEW r \in Row, NEW a \in Nat, NEW n \in Nat
    PROVE  /\ LeaseOf(r, a, n) \in Row
           /\ LeaseOf(r, a, n).state = "delivering"
           /\ LeaseOf(r, a, n).attempt_count = a
           /\ LeaseOf(r, a, n).token = n
           /\ LeaseOf(r, a, n).max_attempts = r.max_attempts
    BY TimingAssumption DEF LeaseOf, Row, Live

\* The fields of a row whose attempt has just ended.
LEMMA RowEnded ==
    ASSUME NEW r \in Row, NEW st \in Live \cup Settled, NEW n \in Nat
    PROVE  /\ EndOf(r, st, n) \in Row
           /\ EndOf(r, st, n).state = st
           /\ EndOf(r, st, n).attempt_count = r.attempt_count
           /\ EndOf(r, st, n).token = r.token
           /\ EndOf(r, st, n).max_attempts = r.max_attempts
    BY DEF EndOf, Row

\* The fields of a dead letter that has just been replayed.
LEMMA RowReopened ==
    ASSUME NEW r \in Row, NEW n \in Nat, NEW m \in Nat
    PROVE  /\ ReopenOf(r, n, m) \in Row
           /\ ReopenOf(r, n, m).state = "pending"
           /\ ReopenOf(r, n, m).attempt_count = r.attempt_count
           /\ ReopenOf(r, n, m).token = r.token
           /\ ReopenOf(r, n, m).max_attempts = m
    BY DEF ReopenOf, Row, Live

\* Claim's row is the leased row, whatever it was before.
LEMMA LeasedFields ==
    ASSUME NEW j \in Deliveries, row[j] \in Row
    PROVE  /\ Leased(j) \in Row
           /\ Leased(j).state = "delivering"
           /\ Leased(j).attempt_count = row[j].attempt_count + 1
           /\ Leased(j).token = row[j].token + 1
           /\ Leased(j).max_attempts = row[j].max_attempts
<1>1. PICK count \in Nat : count = row[j].attempt_count + 1
    BY DEF Row
<1>2. PICK next \in Nat : next = row[j].token + 1
    BY DEF Row
<1>3. Leased(j) = LeaseOf(row[j], count, next)
    BY <1>1, <1>2 DEF Leased, LeaseOf
<1>4. /\ LeaseOf(row[j], count, next) \in Row
      /\ LeaseOf(row[j], count, next).state = "delivering"
      /\ LeaseOf(row[j], count, next).attempt_count = count
      /\ LeaseOf(row[j], count, next).token = next
      /\ LeaseOf(row[j], count, next).max_attempts = row[j].max_attempts
    BY RowLeased
<1> QED
    BY <1>1, <1>2, <1>3, <1>4

\* The row of an exhausted delivery is dead and has no lease.
LEMMA GivenUpFields ==
    ASSUME NEW j \in Deliveries, row[j] \in Row
    PROVE  /\ GivenUp(j) \in Row
           /\ GivenUp(j).state = "dead_letter"
           /\ GivenUp(j).attempt_count = row[j].attempt_count
           /\ GivenUp(j).token = row[j].token
           /\ GivenUp(j).max_attempts = row[j].max_attempts
    BY DEF GivenUp, Row, Settled

(* A row-wise step of these three kinds keeps the row part of the           *)
(* invariant; new holders are left to the caller.                           *)
LEMMA ClaimRows ==
    ASSUME IInv,
           \A j \in Deliveries : Spares(j) \/ GivesUp(j) \/ Leases(j),
           row' = [j \in Deliveries |-> row'[j]],
           attempts' = [j \in Deliveries |-> attempts'[j]],
           UNCHANGED <<accepted, replays>>
    PROVE  /\ row' \in [Deliveries -> Row]
           /\ attempts' \in [Deliveries -> Seq(Outcome)]
           /\ RowInv' /\ LeaseIsTheOpenAttempt' /\ WithinBudget' /\ DeliveredWasAccepted'
<1> USE DEF IInv
<1>0. ASSUME NEW j \in Deliveries
      PROVE  /\ row[j] \in Row
             /\ attempts[j] \in Seq(Outcome)
             /\ Len(attempts[j]) = row[j].token
             /\ row[j].token \in Nat
             /\ row[j].state = "delivering" => row[j].token # 0
    BY DEF TypeOK, Row, RowInv, LeaseIsTheOpenAttempt
<1>1. ASSUME NEW j \in Deliveries
      PROVE  row'[j] \in Row
    BY <1>0, LeasedFields, GivenUpFields DEF Spares, GivesUp, Leases
<1>2. ASSUME NEW j \in Deliveries
      PROVE  /\ Expired(j) \in Seq(Outcome)
             /\ Len(Expired(j)) = row[j].token
             /\ \A t \in 1..row[j].token :
                   Expired(j)[t] = IF /\ t = row[j].token
                                      /\ row[j].state = "delivering"
                                      /\ attempts[j][t] = "sending"
                                   THEN "lease_expired" ELSE attempts[j][t]
    BY <1>0, ExpiredSeq
<1>3. ASSUME NEW j \in Deliveries
      PROVE  \A t \in 1..row[j].token : Expired(j)[t] # "sending"
    BY <1>0, <1>2 DEF LeaseIsTheOpenAttempt
<1>4. ASSUME NEW j \in Deliveries
      PROVE  LET more == Append(Expired(j), "sending") IN
             /\ more \in Seq(Outcome)
             /\ Len(more) = row[j].token + 1
             /\ more[row[j].token + 1] = "sending"
             /\ \A t \in 1..row[j].token : more[t] = Expired(j)[t]
    <2>1. "sending" \in Outcome
        BY DEF Outcome
    <2> HIDE DEF Outcome
    <2> QED
        BY <1>2, <2>1, AppendProperties, SMT
<1>5. ASSUME NEW j \in Deliveries
      PROVE  attempts'[j] \in Seq(Outcome)
    BY <1>0, <1>2, <1>4 DEF Spares, GivesUp, Leases
<1>6. RowInv'
    <2> SUFFICES ASSUME NEW k \in Deliveries
                 PROVE  /\ row'[k].attempt_count = row'[k].token
                        /\ row'[k].state = "none" => row'[k].token = 0
                        /\ row'[k].state = "delivering" => row'[k].token # 0
                        /\ replays[k] <= MaxReplays
                        /\ row'[k].max_attempts <= MaxAttempts + replays[k]
        BY DEF RowInv
    <2> QED
        <3>1. row[k] \in Row
            BY <1>0
        <3>2. /\ row[k].attempt_count = row[k].token
              /\ row[k].token \in Nat
              /\ row[k].state = "none" => row[k].token = 0
              /\ row[k].state = "delivering" => row[k].token # 0
              /\ replays[k] <= MaxReplays
              /\ row[k].max_attempts <= MaxAttempts + replays[k]
            BY <1>0 DEF RowInv
        <3>3. CASE Spares(k)
            BY <3>2, <3>3 DEF Spares
        <3>4. CASE GivesUp(k)
            BY <3>1, <3>2, <3>4, GivenUpFields DEF GivesUp
        <3>5. CASE Leases(k)
            BY <3>1, <3>2, <3>5, LeasedFields DEF Leases
        <3> QED
            BY <3>3, <3>4, <3>5
<1>7. LeaseIsTheOpenAttempt'
    <2> SUFFICES ASSUME NEW k \in Deliveries
                 PROVE  /\ Len(attempts'[k]) = row'[k].token
                        /\ \A t \in 1..Len(attempts'[k]) :
                              attempts'[k][t] = "sending" <=>
                                  row'[k].state = "delivering" /\ t = row'[k].token
        BY DEF LeaseIsTheOpenAttempt
    <2>1. CASE Spares(k)
        BY <2>1 DEF Spares, LeaseIsTheOpenAttempt
    <2>2. CASE GivesUp(k)
        <3>1. row'[k].state = "dead_letter" /\ row'[k].token = row[k].token
            BY <2>2, <1>0, GivenUpFields DEF GivesUp
        <3> QED
            BY <3>1, <2>2, <1>2, <1>3 DEF GivesUp
    <2>3. CASE Leases(k)
        <3>1. row'[k].token = row[k].token + 1 /\ row'[k].state = "delivering"
            BY <2>3, <1>0, LeasedFields DEF Leases
        <3>2. attempts'[k] = Append(Expired(k), "sending")
            BY <2>3 DEF Leases
        <3>3. /\ row[k].token \in Nat
              /\ Len(attempts'[k]) = row[k].token + 1
              /\ attempts'[k][row[k].token + 1] = "sending"
              /\ \A t \in 1..row[k].token : attempts'[k][t] # "sending"
            BY <3>2, <1>0, <1>3, <1>4
        <3> QED
            BY <3>1, <3>3
    <2> QED
        BY <2>1, <2>2, <2>3
<1>8. WithinBudget'
    <2> SUFFICES ASSUME NEW k \in Deliveries
                 PROVE  /\ row'[k].attempt_count <= row'[k].max_attempts
                        /\ row'[k].state = "pending" =>
                              row'[k].attempt_count < row'[k].max_attempts
        BY DEF WithinBudget
    <2> QED
        <3>1. /\ row[k] \in Row
              /\ row[k].attempt_count \in Nat
              /\ row[k].max_attempts \in Nat
            BY <1>0 DEF Row
        <3>2. CASE Spares(k)
            BY <3>2 DEF Spares, WithinBudget
        <3>3. CASE GivesUp(k)
            BY <3>1, <3>3, GivenUpFields DEF GivesUp, WithinBudget
        <3>4. CASE Leases(k)
            BY <3>1, <3>4, LeasedFields DEF Leases
        <3> QED
            BY <3>2, <3>3, <3>4
<1>9. DeliveredWasAccepted'
    <2> SUFFICES ASSUME NEW k \in Deliveries, row'[k].state = "delivered"
                 PROVE  row'[k].token \in accepted[k] /\ attempts'[k][row'[k].token] = "delivered"
        BY DEF DeliveredWasAccepted
    <2>1. Spares(k)
        BY <1>0, LeasedFields, GivenUpFields DEF GivesUp, Leases
    <2> QED
        BY <2>1 DEF DeliveredWasAccepted, Spares
<1> QED
    BY <1>1, <1>5, <1>6, <1>7, <1>8, <1>9

(* The holders other than the claiming worker keep an attempt that was      *)
(* made, and a row that is leased again is no longer theirs.                *)
LEMMA ClaimHolders ==
    ASSUME IInv, NEW w \in Workers, claim[w] # Idle,
           \A j \in Deliveries : Spares(j) \/ GivesUp(j) \/ Leases(j)
    PROVE  LET c == claim[w] IN
           /\ c.token \in 1..row'[c.key].token
           /\ c.attempt_count \in 1..(MaxAttempts + MaxReplays)
           /\ row'[c.key].state = "delivering" /\ row'[c.key].token = c.token =>
                 /\ c.attempt_count = row'[c.key].attempt_count
                 /\ c.max_attempts = row'[c.key].max_attempts
<1> USE DEF IInv
<1> DEFINE k == claim[w].key
<1>1. k \in Deliveries /\ row[k] \in Row
    BY DEF TypeOK, Held
<1>2. /\ claim[w].token \in 1..row[k].token
      /\ claim[w].attempt_count \in 1..(MaxAttempts + MaxReplays)
      /\ row[k].state = "delivering" /\ row[k].token = claim[w].token =>
            /\ claim[w].attempt_count = row[k].attempt_count
            /\ claim[w].max_attempts = row[k].max_attempts
    BY DEF HolderInv
<1>3. row[k].token \in Nat
    BY <1>1 DEF Row
<1>4. CASE Spares(k)
    BY <1>2, <1>4 DEF Spares
<1>5. CASE GivesUp(k)
    <2>1. row'[k].state = "dead_letter" /\ row'[k].token = row[k].token
        BY <1>1, <1>5, GivenUpFields DEF GivesUp
    <2> QED
        BY <1>2, <2>1
<1>6. CASE Leases(k)
    <2>1. row'[k].token = row[k].token + 1
        BY <1>1, <1>6, LeasedFields DEF Leases
    <2> QED
        BY <1>2, <1>3, <2>1
<1> QED
    BY <1>1, <1>4, <1>5, <1>6

(* A claim transaction is such a step, and leases only a row whose origin   *)
(* is not cooling down.                                                     *)
LEMMA ClaimSteps ==
    ASSUME IInv, NEW w \in Workers, Claim(w)
    PROVE  \A j \in Deliveries :
              \/ Spares(j)
              \/ GivesUp(j)
              \/ (Leases(j) /\ notBefore[Origin(j)] = 0)
<1>1. \A j \in Claimable : /\ j \in Deliveries /\ row[j].state \in Live
                           /\ notBefore[Origin(j)] = 0
    BY DEF Claimable, Due, Live
<1>2. Exhausted \subseteq Claimable
    BY DEF Exhausted
<1>3. ASSUME NEW k \in Claimable \ Exhausted, NEW dead \in SUBSET Exhausted,
             ClaimOne(w, k, dead), NEW j \in Deliveries
      PROVE  Spares(j) \/ GivesUp(j) \/ (Leases(j) /\ notBefore[Origin(j)] = 0)
    <2>1. row[k].attempt_count < row[k].max_attempts
        BY <1>1 DEF Exhausted, IInv, TypeOK, Row
    <2> QED
        BY <1>1, <1>2, <1>3, <2>1 DEF ClaimOne, Spares, GivesUp, Leases
<1>4. ASSUME ClaimNone(w), NEW j \in Deliveries
      PROVE  Spares(j) \/ GivesUp(j)
    BY <1>1, <1>2, <1>4 DEF ClaimNone, Spares, GivesUp
<1> QED
    BY <1>3, <1>4 DEF Claim

\* A claim, with the exhausted leases it buries, keeps the invariant.
LEMMA ClaimKeeps == ASSUME IInv, NEW w \in Workers, Claim(w) PROVE IInv'
<1> USE DEF IInv
<1>1. \A j \in Claimable : j \in Deliveries
    BY DEF Claimable
<1>3. ASSUME NEW k \in Claimable \ Exhausted, NEW dead \in SUBSET Exhausted,
             ClaimOne(w, k, dead)
      PROVE  IInv'
    <2>1. row[k] \in Row /\ k \in Deliveries /\ claim[w] \in Held \cup {Idle}
        BY <1>1 DEF TypeOK
    <2>2. row[k].attempt_count < row[k].max_attempts
        BY <2>1 DEF Exhausted, Row
    <2>3. \A j \in Deliveries : Spares(j) \/ GivesUp(j) \/ Leases(j)
        BY ClaimSteps
    <2>4. /\ row' = [j \in Deliveries |-> row'[j]]
          /\ attempts' = [j \in Deliveries |-> attempts'[j]]
        BY <1>3 DEF ClaimOne
    <2>5. /\ row' \in [Deliveries -> Row]
          /\ attempts' \in [Deliveries -> Seq(Outcome)]
          /\ RowInv' /\ LeaseIsTheOpenAttempt' /\ WithinBudget' /\ DeliveredWasAccepted'
        BY <2>3, <2>4, ClaimRows DEF Claim
    <2> DEFINE c == [key |-> k, token |-> row[k].token + 1,
                     attempt_count |-> row[k].attempt_count + 1,
                     max_attempts |-> row[k].max_attempts]
    <2>6. c \in Held /\ claim' = [claim EXCEPT ![w] = c]
        BY <1>3, <2>1 DEF ClaimOne, Held, Row
    <2>7. TypeOK'
        BY <2>5, <2>6 DEF TypeOK, Claim
    <2>8. row'[k] = Leased(k)
        BY <1>3, <2>1 DEF ClaimOne
    <2>9. /\ row[k].attempt_count + 1 \in 1..(MaxAttempts + MaxReplays)
          /\ row'[k].token = row[k].token + 1
          /\ row'[k].attempt_count = row[k].attempt_count + 1
          /\ row'[k].max_attempts = row[k].max_attempts
          /\ row[k].token \in Nat
        <3>1. replays[k] \in Nat
            BY <2>1 DEF TypeOK
        <3> QED
            BY <2>1, <2>2, <2>8, <3>1, BudgetAssumption, LeasedFields DEF Row, RowInv
    <2>10. HolderInv'
        <3> SUFFICES ASSUME NEW v \in Workers, claim'[v] # Idle
                     PROVE  LET d == claim'[v] IN
                            /\ d.token \in 1..row'[d.key].token
                            /\ d.attempt_count \in 1..(MaxAttempts + MaxReplays)
                            /\ row'[d.key].state = "delivering" /\ row'[d.key].token = d.token =>
                                  /\ d.attempt_count = row'[d.key].attempt_count
                                  /\ d.max_attempts = row'[d.key].max_attempts
            BY DEF HolderInv
        <3>1. CASE v = w
            <4>1. claim'[v] = c
                BY <2>6, <3>1 DEF TypeOK
            <4> QED
                BY <2>9, <4>1
        <3>2. CASE v # w
            <4>1. claim'[v] = claim[v]
                BY <2>6, <3>2 DEF TypeOK
            <4> QED
                BY <2>3, <4>1, ClaimHolders
        <3> QED
            BY <3>1, <3>2
    <2> QED
        BY <2>5, <2>7, <2>10
<1>4. ASSUME ClaimNone(w) PROVE IInv'
    <2>1. \A j \in Deliveries : Spares(j) \/ GivesUp(j) \/ Leases(j)
        BY ClaimSteps
    <2>2. /\ row' = [j \in Deliveries |-> row'[j]]
          /\ attempts' = [j \in Deliveries |-> attempts'[j]]
        BY <1>4 DEF ClaimNone
    <2>3. /\ row' \in [Deliveries -> Row]
          /\ attempts' \in [Deliveries -> Seq(Outcome)]
          /\ RowInv' /\ LeaseIsTheOpenAttempt' /\ WithinBudget' /\ DeliveredWasAccepted'
        BY <2>1, <2>2, ClaimRows DEF Claim
    <2>4. TypeOK'
        BY <2>3, <1>4 DEF TypeOK, Claim, ClaimNone
    <2>5. claim' = claim
        BY <1>4 DEF ClaimNone
    <2>6. HolderInv'
        BY <2>1, <2>5, ClaimHolders DEF HolderInv
    <2> QED
        BY <2>3, <2>4, <2>6
<1> QED
    BY <1>3, <1>4 DEF Claim

-----------------------------------------------------------------------------
(* The answer of a worker.                                                  *)

(* What the answer of the lease's owner does to the rows: its own takes the *)
(* verdict, and only waits and leases change beside that.                   *)
LEMMA FinishRows ==
    ASSUME IInv, NEW w \in Workers, NEW answer \in Answers, NEW wait \in RetryAfters,
           Finish(w, answer, wait), Owns(claim[w])
    PROVE  \A k \in Deliveries :
              /\ row'[k] \in Row
              /\ row'[k].state = IF k = claim[w].key THEN Verdict(claim[w], answer)
                                 ELSE row[k].state
              /\ row'[k].attempt_count = row[k].attempt_count
              /\ row'[k].max_attempts = row[k].max_attempts
              /\ row'[k].token = row[k].token
<1> USE DEF IInv
<1> DEFINE c == claim[w]
           k0 == c.key
           verdict == Verdict(c, answer)
           after == Later(Backoff[c.attempt_count], wait)
<1>1. c \in Held /\ k0 \in Deliveries /\ wait \in Nat
    BY TimingAssumption DEF Finish, TypeOK, Held
<1>2. verdict \in Live \cup Settled
    BY DEF Verdict, Live, Settled
<1>3. after \in Nat
    BY <1>1, TimingAssumption DEF Finish, HolderInv, Later
<1> SUFFICES ASSUME NEW k \in Deliveries
             PROVE  /\ row'[k] \in Row
                    /\ row'[k].state = IF k = k0 THEN verdict ELSE row[k].state
                    /\ row'[k].attempt_count = row[k].attempt_count
                    /\ row'[k].max_attempts = row[k].max_attempts
                    /\ row'[k].token = row[k].token
    OBVIOUS
<1>4. row[k] \in Row
    BY DEF TypeOK
<1>5. row'[k] = IF k = k0
                THEN [row[k] EXCEPT !.state = verdict, !.lease = 0, !.next_attempt = after]
                ELSE IF row[k].state = "pending" /\ Origin(k) = Origin(k0)
                THEN [row[k] EXCEPT !.next_attempt = Later(@, wait)]
                ELSE row[k]
    BY DEF Finish, Complete, Completed
<1>6. Later(row[k].next_attempt, wait) \in Nat
    BY <1>1, <1>4 DEF Later, Row
<1>7. CASE k = k0
    <2>1. row'[k] = EndOf(row[k], verdict, after)
        BY <1>5, <1>7 DEF EndOf
    <2> HIDE DEF verdict, after
    <2> QED
        BY <1>2, <1>3, <1>4, <1>7, <2>1, RowEnded
<1>8. CASE k # k0
    BY <1>4, <1>5, <1>6, <1>8 DEF Row
<1> QED
    BY <1>7, <1>8

\* The record of an answer keeps the invariant, whether or not the worker's
\* lease still stands.
LEMMA FinishKeeps ==
    ASSUME IInv, NEW w \in Workers, NEW answer \in Answers, NEW wait \in RetryAfters,
           Finish(w, answer, wait)
    PROVE  IInv'
<1> USE DEF IInv
<1> DEFINE c == claim[w]
           k0 == c.key
           verdict == Verdict(c, answer)
<1>1. c \in Held /\ k0 \in Deliveries /\ row[k0] \in Row /\ wait \in Nat
    BY TimingAssumption DEF Finish, TypeOK, Held
<1>2. verdict \in {"delivered", "dead_letter", "pending"}
    BY DEF Verdict
<1>3. claim' = [claim EXCEPT ![w] = Idle] /\ UNCHANGED <<destinations, enabled, accepted, replays>>
    BY DEF Finish
<1>4. CASE ~Owns(c)
    <2>1. UNCHANGED <<row, notBefore, attempts, outbox>>
        BY <1>4 DEF Finish, Complete
    <2>2. TypeOK'
        BY <1>3, <2>1 DEF TypeOK
    <2>3. RowInv' /\ WithinBudget' /\ DeliveredWasAccepted'
        BY <1>3, <2>1 DEF RowInv, WithinBudget, DeliveredWasAccepted
    <2>4. HolderInv'
        BY <1>3, <2>1 DEF HolderInv, TypeOK
    <2>5. LeaseIsTheOpenAttempt'
        BY <2>1 DEF LeaseIsTheOpenAttempt
    <2> QED
        BY <2>2, <2>3, <2>4, <2>5
<1>5. CASE Owns(c)
    <2>1. /\ row' = Completed(c, verdict, wait)
          /\ notBefore' = Cooled(c, wait)
          /\ attempts' = [attempts EXCEPT ![k0][c.token] =
                             IF verdict = "pending" THEN "retry" ELSE verdict]
          /\ outbox' = Acknowledged(c, verdict)
        BY <1>5 DEF Finish, Complete, Evidence
    <2>2. /\ row[k0].state = "delivering"
          /\ row[k0].token = c.token
          /\ c.attempt_count = row[k0].attempt_count
          /\ c.max_attempts = row[k0].max_attempts
          /\ c.attempt_count \in 1..(MaxAttempts + MaxReplays)
          /\ c.token \in 1..Len(attempts[k0])
        BY <1>1, <1>5 DEF Owns, Finish, HolderInv, LeaseIsTheOpenAttempt
    <2>4. \A k \in Deliveries :
              /\ row'[k] \in Row
              /\ row'[k].state = IF k = k0 THEN verdict ELSE row[k].state
              /\ row'[k].attempt_count = row[k].attempt_count
              /\ row'[k].max_attempts = row[k].max_attempts
              /\ row'[k].token = row[k].token
        BY <1>5, FinishRows
    <2> DEFINE outcome == IF verdict = "pending" THEN "retry" ELSE verdict
    <2>5. outcome \in Outcome /\ outcome # "sending" /\ (verdict = "delivered" => outcome = "delivered")
        BY <1>2 DEF Outcome
    <2>6. /\ attempts'[k0] = [attempts[k0] EXCEPT ![c.token] = outcome]
          /\ \A k \in Deliveries : k # k0 => attempts'[k] = attempts[k]
          /\ attempts[k0] \in Seq(Outcome)
        BY <1>1, <2>1 DEF TypeOK
    <2>7. /\ attempts'[k0] \in Seq(Outcome)
          /\ Len(attempts'[k0]) = Len(attempts[k0])
          /\ \A t \in 1..Len(attempts[k0]) :
                attempts'[k0][t] = IF t = c.token THEN outcome ELSE attempts[k0][t]
        <3> HIDE DEF outcome, k0, Outcome
        <3> QED
            BY <2>2, <2>5, <2>6, ExceptSeq, SMT
    <2>8. TypeOK'
        <3>1. row' \in [Deliveries -> Row]
            BY <2>1, <2>4 DEF Completed
        <3>2. attempts' \in [Deliveries -> Seq(Outcome)]
            BY <2>1, <2>6, <2>7 DEF TypeOK
        <3>3. notBefore' \in [Origins -> Nat]
            BY <1>1, <2>1, OriginAssumption DEF Cooled, Later, TypeOK, Origin, Deliveries
        <3>4. outbox' \in [Events -> {"none", "pending", "acknowledged"}]
            BY <2>1 DEF Acknowledged, TypeOK
        <3> QED
            BY <1>3, <3>1, <3>2, <3>3, <3>4 DEF TypeOK
    <2>9. RowInv'
        <3> SUFFICES ASSUME NEW k \in Deliveries
                     PROVE  /\ row'[k].attempt_count = row'[k].token
                            /\ row'[k].state = "none" => row'[k].token = 0
                            /\ row'[k].state = "delivering" => row'[k].token # 0
                            /\ replays[k] <= MaxReplays
                            /\ row'[k].max_attempts <= MaxAttempts + replays[k]
            BY <1>3 DEF RowInv
        <3> QED
            BY <1>2, <2>4 DEF RowInv
    <2>10. HolderInv'
        <3> SUFFICES ASSUME NEW v \in Workers, claim[v] # Idle, claim'[v] = claim[v]
                     PROVE  LET d == claim[v] IN
                            /\ d.token \in 1..row'[d.key].token
                            /\ d.attempt_count \in 1..(MaxAttempts + MaxReplays)
                            /\ row'[d.key].state = "delivering" /\ row'[d.key].token = d.token =>
                                  /\ d.attempt_count = row'[d.key].attempt_count
                                  /\ d.max_attempts = row'[d.key].max_attempts
            BY <1>3 DEF HolderInv, TypeOK
        <3>1. claim[v].key \in Deliveries
            BY DEF TypeOK, Held
        <3> QED
            BY <1>2, <2>4, <3>1 DEF HolderInv
    <2>11. LeaseIsTheOpenAttempt'
        <3> SUFFICES ASSUME NEW k \in Deliveries
                     PROVE  /\ Len(attempts'[k]) = row'[k].token
                            /\ \A t \in 1..Len(attempts'[k]) :
                                  attempts'[k][t] = "sending" <=>
                                      row'[k].state = "delivering" /\ t = row'[k].token
            BY DEF LeaseIsTheOpenAttempt
        <3>1. CASE k = k0
            BY <1>2, <2>2, <2>4, <2>5, <2>7, <3>1 DEF LeaseIsTheOpenAttempt
        <3>2. CASE k # k0
            BY <2>4, <2>6, <3>2 DEF LeaseIsTheOpenAttempt
        <3> QED
            BY <3>1, <3>2
    <2>12. WithinBudget'
        <3>1. verdict = "pending" => c.attempt_count < c.max_attempts
            BY <1>1 DEF Verdict, Held
        <3> QED
            BY <2>2, <2>4, <3>1 DEF WithinBudget
    <2>13. DeliveredWasAccepted'
        <3>1. verdict = "delivered" => c.token \in accepted[k0]
            BY DEF Verdict, Finish, Possible, Answers
        <3>2. ASSUME NEW k \in Deliveries, row'[k].state = "delivered"
              PROVE  row'[k].token \in accepted[k] /\ attempts'[k][row'[k].token] = "delivered"
            <4>1. CASE k = k0
                BY <2>2, <2>4, <2>5, <2>7, <3>1, <3>2, <4>1
            <4>2. CASE k # k0
                BY <2>4, <2>6, <3>2, <4>2 DEF DeliveredWasAccepted
            <4> QED
                BY <4>1, <4>2
        <3> QED
            BY <1>3, <3>2 DEF DeliveredWasAccepted
    <2> QED
        BY <2>8, <2>9, <2>10, <2>11, <2>12, <2>13
<1> QED
    BY <1>4, <1>5

(* A replay opens the dead row again, with one attempt of budget.           *)
LEMMA ReplayRows ==
    ASSUME IInv, NEW k \in Deliveries, ReplayDeadLetter(k)
    PROVE  /\ row' \in [Deliveries -> Row]
           /\ row'[k] \in Row
           /\ row'[k].state = "pending"
           /\ row'[k].attempt_count = row[k].attempt_count
           /\ row'[k].max_attempts = row[k].attempt_count + 1
           /\ row'[k].token = row[k].token
           /\ \A j \in Deliveries : j # k => row'[j] = row[j]
<1> USE DEF IInv
<1> DEFINE m == row[k].attempt_count + 1
           n == Later(row[k].next_attempt, notBefore[Origin(k)])
<1>1. row[k] \in Row /\ notBefore[Origin(k)] \in Nat
    BY OriginAssumption DEF TypeOK, Origin, Deliveries
<1>2. row' = [row EXCEPT ![k] = ReopenOf(row[k], n, m)]
    BY DEF ReplayDeadLetter, TypeOK, ReopenOf
<1>3. n \in Nat
    BY <1>1 DEF Later, Row
<1>4. m \in Nat
    BY <1>1 DEF Row
<1>5. \A j \in Deliveries : j # k => row'[j] = row[j]
    BY <1>2 DEF TypeOK
<1>6. row'[k] = ReopenOf(row[k], n, m)
    BY <1>2 DEF TypeOK
<1> HIDE DEF m, n
<1>7. /\ ReopenOf(row[k], n, m) \in Row
      /\ ReopenOf(row[k], n, m).state = "pending"
      /\ ReopenOf(row[k], n, m).attempt_count = row[k].attempt_count
      /\ ReopenOf(row[k], n, m).token = row[k].token
      /\ ReopenOf(row[k], n, m).max_attempts = m
    BY <1>1, <1>3, <1>4, RowReopened, Zenon
<1>8. row' \in [Deliveries -> Row]
    BY <1>2, <1>7 DEF TypeOK
<1> QED
    BY <1>5, <1>6, <1>7, <1>8 DEF m

\* The replay of a dead letter keeps the invariant.
LEMMA ReplayKeeps == ASSUME IInv, NEW k \in Deliveries, ReplayDeadLetter(k) PROVE IInv'
<1> USE DEF IInv
<1>1. row[k] \in Row /\ replays[k] \in Nat
    BY DEF TypeOK
<1>4. /\ row'[k] \in Row
      /\ row'[k].state = "pending"
      /\ row'[k].attempt_count = row[k].attempt_count
      /\ row'[k].max_attempts = row[k].attempt_count + 1
      /\ row'[k].token = row[k].token
      /\ \A j \in Deliveries : j # k => row'[j] = row[j]
    BY ReplayRows
<1>5. /\ replays[k] < MaxReplays
      /\ replays' = [replays EXCEPT ![k] = replays[k] + 1]
      /\ row[k].state = "dead_letter"
      /\ UNCHANGED <<destinations, enabled, outbox, attempts, notBefore, claim, accepted>>
    BY DEF ReplayDeadLetter
<1>6. TypeOK'
    BY <1>1, <1>5, ReplayRows DEF TypeOK
<1>7. RowInv'
    <2>1. ASSUME NEW j \in Deliveries
          PROVE  /\ row'[j].attempt_count = row'[j].token
                 /\ row'[j].state = "none" => row'[j].token = 0
                 /\ row'[j].state = "delivering" => row'[j].token # 0
                 /\ replays'[j] <= MaxReplays
                 /\ row'[j].max_attempts <= MaxAttempts + replays'[j]
        <3>1. CASE j = k
            <4>1. replays'[k] = replays[k] + 1
                BY <1>5 DEF TypeOK
            <4>2. row[k].attempt_count <= row[k].max_attempts /\ row[k].max_attempts <= MaxAttempts + replays[k]
                BY DEF WithinBudget, RowInv
            <4>3. row[k].attempt_count \in Nat /\ row[k].max_attempts \in Nat
                BY <1>1 DEF Row
            <4> QED
                BY <1>1, <1>4, <1>5, <3>1, <4>1, <4>2, <4>3, BudgetAssumption DEF RowInv
        <3>2. CASE j # k
            BY <1>4, <1>5, <3>2 DEF RowInv, TypeOK
        <3> QED
            BY <3>1, <3>2
    <2> QED
        BY <2>1 DEF RowInv
<1>8. HolderInv'
    <2>1. \A w \in Workers : claim[w] # Idle => claim[w].key \in Deliveries
        BY DEF TypeOK, Held
    <2> QED
        BY <1>4, <1>5, <2>1 DEF HolderInv
<1>9. LeaseIsTheOpenAttempt'
    BY <1>4, <1>5 DEF LeaseIsTheOpenAttempt
<1>10. WithinBudget'
    <2>1. row[k].attempt_count \in Nat
        BY <1>1 DEF Row
    <2> QED
        BY <1>4, <2>1 DEF WithinBudget
<1>11. DeliveredWasAccepted'
    BY <1>4, <1>5 DEF DeliveredWasAccepted
<1> QED
    BY <1>6, <1>7, <1>8, <1>9, <1>10, <1>11

(* Time changes nothing of a row but its two timers.                        *)
LEMMA TickRows ==
    ASSUME IInv, Tick, NEW k \in Deliveries
    PROVE  /\ row'[k] \in Row
           /\ row'[k].state = row[k].state
           /\ row'[k].attempt_count = row[k].attempt_count
           /\ row'[k].max_attempts = row[k].max_attempts
           /\ row'[k].token = row[k].token
<1>1. row[k] \in Row
    BY DEF IInv, TypeOK
<1>2. row'[k] = [row[k] EXCEPT !.lease = Less(row[k].lease),
                               !.next_attempt = Less(row[k].next_attempt)]
    BY DEF Tick
<1>3. Less(row[k].lease) \in Nat /\ Less(row[k].next_attempt) \in Nat
    BY <1>1 DEF Less, Row
<1> QED
    BY <1>1, <1>2, <1>3 DEF Row

\* The passing of time keeps the invariant.
LEMMA TickKeeps == ASSUME IInv, Tick PROVE IInv'
<1> USE DEF IInv
<1>1. \A k \in Deliveries :
          /\ row'[k] \in Row
          /\ row'[k].state = row[k].state
          /\ row'[k].attempt_count = row[k].attempt_count
          /\ row'[k].max_attempts = row[k].max_attempts
          /\ row'[k].token = row[k].token
    BY TickRows
<1>2. TypeOK'
    <2>1. row' \in [Deliveries -> Row]
        BY <1>1 DEF Tick
    <2>2. notBefore' \in [Origins -> Nat]
        <3> SUFFICES ASSUME NEW o \in Origins PROVE Less(notBefore[o]) \in Nat
            BY DEF Tick
        <3> QED
            BY DEF TypeOK, Less
    <2> QED
        BY <2>1, <2>2 DEF TypeOK, Tick
<1>3. RowInv' /\ WithinBudget'
    BY <1>1 DEF RowInv, WithinBudget, Tick
<1>4. LeaseIsTheOpenAttempt' /\ DeliveredWasAccepted'
    <2>1. UNCHANGED <<attempts, accepted>>
        BY DEF Tick
    <2>2. LeaseIsTheOpenAttempt'
        BY <1>1, <2>1 DEF LeaseIsTheOpenAttempt
    <2>3. DeliveredWasAccepted'
        BY <1>1, <2>1 DEF DeliveredWasAccepted
    <2> QED
        BY <2>2, <2>3
<1>5. HolderInv'
    <2>1. \A w \in Workers : claim[w] # Idle => claim[w].key \in Deliveries
        BY DEF TypeOK, Held
    <2>2. claim' = claim
        BY DEF Tick
    <2> QED
        BY <1>1, <2>1, <2>2 DEF HolderInv
<1> QED
    BY <1>2, <1>3, <1>4, <1>5

\* Every step keeps the invariant.
LEMMA StepIInv == IInv /\ [Next]_vars => IInv'
<1> SUFFICES ASSUME IInv, [Next]_vars PROVE IInv'
    OBVIOUS
<1>1. CASE \E e \in Events : Publish(e)
    BY <1>1, PublishKeeps
<1>2. CASE \E s \in Destinations, on \in BOOLEAN : RegisterDestination(s, on) \/ SetEnabled(s, on)
    BY <1>2, RegisterKeeps, ControlKeeps
<1>3. CASE \E w \in Workers : Claim(w) \/ Receive(w) \/ FinishAny(w) \/ Crash(w)
    BY <1>3, ClaimKeeps, ReceiveKeeps, FinishKeeps, CrashKeeps DEF FinishAny
<1>4. CASE \E k \in Deliveries : ReplayDeadLetter(k)
    BY <1>4, ReplayKeeps
<1>5. CASE Tick
    BY <1>5, TickKeeps
<1>6. CASE UNCHANGED vars
    BY <1>6 DEF vars, IInv, TypeOK, RowInv, HolderInv, LeaseIsTheOpenAttempt,
        WithinBudget, DeliveredWasAccepted, Exists
<1> QED
    BY <1>1, <1>2, <1>3, <1>4, <1>5, <1>6 DEF Next

-----------------------------------------------------------------------------
(* RESULTS                                                                  *)

(* The delivery tables keep their invariant over every interleaving of      *)
(* claims, answers, crashes, replays and the clock.                         *)
THEOREM Invariance == Spec => []IInv
<1> QED
    BY InitIInv, StepIInv, PTL DEF Spec

(* Every variable keeps its type.                                           *)
THEOREM TypeCorrect == Spec => []TypeOK
<1>1. IInv => TypeOK
    BY DEF IInv
<1> QED
    BY <1>1, Invariance, PTL

(* delivery_attempts and webhook_deliveries stay in step: one attempt per   *)
(* fencing token, and the open one is the current lease.                    *)
THEOREM LeaseSafety == Spec => []LeaseIsTheOpenAttempt
<1>1. IInv => LeaseIsTheOpenAttempt
    BY DEF IInv
<1> QED
    BY <1>1, Invariance, PTL

(* No delivery exceeds its attempt budget, and none waits with an empty one.*)
THEOREM BudgetSafety == Spec => []WithinBudget
<1>1. IInv => WithinBudget
    BY DEF IInv
<1> QED
    BY <1>1, Invariance, PTL

(* A delivered row was accepted by its receiver in the attempt that ended   *)
(* it: fencing keeps a late answer from being booked on a newer attempt.    *)
THEOREM DeliveredSafety == Spec => []DeliveredWasAccepted
<1>1. IInv => DeliveredWasAccepted
    BY DEF IInv
<1> QED
    BY <1>1, Invariance, PTL

-----------------------------------------------------------------------------
(* The fan-out: the outbox follows it, the origin's Retry-After is kept, and *)
(* the leases, tokens and retries implement DeliveryPromise.                *)

(* An event and a registered destination always have their delivery, so the *)
(* outbox can be compared with the rows; both must hold for either to last. *)
FanoutInv == IInv /\ OutboxFollowsFanout

-----------------------------------------------------------------------------
(* What each action does to the states of the rows                          *)

(* Rows that were enqueued are pending; no other state changes.             *)
LEMMA EnqueuedStates ==
    ASSUME NEW K, row' = Enqueued(K), NEW k \in Deliveries
    PROVE  row'[k].state = IF k \in K /\ row[k].state = "none" THEN "pending" ELSE row[k].state
    BY DEF Enqueued, NoRow

(* A claim opens no row and settles none but by giving it up.               *)
LEMMA ClaimStates ==
    ASSUME IInv, NEW w \in Workers, Claim(w), NEW k \in Deliveries
    PROVE  \/ row'[k].state = row[k].state
           \/ row[k].state \in Live /\ row'[k].state \in {"delivering", "dead_letter"}
<1>1. row[k] \in Row
    BY DEF IInv, TypeOK
<1>2. Spares(k) \/ GivesUp(k) \/ Leases(k)
    BY ClaimSteps
<1>3. GivesUp(k) => row[k].state \in Live /\ row'[k].state = "dead_letter"
    BY <1>1, GivenUpFields DEF GivesUp
<1>4. Leases(k) => row[k].state \in Live /\ row'[k].state = "delivering"
    BY <1>1, LeasedFields DEF Leases
<1>5. Spares(k) => row'[k].state = row[k].state
    BY DEF Spares
<1> QED
    BY <1>2, <1>3, <1>4, <1>5

(* Who holds a row has made an attempt at it, so the row is there.          *)
LEMMA HeldExists ==
    ASSUME IInv, NEW w \in Workers, claim[w] # Idle
    PROVE  claim[w].key \in Deliveries /\ Exists(claim[w].key)
<1>1. claim[w].key \in Deliveries /\ row[claim[w].key].token \in Nat
    BY DEF IInv, TypeOK, Held, Row
<1>2. claim[w].token \in 1..row[claim[w].key].token
    BY DEF IInv, HolderInv
<1> QED
    BY <1>1, <1>2 DEF IInv, RowInv, Exists

-----------------------------------------------------------------------------
(* The outbox follows the fan-out, action by action                         *)

(* A step that creates no row, delivers none and takes no delivery back     *)
(* leaves the fan-out as it was.                                            *)
LEMMA FanoutKept ==
    ASSUME OutboxFollowsFanout, UNCHANGED <<destinations, outbox>>,
           \A k \in Deliveries :
              /\ row'[k].state = "none" <=> row[k].state = "none"
              /\ row'[k].state = "delivered" <=> row[k].state = "delivered"
    PROVE  OutboxFollowsFanout'
<1>1. \A k \in Deliveries : Exists(k)' <=> k[1] \in destinations' /\ outbox'[k[2]] # "none"
    BY DEF OutboxFollowsFanout, Exists
<1>2. ASSUME NEW e \in Events
      PROVE  {k \in Deliveries : k[2] = e /\ Exists(k)'} = {k \in Deliveries : k[2] = e /\ Exists(k)}
    BY DEF Exists
<1> QED
    BY <1>1, <1>2 DEF OutboxFollowsFanout

\* A published event is fanned out to every destination registered.
LEMMA PublishFanout ==
    ASSUME FanoutInv, NEW e \in Events, Publish(e)
    PROVE  OutboxFollowsFanout'
<1> USE DEF FanoutInv, IInv, OutboxFollowsFanout
<1>1. /\ outbox[e] = "none"
      /\ outbox' = [outbox EXCEPT ![e] = "pending"]
      /\ row' = Enqueued(destinations \X {e})
      /\ destinations' = destinations
    BY DEF Publish
<1>2. /\ outbox'[e] = "pending"
      /\ \A f \in Events : f # e => outbox'[f] = outbox[f]
    BY <1>1 DEF TypeOK
<1>3. ASSUME NEW k \in Deliveries
      PROVE  row'[k].state = IF k[1] \in destinations /\ k[2] = e THEN "pending" ELSE row[k].state
    <2>1. k[2] = e => row[k].state = "none"
        BY <1>1 DEF Exists
    <2>2. k \in destinations \X {e} <=> k[1] \in destinations /\ k[2] = e
        BY DEF Deliveries
    <2> QED
        BY <1>1, <2>1, <2>2, EnqueuedStates
<1>4. ASSUME NEW k \in Deliveries
      PROVE  Exists(k)' <=> k[1] \in destinations' /\ outbox'[k[2]] # "none"
    <2>1. Exists(k) <=> k[1] \in destinations /\ outbox[k[2]] # "none"
        OBVIOUS
    <2>2. k[2] \in Events
        BY DEF Deliveries
    <2>3. CASE k[2] = e
        BY <1>1, <1>2, <1>3, <2>1, <2>3 DEF Exists
    <2>4. CASE k[2] # e
        BY <1>1, <1>2, <1>3, <2>1, <2>2, <2>4 DEF Exists
    <2> QED
        BY <2>3, <2>4
<1>5. ASSUME NEW f \in Events
      PROVE  LET fanout == {k \in Deliveries : k[2] = f /\ Exists(k)'} IN
             outbox'[f] = "acknowledged" <=>
                 fanout # {} /\ \A k \in fanout : row'[k].state = "delivered"
    <2>1. CASE f = e
        <3>1. ASSUME NEW k \in Deliveries, k[2] = e, Exists(k)'
              PROVE  row'[k].state = "pending"
            BY <1>1, <1>3, <1>4, <3>1 DEF Deliveries
        <3> QED
            BY <1>2, <2>1, <3>1
    <2>2. CASE f # e
        <3>1. \A k \in Deliveries : k[2] = f => row'[k].state = row[k].state
            BY <1>3, <2>2
        <3>2. {k \in Deliveries : k[2] = f /\ Exists(k)'} = {k \in Deliveries : k[2] = f /\ Exists(k)}
            BY <3>1 DEF Exists
        <3> QED
            BY <1>2, <2>2, <3>1, <3>2
    <2> QED
        BY <2>1, <2>2
<1> QED
    BY <1>4, <1>5

\* A new destination is offered all the history it asks for.
LEMMA RegisterFanout ==
    ASSUME FanoutInv, NEW s \in Destinations, NEW on \in BOOLEAN, RegisterDestination(s, on)
    PROVE  OutboxFollowsFanout'
<1> USE DEF FanoutInv, OutboxFollowsFanout
<1> DEFINE history == {e \in Events : outbox[e] # "none"}
<1>1. /\ s \notin destinations
      /\ destinations' = destinations \cup {s}
      /\ row' = Enqueued({s} \X history)
      /\ outbox' = [e \in Events |-> IF e \in history THEN "pending" ELSE "none"]
    BY DEF RegisterDestination, EnqueueHistorical
<1>2. ASSUME NEW k \in Deliveries
      PROVE  row'[k].state = IF k[1] = s /\ outbox[k[2]] # "none" THEN "pending" ELSE row[k].state
    <2>1. k[1] = s => row[k].state = "none"
        BY <1>1 DEF Exists
    <2>2. k \in {s} \X history <=> k[1] = s /\ outbox[k[2]] # "none"
        BY DEF Deliveries
    <2> QED
        BY <1>1, <2>1, <2>2, EnqueuedStates
<1>3. ASSUME NEW k \in Deliveries
      PROVE  Exists(k)' <=> k[1] \in destinations' /\ outbox'[k[2]] # "none"
    BY <1>1, <1>2 DEF Exists, Deliveries
<1>4. ASSUME NEW e \in Events
      PROVE  LET fanout == {k \in Deliveries : k[2] = e /\ Exists(k)'} IN
             outbox'[e] = "acknowledged" <=>
                 fanout # {} /\ \A k \in fanout : row'[k].state = "delivered"
    <2>1. outbox'[e] # "acknowledged"
        BY <1>1
    <2>2. CASE outbox[e] # "none"
        <3>1. <<s, e>> \in Deliveries
            BY DEF Deliveries
        <3>2. row'[<<s, e>>].state = "pending" /\ Exists(<<s, e>>)'
            BY <1>2, <2>2, <3>1 DEF Exists
        <3> QED
            BY <2>1, <3>1, <3>2
    <2>3. CASE outbox[e] = "none"
        <3>1. outbox'[e] = "none"
            BY <1>1, <2>3
        <3>2. \A k \in Deliveries : k[2] = e => ~Exists(k)'
            BY <1>3, <3>1
        <3> QED
            BY <2>1, <3>2
    <2> QED
        BY <2>2, <2>3
<1> QED
    BY <1>3, <1>4

(* A delivered answer acknowledges the event exactly when it was the last.  *)
LEMMA FinishFanout ==
    ASSUME FanoutInv, NEW w \in Workers, NEW answer \in Answers, NEW wait \in RetryAfters,
           Finish(w, answer, wait), Owns(claim[w])
    PROVE  OutboxFollowsFanout'
<1> USE DEF FanoutInv, OutboxFollowsFanout
<1> DEFINE c == claim[w]
           k0 == c.key
           verdict == Verdict(c, answer)
<1>1. /\ outbox' = Acknowledged(c, verdict)
      /\ destinations' = destinations
      /\ row[k0].state = "delivering"
    BY DEF Finish, Complete, Owns
<1>2. k0 \in Deliveries /\ Exists(k0)
    BY HeldExists DEF Finish
<1>3. verdict \in {"delivered", "dead_letter", "pending"}
    BY DEF Verdict
<1>4. \A k \in Deliveries : row'[k].state = IF k = k0 THEN verdict ELSE row[k].state
    BY FinishRows
<1>5. outbox \in [Events -> {"none", "pending", "acknowledged"}]
    BY DEF IInv, TypeOK
<1> DEFINE others == {k \in Deliveries : k[2] = k0[2] /\ k # k0 /\ Exists(k)}
           last == verdict = "delivered" /\ \A k \in others : row[k].state = "delivered"
<1>6. outbox' = IF last THEN [outbox EXCEPT ![k0[2]] = "acknowledged"] ELSE outbox
    BY <1>1 DEF Acknowledged
<1>7. k0[2] \in Events /\ outbox[k0[2]] \notin {"none", "acknowledged"}
    BY <1>1, <1>2 DEF Deliveries
<1>8. \A k \in Deliveries : Exists(k)' <=> Exists(k)
    BY <1>1, <1>3, <1>4 DEF Exists
<1>9. \A e \in Events : outbox'[e] # "none" <=> outbox[e] # "none"
    BY <1>5, <1>6, <1>7
<1> HIDE DEF verdict
<1>10. ASSUME NEW e \in Events
       PROVE  LET fanout == {k \in Deliveries : k[2] = e /\ Exists(k)'} IN
              outbox'[e] = "acknowledged" <=>
                  fanout # {} /\ \A k \in fanout : row'[k].state = "delivered"
    <2>1. CASE e # k0[2]
        <3>1. outbox'[e] = outbox[e]
            BY <1>5, <1>6, <2>1
        <3>2. \A k \in Deliveries : k[2] = e => row'[k].state = row[k].state
            BY <1>4, <2>1
        <3> QED
            BY <1>8, <3>1, <3>2
    <2>2. CASE e = k0[2]
        <3>1. outbox'[e] = "acknowledged" <=> last
            BY <1>5, <1>6, <1>7, <2>2
        <3>2. last <=> \A k \in Deliveries : k[2] = e /\ Exists(k)' => row'[k].state = "delivered"
            BY <1>2, <1>4, <1>8, <2>2
        <3> QED
            BY <1>2, <1>8, <2>2, <3>1, <3>2
    <2> QED
        BY <2>1, <2>2
<1> QED
    BY <1>1, <1>2, <1>8, <1>9, <1>10 DEF Deliveries

\* Every step keeps the outbox in step with the fan-out.
LEMMA StepFanout == FanoutInv /\ [Next]_vars => FanoutInv'
<1> SUFFICES ASSUME FanoutInv, [Next]_vars PROVE OutboxFollowsFanout'
    BY StepIInv DEF FanoutInv
<1> USE DEF FanoutInv
<1>1. CASE \E e \in Events : Publish(e)
    BY <1>1, PublishFanout
<1>2. CASE \E s \in Destinations, on \in BOOLEAN : RegisterDestination(s, on)
    BY <1>2, RegisterFanout
<1>3. CASE UNCHANGED <<destinations, outbox, row>>
    BY <1>3, FanoutKept
<1>4. CASE \E w \in Workers : Claim(w)
    <2>1. PICK w \in Workers : Claim(w)
        BY <1>4
    <2>2. \A k \in Deliveries : \/ row'[k].state = row[k].state
                               \/ /\ row[k].state \in Live
                                  /\ row'[k].state \in {"delivering", "dead_letter"}
        BY <2>1, ClaimStates
    <2> QED
        BY <2>1, <2>2, FanoutKept DEF Claim, Live
<1>5. CASE \E w \in Workers : FinishAny(w)
    <2>1. PICK w \in Workers, answer \in Answers, wait \in RetryAfters : Finish(w, answer, wait)
        BY <1>5 DEF FinishAny
    <2>2. CASE Owns(claim[w])
        BY <2>1, <2>2, FinishFanout
    <2>3. CASE ~Owns(claim[w])
        BY <1>3, <2>1, <2>3 DEF Finish, Complete
    <2> QED
        BY <2>2, <2>3
<1>6. CASE \E k \in Deliveries : ReplayDeadLetter(k)
    <2>1. PICK k \in Deliveries : ReplayDeadLetter(k)
        BY <1>6
    <2>2. row[k].state = "dead_letter" /\ UNCHANGED <<destinations, outbox>>
        BY <2>1 DEF ReplayDeadLetter
    <2>3. row'[k].state = "pending" /\ \A j \in Deliveries : j # k => row'[j] = row[j]
        BY <2>1, ReplayRows
    <2> QED
        BY <2>2, <2>3, FanoutKept
<1>7. CASE Tick
    <2>1. \A k \in Deliveries : row'[k].state = row[k].state
        BY <1>7, TickRows
    <2> QED
        BY <1>7, <2>1, FanoutKept DEF Tick
<1> QED
    BY <1>1, <1>2, <1>3, <1>4, <1>5, <1>6, <1>7
    DEF Next, SetEnabled, Receive, Crash, vars

-----------------------------------------------------------------------------
(* RESULTS                                                                  *)

(* The inductive invariant together with the fan-out.                       *)
THEOREM FanoutInvariance == Spec => []FanoutInv
<1>1. Init => FanoutInv
    <2>1. Init => OutboxFollowsFanout
        BY DEF Init, OutboxFollowsFanout, Exists, NoRow
    <2> QED
        BY <2>1, InitIInv DEF FanoutInv
<1> QED
    BY <1>1, StepFanout, PTL DEF Spec

(* Every destination has every event of its monitor, and the outbox row is  *)
(* acknowledged exactly while all of the event's deliveries are delivered.  *)
THEOREM FanoutSafety == Spec => []OutboxFollowsFanout
<1>1. FanoutInv => OutboxFollowsFanout
    BY DEF FanoutInv
<1> QED
    BY <1>1, FanoutInvariance, PTL

\* No step gives a delivery a new lease while its origin's Retry-After lasts, and
\* only the clock shortens one.
LEMMA NotBeforeHeld ==
    ASSUME IInv, [Next]_vars
    PROVE  /\ \A k \in Deliveries :
                 row'[k].token # row[k].token => notBefore[Origin(k)] = 0
           /\ \A o \in Origins : notBefore'[o] < notBefore[o] => Tick
<1>1. \A o \in Origins : notBefore[o] \in Nat
    BY DEF IInv, TypeOK
<1>2. CASE UNCHANGED <<row, notBefore>>
    BY <1>1, <1>2
<1>3. ASSUME NEW K, row' = Enqueued(K), UNCHANGED notBefore
      PROVE  /\ \A k \in Deliveries : row'[k].token = row[k].token
             /\ \A o \in Origins : ~(notBefore'[o] < notBefore[o])
    <2>1. \A k \in Deliveries : row[k].state = "none" => row[k].token = 0
        BY DEF IInv, RowInv
    <2>2. \A k \in Deliveries : row'[k].token = row[k].token
        BY <1>3, <2>1 DEF Enqueued, NoRow
    <2> QED
        BY <1>1, <1>3, <2>2
<1>4. CASE \E w \in Workers : Claim(w)
    <2>1. PICK w \in Workers : Claim(w)
        BY <1>4
    <2>2. UNCHANGED notBefore
        BY <2>1 DEF Claim
    <2>3. ASSUME NEW k \in Deliveries, row'[k].token # row[k].token
          PROVE  notBefore[Origin(k)] = 0
        <3>1. row[k] \in Row
            BY DEF IInv, TypeOK
        <3>2. GivesUp(k) => row'[k].token = row[k].token
            BY <3>1, GivenUpFields DEF GivesUp
        <3> QED
            BY <2>1, <2>3, <3>2, ClaimSteps DEF Spares
    <2> QED
        BY <1>1, <2>2, <2>3
<1>5. CASE \E w \in Workers : FinishAny(w)
    <2>1. PICK w \in Workers, answer \in Answers, wait \in RetryAfters : Finish(w, answer, wait)
        BY <1>5 DEF FinishAny
    <2>2. CASE Owns(claim[w])
        <3>1. \A k \in Deliveries : row'[k].token = row[k].token
            BY <2>1, <2>2, FinishRows
        <3>2. notBefore' = Cooled(claim[w], wait)
            BY <2>1, <2>2 DEF Finish, Complete
        <3>3. \A o \in Origins : ~(notBefore'[o] < notBefore[o])
            BY <1>1, <3>2, TimingAssumption DEF Cooled, Later, IInv, TypeOK
        <3> QED
            BY <3>1, <3>3
    <2>3. CASE ~Owns(claim[w])
        BY <1>2, <2>1, <2>3 DEF Finish, Complete
    <2> QED
        BY <2>2, <2>3
<1>6. CASE \E k \in Deliveries : ReplayDeadLetter(k)
    <2>1. PICK k \in Deliveries : ReplayDeadLetter(k)
        BY <1>6
    <2>2. \A j \in Deliveries : row'[j].token = row[j].token
        BY <2>1, ReplayRows
    <2>3. UNCHANGED notBefore
        BY <2>1 DEF ReplayDeadLetter
    <2> QED
        BY <1>1, <2>2, <2>3
<1>7. CASE Tick
    BY <1>7, TickRows
<1>8. CASE \E e \in Events : Publish(e)
    BY <1>3, <1>8 DEF Publish
<1>9. CASE \E s \in Destinations, on \in BOOLEAN : RegisterDestination(s, on)
    BY <1>3, <1>9 DEF RegisterDestination, EnqueueHistorical
<1> QED
    BY <1>2, <1>4, <1>5, <1>6, <1>7, <1>8, <1>9
    DEF Next, SetEnabled, Receive, Crash, vars

(* No attempt starts inside a Retry-After of its origin, whoever heard it,  *)
(* and only time shortens one.                                              *)
THEOREM RetryAfterSafety == Spec => RetryAfterHonoured
<1>1. IInv /\ [Next]_vars =>
          [/\ \A k \in Deliveries :
                 row'[k].token # row[k].token => notBefore[Origin(k)] = 0
           /\ \A o \in Origins : notBefore'[o] < notBefore[o] => Tick]_vars
    BY NotBeforeHeld
<1> QED
    BY <1>1, Invariance, PTL DEF Spec, RetryAfterHonoured

-----------------------------------------------------------------------------
(* THE HISTORY                                                              *)

\* A worker that holds attempt t of k lets go of it in this step.
ReportedNow(k, t) ==
    \E w \in Workers : /\ claim[w] # Idle /\ claim[w].key = k /\ claim[w].token = t
                       /\ claim'[w] = Idle

\* What a step may do to the evidence of a delivery.
HistoryStep(k) ==
    /\ Len(attempts'[k]) >= Len(attempts[k])
    /\ \A t \in 1..Len(attempts[k]) :
          attempts'[k][t] # attempts[k][t] =>
             /\ attempts[k][t] = "sending" /\ t = row[k].token
             /\ \/ attempts'[k][t] = "lease_expired" /\ row[k].lease = 0
                \/ row[k].lease > 0 /\ ReportedNow(k, t)

\* What a step may do to a delivery that is settled.
SettledStep(k) ==
    /\ row[k].state = "delivered" =>
          row'[k].state = "delivered" /\ row'[k].token = row[k].token
    /\ row[k].state = "dead_letter" /\ row'[k].state # "dead_letter" =>
          row'[k].state = "pending" /\ replays'[k] = replays[k] + 1

\* The evidence is only added to: an attempt that is closed is never rewritten,
\* the open one is closed by the worker that made it, under its lease, or by
\* nobody's answer once the lease is over.  What is delivered is not sent again,
\* and a dead letter comes back by a replay alone.
HistoryIsFinal ==
    [][\A k \in Deliveries : HistoryStep(k) /\ SettledStep(k)]_vars

\* A delivery whose attempts stay and whose state stays or is opened anew.
LEMMA QuietHistory ==
    ASSUME IInv, NEW k \in Deliveries, attempts'[k] = attempts[k],
           row'[k].token = row[k].token,
           \/ row'[k].state = row[k].state
           \/ row[k].state = "none"
           \/ /\ row[k].state = "dead_letter" /\ row'[k].state = "pending"
              /\ replays'[k] = replays[k] + 1
    PROVE  HistoryStep(k) /\ SettledStep(k)
<1>1. Len(attempts[k]) \in Nat
    BY DEF IInv, TypeOK
<1>2. HistoryStep(k)
    BY <1>1 DEF HistoryStep
<1>3. SettledStep(k)
    BY DEF SettledStep
<1> QED
    BY <1>2, <1>3

\* A claim touches a row that is being delivered when its lease is over only.
LEMMA ClaimAfterLease ==
    ASSUME NEW w \in Workers, Claim(w), NEW j \in Deliveries, ~Spares(j)
    PROVE  row[j].state = "delivering" => row[j].lease = 0
<1>1. \A i \in Claimable : row[i].state = "delivering" => row[i].lease = 0
    BY DEF Claimable, Due
<1>2. Exhausted \subseteq Claimable
    BY DEF Exhausted
<1>3. ASSUME NEW k \in Claimable \ Exhausted, NEW dead \in SUBSET Exhausted, ClaimOne(w, k, dead)
      PROVE  j \in Claimable
    BY <1>2, <1>3 DEF ClaimOne, Spares
<1>4. ASSUME ClaimNone(w)
      PROVE  j \in Claimable
    BY <1>2, <1>4 DEF ClaimNone, Spares
<1>5. j \in Claimable
    BY <1>3, <1>4 DEF Claim
<1> QED
    BY <1>1, <1>5

\* A claim closes what a lost lease left open and adds an attempt at the end.
LEMMA ClaimHistory ==
    ASSUME IInv, NEW w \in Workers, Claim(w), NEW k \in Deliveries
    PROVE  HistoryStep(k) /\ SettledStep(k)
<1>1. /\ row[k] \in Row /\ attempts[k] \in Seq(Outcome) /\ row[k].token \in Nat
      /\ Len(attempts[k]) = row[k].token
      /\ row[k].state = "delivering" => row[k].token # 0
    BY DEF IInv, TypeOK, Row, LeaseIsTheOpenAttempt, RowInv
<1>2. CASE Spares(k)
    <2>1. attempts'[k] = attempts[k] /\ row'[k] = row[k]
        BY <1>2 DEF Spares
    <2> QED
        BY <2>1, QuietHistory
<1>3. CASE ~Spares(k)
    <2>1. row[k].state = "delivering" => row[k].lease = 0
        BY <1>3, ClaimAfterLease
    <2>2. GivesUp(k) \/ Leases(k)
        BY <1>3, ClaimSteps
    <2>3. row[k].state \in Live
        BY <2>2 DEF GivesUp, Leases
    <2>4. SettledStep(k)
        BY <2>3 DEF SettledStep, Live
    <2>5. PICK closed : closed = Expired(k)
        OBVIOUS
    <2>6. /\ closed \in Seq(Outcome)
          /\ Len(closed) = Len(attempts[k])
          /\ \A t \in 1..Len(attempts[k]) :
                closed[t] = IF /\ t = row[k].token
                               /\ row[k].state = "delivering"
                               /\ attempts[k][t] = "sending"
                            THEN "lease_expired" ELSE attempts[k][t]
        BY <1>1, <2>5, ExpiredSeq DEF IInv
    <2>7. attempts'[k] = closed \/ attempts'[k] = Append(closed, "sending")
        BY <2>2, <2>5 DEF GivesUp, Leases
    <2>8. /\ Len(attempts'[k]) >= Len(attempts[k])
          /\ \A t \in 1..Len(attempts[k]) : attempts'[k][t] = closed[t]
        <3>1. "sending" \in Outcome
            BY DEF Outcome
        <3>2. CASE attempts'[k] = closed
            BY <1>1, <2>6, <3>2
        <3>3. CASE attempts'[k] = Append(closed, "sending")
            BY <1>1, <2>6, <3>1, <3>3
        <3> QED
            BY <2>7, <3>2, <3>3
    <2>9. HistoryStep(k)
        BY <2>1, <2>6, <2>8 DEF HistoryStep
    <2> QED
        BY <2>4, <2>9
<1> QED
    BY <1>2, <1>3

\* An answer closes the attempt of the worker that brings it, if that is open.
LEMMA FinishHistory ==
    ASSUME IInv, NEW w \in Workers, NEW answer \in Answers, NEW wait \in RetryAfters,
           Finish(w, answer, wait), NEW k \in Deliveries
    PROVE  HistoryStep(k) /\ SettledStep(k)
<1> DEFINE c == claim[w]
<1>1. /\ c \in Held /\ c.key \in Deliveries /\ c # Idle /\ claim'[w] = Idle
    BY DEF Finish, IInv, TypeOK, Held
<1>2. CASE ~Owns(c)
    <2>1. row' = row /\ attempts' = attempts
        BY <1>2 DEF Finish, Complete
    <2> QED
        BY <2>1, QuietHistory
<1>3. CASE Owns(c)
    <2>1. /\ row'[k].state = IF k = c.key THEN Verdict(c, answer) ELSE row[k].state
          /\ row'[k].token = row[k].token
        BY <1>3, FinishRows
    <2>2. PICK outcome :
            attempts' = [attempts EXCEPT ![c.key] = [attempts[c.key] EXCEPT ![c.token] = outcome]]
        BY <1>3 DEF Finish, Complete
    <2>3. attempts \in [Deliveries -> Seq(Outcome)]
        BY DEF IInv, TypeOK
    <2>4. CASE k # c.key
        <3>1. attempts'[k] = attempts[k]
            BY <2>2, <2>3, <2>4
        <3> QED
            BY <2>1, <2>4, <3>1, QuietHistory
    <2>5. CASE k = c.key
        <3>1. /\ row[k].state = "delivering" /\ row[k].token = c.token /\ row[k].lease > 0
            BY <1>3, <2>5 DEF Owns
        <3>2. SettledStep(k)
            BY <3>1 DEF SettledStep
        <3>3. PICK s : s = attempts[k]
            OBVIOUS
        <3>4. s \in Seq(Outcome) /\ Len(s) \in Nat /\ DOMAIN s = 1..Len(s) /\ Len(s) = row[k].token
            BY <2>3, <3>3 DEF IInv, LeaseIsTheOpenAttempt
        <3>5. attempts'[k] = [s EXCEPT ![c.token] = outcome]
            BY <1>1, <2>2, <2>3, <2>5, <3>3
        <3>6. c.token \in 1..Len(s)
            BY <1>1, <2>5, <3>1, <3>4 DEF IInv, HolderInv
        <3>7. /\ Len(attempts'[k]) = Len(s)
              /\ \A t \in 1..Len(s) : t # c.token => attempts'[k][t] = s[t]
            <4>1. DOMAIN attempts'[k] = 1..Len(s)
                BY <3>4, <3>5
            <4>2. Len(attempts'[k]) = Len(s)
                BY <3>4, <4>1
            <4> QED
                BY <3>4, <3>5, <4>2
        <3>8. s[row[k].token] = "sending"
            BY <3>1, <3>3, <3>4, <3>6 DEF IInv, LeaseIsTheOpenAttempt
        <3>9. ReportedNow(k, c.token)
            BY <1>1, <2>5 DEF ReportedNow
        <3> QED
            BY <3>1, <3>2, <3>3, <3>4, <3>7, <3>8, <3>9 DEF HistoryStep
    <2> QED
        BY <2>4, <2>5
<1> QED
    BY <1>2, <1>3

\* Every step leaves the history as it was, or adds to it.
LEMMA StepHistory ==
    ASSUME IInv, Next, NEW k \in Deliveries
    PROVE  HistoryStep(k) /\ SettledStep(k)
<1>1. row[k] \in Row
    BY DEF IInv, TypeOK
<1>2. ASSUME NEW K, row' = Enqueued(K), attempts' = attempts
      PROVE  HistoryStep(k) /\ SettledStep(k)
    <2>1. \/ row'[k] = row[k]
          \/ row[k].state = "none" /\ row'[k].token = 0
        BY <1>2 DEF Enqueued, NoRow
    <2>2. row[k].state = "none" => row[k].token = 0
        BY DEF IInv, RowInv
    <2> QED
        BY <1>2, <2>1, <2>2, QuietHistory
<1>3. CASE row' = row /\ attempts' = attempts
    BY <1>3, QuietHistory
<1>4. CASE \E e \in Events : Publish(e)
    BY <1>2, <1>4 DEF Publish
<1>5. CASE \E s \in Destinations, on \in BOOLEAN : RegisterDestination(s, on)
    BY <1>2, <1>5 DEF RegisterDestination, EnqueueHistorical
<1>6. CASE \E w \in Workers : Claim(w)
    BY <1>6, ClaimHistory
<1>7. CASE \E w \in Workers : FinishAny(w)
    BY <1>7, FinishHistory DEF FinishAny
<1>8. CASE \E j \in Deliveries : ReplayDeadLetter(j)
    <2>1. PICK j \in Deliveries : ReplayDeadLetter(j)
        BY <1>8
    <2>2. /\ row'[j].state = "pending" /\ row'[j].token = row[j].token
          /\ \A i \in Deliveries : i # j => row'[i] = row[i]
        BY <2>1, ReplayRows
    <2>3. /\ attempts' = attempts /\ row[j].state = "dead_letter"
          /\ replays'[j] = replays[j] + 1
        BY <2>1 DEF ReplayDeadLetter, IInv, TypeOK
    <2>4. CASE j = k
        BY <2>2, <2>3, <2>4, QuietHistory
    <2>5. CASE j # k
        BY <2>2, <2>3, <2>5, QuietHistory
    <2> QED
        BY <2>4, <2>5
<1>9. CASE Tick
    <2>1. row'[k].state = row[k].state /\ row'[k].token = row[k].token
        BY <1>9, TickRows
    <2>2. attempts' = attempts
        BY <1>9 DEF Tick
    <2> QED
        BY <2>1, <2>2, QuietHistory
<1> QED
    BY <1>3, <1>4, <1>5, <1>6, <1>7, <1>8, <1>9 DEF Next, SetEnabled, Receive, Crash

(* delivery_attempts is evidence: what is closed is never rewritten, and    *)
(* the open attempt is closed by its own worker under its lease or by the   *)
(* next claim; a delivered row is final, a dead one but for replays.        *)
THEOREM HistorySafety == Spec => HistoryIsFinal
<1>1. IInv /\ [Next]_vars => [\A k \in Deliveries : HistoryStep(k) /\ SettledStep(k)]_vars
    BY StepHistory
<1> QED
    BY <1>1, Invariance, PTL DEF Spec, HistoryIsFinal

-----------------------------------------------------------------------------
(* WHAT REACHES THE RECEIVERS                                               *)

\* No two workers hold the same attempt, so no two answers are given for one,
\* however leases run out under slow workers.
OneWorkerPerAttempt ==
    \A w, v \in Workers :
        /\ claim[w] # Idle /\ claim[v] # Idle
        /\ claim[w].key = claim[v].key /\ claim[w].token = claim[v].token
        => w = v

\* A receiver takes POSTs of attempts that were made, under their tokens.
PostsAreAttempts == \A k \in Deliveries : accepted[k] \subseteq 1..row[k].token

\* A receiver takes no delivery more often than the destination's budget says,
\* but for one POST a replay: the duplicates of at-least-once are bounded.
PostsWithinBudget == \A k \in Deliveries : accepted[k] \subseteq 1..(MaxAttempts + replays[k])

PostInv == OneWorkerPerAttempt /\ PostsAreAttempts

\* A step that gives no worker an attempt and takes none off the history.
LEMMA SameHolders ==
    ASSUME IInv, PostInv,
           \A w \in Workers : claim'[w] = claim[w] \/ claim'[w] = Idle,
           \A k \in Deliveries : row'[k].token \in Nat /\ row'[k].token >= row[k].token,
           accepted' = accepted
    PROVE  PostInv'
<1>1. \A k \in Deliveries : row[k].token \in Nat
    BY DEF IInv, TypeOK, Row
<1>2. OneWorkerPerAttempt'
    BY DEF PostInv, OneWorkerPerAttempt
<1>3. ASSUME NEW k \in Deliveries PROVE accepted'[k] \subseteq 1..row'[k].token
    BY <1>1 DEF PostInv, PostsAreAttempts
<1>4. PostsAreAttempts'
    BY <1>3 DEF PostsAreAttempts
<1> QED
    BY <1>2, <1>4 DEF PostInv

\* A claim hands out a token that no worker has held before.
LEMMA ClaimPosts ==
    ASSUME IInv, PostInv, NEW w \in Workers, Claim(w)
    PROVE  PostInv'
<1>1. /\ accepted' = accepted
      /\ \A k \in Deliveries : row[k] \in Row /\ row[k].token \in Nat
    BY DEF Claim, IInv, TypeOK, Row
<1>2. \A k \in Deliveries : row'[k].token \in Nat /\ row'[k].token >= row[k].token
    <2> SUFFICES ASSUME NEW k \in Deliveries
                 PROVE  row'[k].token \in Nat /\ row'[k].token >= row[k].token
        OBVIOUS
    <2>1. CASE Spares(k)
        BY <1>1, <2>1 DEF Spares
    <2>2. CASE GivesUp(k)
        BY <1>1, <2>2, GivenUpFields DEF GivesUp
    <2>3. CASE Leases(k)
        BY <1>1, <2>3, LeasedFields DEF Leases
    <2> QED
        BY <2>1, <2>2, <2>3, ClaimSteps
<1>3. CASE ClaimNone(w)
    <2>1. claim' = claim
        BY <1>3 DEF ClaimNone
    <2> QED
        BY <1>1, <1>2, <2>1, SameHolders
<1>4. ASSUME NEW k \in Claimable \ Exhausted, NEW dead \in SUBSET Exhausted, ClaimOne(w, k, dead)
      PROVE  PostInv'
    <2>1. k \in Deliveries
        BY DEF Claimable
    <2>2. claim \in [Workers -> Held \cup {Idle}]
        BY DEF IInv, TypeOK
    <2>3. /\ claim'[w].key = k /\ claim'[w].token = row[k].token + 1
          /\ \A v \in Workers : v # w => claim'[v] = claim[v]
        BY <1>4, <2>2 DEF ClaimOne
    <2>4. \A v \in Workers : claim[v] # Idle /\ claim[v].key = k => claim[v].token <= row[k].token
        BY <1>1, <2>1 DEF IInv, HolderInv
    <2>5. OneWorkerPerAttempt'
        <3> SUFFICES ASSUME NEW u \in Workers, NEW v \in Workers,
                            claim'[u] # Idle, claim'[v] # Idle,
                            claim'[u].key = claim'[v].key, claim'[u].token = claim'[v].token
                     PROVE  u = v
            BY DEF OneWorkerPerAttempt
        <3>1. CASE u # w /\ v # w
            BY <2>3, <3>1 DEF PostInv, OneWorkerPerAttempt
        <3>2. CASE u = w /\ v # w
            <4>1. claim[v] # Idle /\ claim[v].key = k /\ claim[v].token = row[k].token + 1
                BY <2>3, <3>2
            <4> QED
                BY <1>1, <2>1, <2>4, <4>1
        <3>3. CASE u # w /\ v = w
            <4>1. claim[u] # Idle /\ claim[u].key = k /\ claim[u].token = row[k].token + 1
                BY <2>3, <3>3
            <4> QED
                BY <1>1, <2>1, <2>4, <4>1
        <3> QED
            BY <3>1, <3>2, <3>3
    <2>6. ASSUME NEW j \in Deliveries PROVE accepted'[j] \subseteq 1..row'[j].token
        BY <1>1, <1>2 DEF PostInv, PostsAreAttempts
    <2>7. PostsAreAttempts'
        BY <2>6 DEF PostsAreAttempts
    <2> QED
        BY <2>5, <2>7 DEF PostInv
<1> QED
    BY <1>3, <1>4 DEF Claim

\* A POST that is taken is of an attempt that was made.
LEMMA ReceivePosts ==
    ASSUME IInv, PostInv, NEW w \in Workers, Receive(w)
    PROVE  PostInv'
<1>1. /\ row' = row /\ claim' = claim /\ claim[w] # Idle
      /\ accepted' = [accepted EXCEPT ![claim[w].key] = @ \cup {claim[w].token}]
    BY DEF Receive
<1>2. /\ claim[w].token \in 1..row[claim[w].key].token
      /\ accepted \in [Deliveries -> SUBSET Nat]
    BY <1>1 DEF IInv, HolderInv, TypeOK
<1>3. ASSUME NEW k \in Deliveries PROVE accepted'[k] \subseteq 1..row'[k].token
    BY <1>1, <1>2 DEF PostInv, PostsAreAttempts
<1>4. OneWorkerPerAttempt'
    BY <1>1 DEF PostInv, OneWorkerPerAttempt
<1>5. PostsAreAttempts'
    BY <1>3 DEF PostsAreAttempts
<1> QED
    BY <1>4, <1>5 DEF PostInv

\* Every step keeps holders apart and posts within the attempts made.
LEMMA StepPosts == IInv /\ PostInv /\ [Next]_vars => PostInv'
<1> SUFFICES ASSUME IInv, PostInv, [Next]_vars PROVE PostInv'
    OBVIOUS
<1>1. \A k \in Deliveries : row[k].token \in Nat
    BY DEF IInv, TypeOK, Row
<1>2. ASSUME NEW K, row' = Enqueued(K), claim' = claim, accepted' = accepted
      PROVE  PostInv'
    <2>1. \A k \in Deliveries : row[k].state = "none" => row[k].token = 0
        BY DEF IInv, RowInv
    <2>2. \A k \in Deliveries : row'[k].token = row[k].token
        BY <1>2, <2>1 DEF Enqueued, NoRow
    <2> QED
        BY <1>1, <1>2, <2>2, SameHolders
<1>3. CASE row' = row /\ claim' = claim /\ accepted' = accepted
    BY <1>1, <1>3, SameHolders
<1>4. CASE \E e \in Events : Publish(e)
    BY <1>2, <1>4 DEF Publish
<1>5. CASE \E s \in Destinations, on \in BOOLEAN : RegisterDestination(s, on)
    BY <1>2, <1>5 DEF RegisterDestination, EnqueueHistorical
<1>6. CASE \E w \in Workers : Claim(w)
    BY <1>6, ClaimPosts
<1>7. CASE \E w \in Workers : Receive(w)
    BY <1>7, ReceivePosts
<1>8. CASE \E w \in Workers : FinishAny(w)
    <2>1. PICK w \in Workers, answer \in Answers, wait \in RetryAfters : Finish(w, answer, wait)
        BY <1>8 DEF FinishAny
    <2>2. \A k \in Deliveries : row'[k].token = row[k].token
        <3>1. CASE Owns(claim[w])
            BY <2>1, <3>1, FinishRows
        <3>2. CASE ~Owns(claim[w])
            BY <2>1, <3>2 DEF Finish, Complete
        <3> QED
            BY <3>1, <3>2
    <2>3. claim' = [claim EXCEPT ![w] = Idle] /\ accepted' = accepted
        BY <2>1 DEF Finish
    <2>4. \A v \in Workers : claim'[v] = claim[v] \/ claim'[v] = Idle
        BY <2>3 DEF IInv, TypeOK
    <2> QED
        BY <1>1, <2>2, <2>3, <2>4, SameHolders
<1>9. CASE \E w \in Workers : Crash(w)
    <2>1. PICK w \in Workers : Crash(w)
        BY <1>9
    <2>2. claim' = [claim EXCEPT ![w] = Idle] /\ accepted' = accepted /\ row' = row
        BY <2>1 DEF Crash
    <2>3. \A v \in Workers : claim'[v] = claim[v] \/ claim'[v] = Idle
        BY <2>2 DEF IInv, TypeOK
    <2> QED
        BY <1>1, <2>2, <2>3, SameHolders
<1>10. CASE \E k \in Deliveries : ReplayDeadLetter(k)
    <2>1. PICK k \in Deliveries : ReplayDeadLetter(k)
        BY <1>10
    <2>2. \A j \in Deliveries : row'[j].token = row[j].token
        BY <2>1, ReplayRows
    <2>3. claim' = claim /\ accepted' = accepted
        BY <2>1 DEF ReplayDeadLetter
    <2> QED
        BY <1>1, <2>2, <2>3, SameHolders
<1>11. CASE Tick
    <2>1. \A k \in Deliveries : row'[k].token = row[k].token
        BY <1>11, TickRows
    <2>2. claim' = claim /\ accepted' = accepted
        BY <1>11 DEF Tick
    <2> QED
        BY <1>1, <2>1, <2>2, SameHolders
<1> QED
    BY <1>3, <1>4, <1>5, <1>6, <1>7, <1>8, <1>9, <1>10, <1>11 DEF Next, SetEnabled, vars

\* The rows' invariant, and what was posted stays within it.
THEOREM PostInvariance == Spec => [](IInv /\ PostInv)
<1>1. Init => IInv /\ PostInv
    <2> SUFFICES ASSUME Init PROVE PostInv
        BY InitIInv
    <2> QED
        BY DEF Init, PostInv, OneWorkerPerAttempt, PostsAreAttempts
<1>2. IInv /\ PostInv /\ [Next]_vars => IInv' /\ PostInv'
    BY StepIInv, StepPosts
<1> QED
    BY <1>1, <1>2, PTL DEF Spec

(* Fencing: an attempt has one worker, whatever leases run out and whoever   *)
(* takes over.                                                              *)
THEOREM HolderSafety == Spec => []OneWorkerPerAttempt
<1>1. IInv /\ PostInv => OneWorkerPerAttempt
    BY DEF PostInv
<1> QED
    BY <1>1, PostInvariance, PTL

(* A receiver sees a delivery at most as often as its budget says, and once  *)
(* more for each replay, whatever crashes and late answers do.              *)
THEOREM PostSafety == Spec => []PostsWithinBudget
<1>1. ASSUME IInv, PostInv PROVE PostsWithinBudget
    <2> SUFFICES ASSUME NEW k \in Deliveries
                 PROVE  accepted[k] \subseteq 1..(MaxAttempts + replays[k])
        BY DEF PostsWithinBudget
    <2>1. /\ row[k].token \in Nat /\ row[k].max_attempts \in Nat /\ replays[k] \in Nat
          /\ MaxAttempts \in Nat
        BY <1>1, BudgetAssumption DEF IInv, TypeOK, Row
    <2>2. row[k].token <= MaxAttempts + replays[k]
        BY <1>1, <2>1 DEF IInv, RowInv, WithinBudget, Row, TypeOK
    <2>3. accepted[k] \subseteq 1..row[k].token
        BY <1>1 DEF PostInv, PostsAreAttempts
    <2> QED
        BY <2>1, <2>2, <2>3
<1> QED
    BY <1>1, PostInvariance, PTL

-----------------------------------------------------------------------------
(* THE REFINEMENT                                                           *)

(* What the mapping makes of the state of a row: one promised state each,   *)
(* but both states of a live row are open.                                  *)
States == {"none"} \cup Live \cup Settled

Shown(s) ==
    CASE s = "none" -> "none"
      [] s \in Live -> "open"
      [] s = "delivered" -> "delivered"
      [] s = "dead_letter" -> "dead"

\* How the rows' states map to the promise's.
LEMMA ShownState ==
    ASSUME NEW s \in States
    PROVE  /\ Shown(s) = "none" <=> s = "none"
           /\ Shown(s) = "open" <=> s \in Live
           /\ Shown(s) = "delivered" <=> s = "delivered"
           /\ Shown(s) = "dead" <=> s = "dead_letter"
<1>1. CASE s = "none"
    <2>1. Shown(s) = "none"
        BY <1>1, Zenon DEF Shown, Live
    <2> QED
        BY <1>1, <2>1 DEF Live
<1>2. CASE s \in Live
    <2>1. Shown(s) = "open"
        BY <1>2, Zenon DEF Shown, Live
    <2> QED
        BY <1>2, <2>1 DEF Live
<1>3. CASE s = "delivered"
    <2>1. Shown(s) = "delivered"
        BY <1>3, Zenon DEF Shown, Live
    <2> QED
        BY <1>3, <2>1 DEF Live
<1>4. CASE s = "dead_letter"
    <2>1. Shown(s) = "dead"
        BY <1>4, Zenon DEF Shown, Live
    <2> QED
        BY <1>4, <2>1 DEF Live
<1> QED
    BY <1>1, <1>2, <1>3, <1>4 DEF States, Settled

\* What the promise sees of a row before and after a step.
LEMMA Mapped ==
    ASSUME IInv, IInv', NEW k \in Deliveries
    PROVE  /\ row[k].state \in States /\ row'[k].state \in States
           /\ PromisedState(k) = Shown(row[k].state)
           /\ PromisedState(k)' = Shown(row'[k].state)
<1>1. row[k].state \in States /\ row'[k].state \in States
    BY DEF IInv, TypeOK, Row, States
<1>2. PromisedState(k) = Shown(row[k].state) /\ PromisedState(k)' = Shown(row'[k].state)
    BY Zenon DEF PromisedState, Shown
<1> QED
    BY <1>1, <1>2

(* A step of the rows alone that shows as it did is a stutter.              *)
LEMMA Unseen ==
    ASSUME IInv, IInv', UNCHANGED <<outbox, accepted>>,
           \A k \in Deliveries : Shown(row'[k].state) = Shown(row[k].state)
    PROVE  UNCHANGED Promise!vars
<1>1. \A k \in Deliveries : PromisedState(k)' = PromisedState(k)
    BY Mapped
<1> QED
    BY <1>1 DEF Promise!vars

(* Rows that show as open where there was none before are an Offer.         *)
LEMMA Offered ==
    ASSUME IInv, IInv', NEW K \in SUBSET Deliveries, UNCHANGED accepted,
           \A k \in Deliveries :
              IF k \in K THEN row[k].state = "none" /\ row'[k].state = "pending"
                         ELSE row'[k].state = row[k].state,
           \A e \in Events : outbox'[e] = "acknowledged" <=>
                                outbox[e] = "acknowledged" /\ \A k \in K : k[2] # e
    PROVE  Promise!Offer(K)
<1>1. \A k \in K : PromisedState(k) = "none"
    BY Mapped, ShownState
<1>2. \A k \in Deliveries : PromisedState(k)' = IF k \in K THEN "open" ELSE PromisedState(k)
    BY Mapped, ShownState DEF Live
<1> QED
    BY <1>1, <1>2 DEF Promise!Offer, Promise!Deliveries, Deliveries

\* Rows that only died are deliveries the promise gives up.
LEMMA GaveUp ==
    ASSUME IInv, IInv', NEW K \in SUBSET Deliveries, UNCHANGED <<outbox, accepted>>,
           \A k \in Deliveries :
              IF k \in K THEN row[k].state \in Live /\ row'[k].state = "dead_letter"
                         ELSE Shown(row'[k].state) = Shown(row[k].state)
    PROVE  Promise!GiveUp(K)
<1>1. \A k \in K : PromisedState(k) = "open"
    BY Mapped, ShownState
<1>2. \A k \in Deliveries : PromisedState(k)' = IF k \in K THEN "dead" ELSE PromisedState(k)
    BY Mapped, ShownState
<1> QED
    BY <1>1, <1>2 DEF Promise!GiveUp, Promise!Deliveries, Deliveries

\* Publishing is an offer of the promise.
LEMMA PublishOffers ==
    ASSUME FanoutInv, IInv', NEW e \in Events, Publish(e)
    PROVE  \E K \in SUBSET Deliveries : Promise!Offer(K)
<1> DEFINE K == destinations \X {e}
<1>1. K \in SUBSET Deliveries /\ outbox[e] = "none" /\ UNCHANGED accepted
    BY DEF FanoutInv, IInv, TypeOK, Deliveries, Publish
<1>2. \A k \in Deliveries : k[2] = e => row[k].state = "none"
    BY <1>1 DEF FanoutInv, OutboxFollowsFanout, Exists
<1>3. \A k \in Deliveries : IF k \in K THEN row[k].state = "none" /\ row'[k].state = "pending"
                                       ELSE row'[k].state = row[k].state
    BY <1>2, EnqueuedStates DEF Publish
<1>4. ASSUME NEW f \in Events
      PROVE  outbox'[f] = "acknowledged" <=> outbox[f] = "acknowledged" /\ \A k \in K : k[2] # f
    BY <1>1 DEF FanoutInv, IInv, TypeOK, Publish
<1> HIDE DEF K
<1> QED
    BY <1>1, <1>3, <1>4, Offered DEF FanoutInv

\* So is the registration of a destination.
LEMMA RegisterOffers ==
    ASSUME FanoutInv, IInv', NEW s \in Destinations, NEW on \in BOOLEAN, RegisterDestination(s, on)
    PROVE  \E K \in SUBSET Deliveries : Promise!Offer(K)
<1> DEFINE history == {e \in Events : outbox[e] # "none"}
           K == {s} \X history
<1>1. K \in SUBSET Deliveries /\ s \notin destinations /\ UNCHANGED accepted
    BY DEF Deliveries, RegisterDestination, EnqueueHistorical
<1>2. \A k \in Deliveries : k[1] = s => row[k].state = "none"
    BY <1>1 DEF FanoutInv, OutboxFollowsFanout, Exists
<1>3. \A k \in Deliveries : IF k \in K THEN row[k].state = "none" /\ row'[k].state = "pending"
                                       ELSE row'[k].state = row[k].state
    BY <1>2, EnqueuedStates DEF RegisterDestination, EnqueueHistorical
<1>4. ASSUME NEW e \in Events
      PROVE  outbox'[e] = "acknowledged" <=> outbox[e] = "acknowledged" /\ \A k \in K : k[2] # e
    <2>1. outbox'[e] # "acknowledged"
        BY DEF RegisterDestination, EnqueueHistorical
    <2>2. outbox[e] = "acknowledged" => <<s, e>> \in K
        OBVIOUS
    <2> QED
        BY <2>1, <2>2
<1> HIDE DEF K
<1> QED
    BY <1>1, <1>3, <1>4, Offered DEF FanoutInv

(* A claim gives up the exhausted rows it met.                              *)
LEMMA ClaimGivesUp ==
    ASSUME IInv, IInv', NEW w \in Workers, Claim(w)
    PROVE  \E K \in SUBSET Deliveries : Promise!GiveUp(K)
<1> DEFINE K == {k \in Deliveries : row[k].state \in Live /\ row'[k].state = "dead_letter"}
<1>1. ASSUME NEW k \in Deliveries, k \notin K
      PROVE  Shown(row'[k].state) = Shown(row[k].state)
    <2>1. row[k].state \in States /\ row'[k].state \in States
        BY Mapped
    <2>2. \/ row'[k].state = row[k].state
          \/ row[k].state \in Live /\ row'[k].state = "delivering"
        BY <1>1, ClaimStates
    <2> QED
        BY <2>1, <2>2, ShownState DEF Live
<1>2. UNCHANGED <<outbox, accepted>>
    BY DEF Claim
<1> QED
    BY <1>1, <1>2, GaveUp

\* A receiver that accepts is heard.
LEMMA ReceiveHears ==
    ASSUME IInv, IInv', NEW w \in Workers, Receive(w)
    PROVE  \E k \in Deliveries : Promise!Hear(k)
<1> DEFINE k0 == claim[w].key
<1>1. k0 \in Deliveries /\ row[k0].state # "none"
    BY HeldExists DEF Receive, Exists
<1>2. PromisedState(k0) # "none"
    BY <1>1, Mapped, ShownState
<1>3. /\ UNCHANGED <<outbox, row>>
      /\ accepted' = [accepted EXCEPT ![k0] = @ \cup {claim[w].token}]
    BY DEF Receive
<1>4. {k \in Deliveries : accepted'[k] # {}} = {k \in Deliveries : accepted[k] # {}} \cup {k0}
    <2>1. accepted'[k0] # {} /\ \A k \in Deliveries : k # k0 => accepted'[k] = accepted[k]
        BY <1>1, <1>3 DEF IInv, TypeOK
    <2> HIDE DEF k0
    <2> QED
        BY <1>1, <2>1
<1>5. \A k \in Deliveries : PromisedState(k)' = PromisedState(k)
    BY <1>3, Mapped
<1> QED
    BY <1>1, <1>2, <1>3, <1>4, <1>5 DEF Promise!Hear, Promise!Deliveries, Deliveries

(* An answer that counts delivers, gives up or leaves open.                 *)
LEMMA FinishDelivers ==
    ASSUME FanoutInv, IInv', NEW w \in Workers, NEW answer \in Answers, NEW wait \in RetryAfters,
           Finish(w, answer, wait), Owns(claim[w]), Verdict(claim[w], answer) = "delivered"
    PROVE  \E k \in Deliveries : Promise!Deliver(k)
<1> USE DEF FanoutInv
<1> DEFINE c == claim[w]
           k0 == c.key
           others == {k \in Deliveries : k[2] = k0[2] /\ k # k0 /\ Exists(k)}
<1>1. /\ outbox' = Acknowledged(c, "delivered")
      /\ row[k0].state = "delivering"
      /\ UNCHANGED accepted
    BY DEF Finish, Complete, Owns
<1>2. k0 \in Deliveries
    BY HeldExists DEF Finish
<1>3. \A k \in Deliveries : row'[k].state = IF k = k0 THEN "delivered" ELSE row[k].state
    BY FinishRows
<1>4. accepted[k0] # {}
    BY DEF Finish, Verdict, Possible, Answers
<1>5. PromisedState(k0) = "open"
    BY <1>1, <1>2, Mapped, ShownState DEF Live
<1>6. \A k \in Deliveries : PromisedState(k)' = IF k = k0 THEN "delivered" ELSE PromisedState(k)
    BY <1>3, Mapped, ShownState
<1>7. outbox' = IF \A k \in others : row[k].state = "delivered"
                THEN [outbox EXCEPT ![k0[2]] = "acknowledged"] ELSE outbox
    BY <1>1 DEF Acknowledged
<1>8. others = {k \in Deliveries : k[2] = k0[2] /\ PromisedState(k) # "none"} \ {k0}
    BY Mapped, ShownState DEF Exists
<1>9. (\A k \in others : row[k].state = "delivered")
        <=> \A k \in others : PromisedState(k) = "delivered"
    BY Mapped, ShownState
<1>10. {e \in Events : outbox'[e] = "acknowledged"} =
          IF \A k \in others : PromisedState(k) = "delivered"
          THEN {e \in Events : outbox[e] = "acknowledged"} \cup {k0[2]}
          ELSE {e \in Events : outbox[e] = "acknowledged"}
    <2>1. k0[2] \in Events /\ outbox \in [Events -> {"none", "pending", "acknowledged"}]
        BY <1>2 DEF IInv, TypeOK, Deliveries
    <2> HIDE DEF others
    <2> QED
        BY <1>7, <1>9, <2>1
<1> DEFINE acked == {e \in Events : outbox[e] = "acknowledged"}
           fanout == {k \in Deliveries : k[2] = k0[2] /\
                         [j \in Deliveries |-> PromisedState(j)][k] # "none"}
<1>11. fanout \ {k0} = others
    BY <1>8
<1>12. acked' = IF \A j \in fanout \ {k0} : [k \in Deliveries |-> PromisedState(k)][j] = "delivered"
                THEN acked \cup {k0[2]} ELSE acked
    BY <1>10, <1>11
<1>13. [k \in Deliveries |-> PromisedState(k)]' =
          [[k \in Deliveries |-> PromisedState(k)] EXCEPT ![k0] = "delivered"]
    BY <1>6
<1>14. k0 \in {k \in Deliveries : accepted[k] # {}}
    BY <1>2, <1>4
<1>15. {k \in Deliveries : accepted[k] # {}}' = {k \in Deliveries : accepted[k] # {}}
    BY <1>1
<1> HIDE DEF others
<1> QED
    BY <1>2, <1>5, <1>12, <1>13, <1>14, <1>15
    DEF Promise!Deliver, Promise!Fanout, Promise!Deliveries, Deliveries

\* The record of an answer is a delivery, a surrender or a stutter of the
\* promise.
LEMMA FinishMaps ==
    ASSUME FanoutInv, IInv', NEW w \in Workers, FinishAny(w)
    PROVE  [Promise!Next]_Promise!vars
<1> USE DEF FanoutInv
<1>1. PICK answer \in Answers, wait \in RetryAfters : Finish(w, answer, wait)
    BY DEF FinishAny
<1> DEFINE k0 == claim[w].key
           verdict == Verdict(claim[w], answer)
<1>2. verdict \in {"delivered", "dead_letter", "pending"}
    BY DEF Verdict
<1>3. k0 \in Deliveries /\ UNCHANGED accepted
    BY <1>1, HeldExists DEF Finish
<1>4. CASE ~Owns(claim[w])
    BY <1>1, <1>3, <1>4, Unseen DEF Finish, Complete
<1>5. CASE Owns(claim[w]) /\ verdict = "delivered"
    BY <1>1, <1>3, <1>5, FinishDelivers DEF Promise!Next, Promise!Deliveries, Deliveries
<1>6. CASE Owns(claim[w]) /\ verdict # "delivered"
    <2>1. UNCHANGED outbox /\ row[k0].state = "delivering"
        BY <1>1, <1>6 DEF Finish, Complete, Owns, Acknowledged
    <2>2. \A k \in Deliveries : row'[k].state = IF k = k0 THEN verdict ELSE row[k].state
        BY <1>1, <1>6, FinishRows
    <2> HIDE DEF verdict
    <2>3. CASE verdict = "dead_letter"
        <3>1. Promise!GiveUp({k0})
            BY <1>3, <2>1, <2>2, <2>3, GaveUp DEF Live
        <3> QED
            BY <1>3, <3>1 DEF Promise!Next, Promise!Deliveries, Deliveries
    <2>4. CASE verdict = "pending"
        <3>1. Shown("pending") = Shown("delivering")
            BY ShownState DEF States, Live
        <3> QED
            BY <1>3, <2>1, <2>2, <2>4, <3>1, Unseen
    <2> QED
        BY <1>2, <1>6, <2>3, <2>4 DEF verdict
<1> QED
    BY <1>4, <1>5, <1>6

\* A replay reopens what the promise had given up.
LEMMA ReplayReopens ==
    ASSUME IInv, IInv', NEW k \in Deliveries, ReplayDeadLetter(k)
    PROVE  Promise!Reopen(k)
<1>1. row[k].state = "dead_letter" /\ UNCHANGED <<outbox, accepted>>
    BY DEF ReplayDeadLetter
<1>2. row'[k].state = "pending" /\ \A j \in Deliveries : j # k => row'[j] = row[j]
    BY ReplayRows
<1>3. PromisedState(k) = "dead"
    BY <1>1, Mapped, ShownState
<1>4. \A j \in Deliveries : PromisedState(j)' = IF j = k THEN "open" ELSE PromisedState(j)
    BY <1>2, Mapped, ShownState DEF Live
<1> QED
    BY <1>1, <1>3, <1>4 DEF Promise!Reopen, Promise!Deliveries, Deliveries

\* Every step maps to a step of the promise or to a stutter.
LEMMA StepMaps ==
    ASSUME FanoutInv, IInv', [Next]_vars
    PROVE  [Promise!Next]_Promise!vars
<1> USE DEF FanoutInv
<1>1. CASE UNCHANGED <<outbox, row, accepted>>
    BY <1>1, Unseen
<1>2. CASE \E e \in Events : Publish(e)
    BY <1>2, PublishOffers DEF Promise!Next, Promise!Deliveries, Deliveries
<1>3. CASE \E s \in Destinations, on \in BOOLEAN : RegisterDestination(s, on)
    BY <1>3, RegisterOffers DEF Promise!Next, Promise!Deliveries, Deliveries
<1>4. CASE \E w \in Workers : Claim(w)
    BY <1>4, ClaimGivesUp DEF Promise!Next, Promise!Deliveries, Deliveries
<1>5. CASE \E w \in Workers : Receive(w)
    BY <1>5, ReceiveHears DEF Promise!Next, Promise!Deliveries, Deliveries
<1>6. CASE \E w \in Workers : FinishAny(w)
    BY <1>6, FinishMaps
<1>7. CASE \E k \in Deliveries : ReplayDeadLetter(k)
    BY <1>7, ReplayReopens DEF Promise!Next, Promise!Deliveries, Deliveries
<1>8. CASE Tick
    BY <1>8, TickRows, Unseen DEF Tick
<1> QED
    BY <1>1, <1>2, <1>3, <1>4, <1>5, <1>6, <1>7, <1>8
    DEF Next, SetEnabled, Crash, vars

\* An empty outbox maps to the promise's initial state.
LEMMA InitMaps == Init => Promise!Init
<1> SUFFICES ASSUME Init PROVE Promise!Init
    OBVIOUS
<1>1. \A k \in Deliveries : row[k].state = "none" /\ accepted[k] = {}
    BY DEF Init, NoRow
<1>2. \A k \in Deliveries : PromisedState(k) = "none"
    BY <1>1, Zenon DEF PromisedState, Live
<1>3. {e \in Events : outbox[e] = "acknowledged"} = {}
    BY DEF Init
<1> QED
    BY <1>1, <1>2, <1>3 DEF Promise!Init, Promise!Deliveries, Deliveries

(* The durable deliveries implement at-least-once delivery: every step of   *)
(* the leases, tokens, retries, crashes and replays is an offer, a hearing, *)
(* a delivery of something heard, a giving up, a reopening, or unseen.      *)
THEOREM PromiseKept == Spec => KeepsPromise
<1>1. FanoutInv /\ FanoutInv' /\ [Next]_vars => [Promise!Next]_Promise!vars
    BY StepMaps DEF FanoutInv
<1> QED
    BY <1>1, InitMaps, FanoutInvariance, PTL DEF Spec, KeepsPromise, Promise!Spec
=============================================================================
