----------------------------- MODULE PayoutProofs -----------------------------
(***************************************************************************)
(* Proofs that Payout is safe whatever the interleaving, for any number of *)
(* members, rows, configurations, references and handlers in flight.       *)
(*                                                                         *)
(* The argument: rows are never deleted or re-valued (Growth), so what a   *)
(* handler read before its commit step is still true there as far as the   *)
(* commit relies on it (JobsInv); what it does not rely on, the status, is *)
(* re-checked by the conditional claim and by the unique indexes.          *)
(*                                                                         *)
(* The last part adds what holds when handlers run one at a time: the      *)
(* routes implement Account and a member is never overpaid.                *)
(***************************************************************************)
EXTENDS Payout, FiniteSetTheorems, TLAPS

-------------------------------------------------------------------------------
(* Facts about SumTo, for any length.  The library's induction theorems    *)
(* take an operator, which the provers cannot instantiate, so induction    *)
(* over the naturals is first derived for a set, from the fact that strict *)
(* inclusion of finite sets is well founded.                               *)

\* A set with 0 that is closed under successor holds every natural number: a
\* least missing n would make 0..n minimal among the intervals of missing ends.
LEMMA NatSetInduction ==
  ASSUME NEW S, 0 \in S, \A n \in Nat : n \in S => n + 1 \in S
  PROVE  Nat \subseteq S
<1> SUFFICES ASSUME NEW k \in Nat, k \notin S PROVE FALSE
  OBVIOUS
<1> DEFINE T == {0..n : n \in Nat \ S}
<1> DEFINE F == FiniteSubsetsOf(Nat)
<1> DEFINE R == StrictSubsetOrdering(Nat)
<1>1. T \subseteq F
  <2> SUFFICES ASSUME NEW n \in Nat \ S PROVE 0..n \in F
    OBVIOUS
  <2>1. IsFiniteSet(0..n)
    BY FS_Interval
  <2> QED BY <2>1 DEF FiniteSubsetsOf
<1>2. T # {}
  OBVIOUS
<1>3. IsWellFoundedOn(R, F)
  BY FS_StrictSubsetOrderingWellFounded
<1>4. PICK x \in T : \A y \in T : <<y, x>> \notin R
  <2> HIDE DEF T, F, R
  <2> QED BY <1>1, <1>2, <1>3, WFMin
<1>5. PICK n \in Nat \ S : x = 0..n
  BY <1>4
<1>6. n # 0 /\ n - 1 \in Nat /\ n - 1 \notin S
  BY <1>5
<1>7. 0..(n-1) \subseteq 0..n
  <2>1. \A i \in 0..(n-1) : i \in 0..n
    BY <1>6
  <2> QED BY <2>1
<1>8. 0..(n-1) # 0..n
  <2>1. n \in 0..n /\ n \notin 0..(n-1)
    BY <1>6
  <2> QED BY <2>1, Zenon
<1>9. <<0..(n-1), 0..n>> \in R
  <2>1. 0..(n-1) \in SUBSET Nat /\ 0..n \in SUBSET Nat
    BY <1>6
  <2> QED BY <1>7, <1>8, <2>1 DEF StrictSubsetOrdering
<1> QED
  BY <1>4, <1>5, <1>6, <1>9

\* Partial sums of g are given by their recurrence.
LEMMA PartialSumsDef ==
  ASSUME NEW g
  PROVE  PartialSums(g) =
           [i \in Nat |-> IF i = 0 THEN 0 ELSE PartialSums(g)[i - 1] + g[i]]
<1> DEFINE Upto(h, n) ==
      h = [i \in 0..n |-> IF i = 0 THEN 0 ELSE h[i - 1] + g[i]]
<1> DEFINE E == {n \in Nat : \E h : Upto(h, n)}
<1>1. Nat \subseteq E
  <2>1. 0 \in E
    <3>1. Upto([i \in 0..0 |-> 0], 0)
      OBVIOUS
    <3> QED BY <3>1
  <2>2. ASSUME NEW n \in Nat, n \in E PROVE n + 1 \in E
    <3>1. PICK h : Upto(h, n)
      BY <2>2
    <3> DEFINE hh == [i \in 0..(n+1) |-> IF i = n + 1 THEN h[n] + g[n+1] ELSE h[i]]
    <3>2. \A i \in 0..(n+1) : hh[i] = IF i = 0 THEN 0 ELSE hh[i - 1] + g[i]
      BY <3>1
    <3>3. Upto(hh, n + 1)
      BY <3>2
    <3>4. \E x : Upto(x, n + 1)
      <4> HIDE DEF hh, Upto
      <4> QED BY <3>3
    <3> QED BY <3>4
  <2> QED
    <3> HIDE DEF E
    <3> QED BY <2>1, <2>2, NatSetInduction
<1> DEFINE H(n) == CHOOSE h : Upto(h, n)
<1>2. \A n \in Nat : Upto(H(n), n)
  BY <1>1
<1>3. \A n \in Nat : H(n) = [i \in 0..n |-> IF i = 0 THEN 0 ELSE H(n)[i - 1] + g[i]]
  BY <1>2
<1> HIDE DEF H
<1>4. ASSUME NEW m \in Nat PROVE \A n \in Nat : n <= m => H(m)[n] = H(n)[n]
  <2> DEFINE A == {n \in Nat : \A k \in Nat : n <= k => H(k)[n] = H(n)[n]}
  <2>1. 0 \in A
    BY <1>3
  <2>2. ASSUME NEW n \in Nat, n \in A PROVE n + 1 \in A
    <3> SUFFICES ASSUME NEW k \in Nat, n + 1 <= k PROVE H(k)[n+1] = H(n+1)[n+1]
      OBVIOUS
    <3>1. H(k)[n+1] = H(k)[n] + g[n+1]
      BY <1>3
    <3>2. H(n+1)[n+1] = H(n+1)[n] + g[n+1]
      BY <1>3
    <3>3. H(k)[n] = H(n)[n] /\ H(n+1)[n] = H(n)[n]
      BY <2>2
    <3> QED BY <3>1, <3>2, <3>3
  <2>3. Nat \subseteq A
    <3> HIDE DEF A
    <3> QED BY <2>1, <2>2, NatSetInduction
  <2> QED BY <2>3
<1> DEFINE s == [i \in Nat |-> H(i)[i]]
<1>5. \A i \in Nat : s[i] = IF i = 0 THEN 0 ELSE s[i - 1] + g[i]
  <2> SUFFICES ASSUME NEW i \in Nat, i # 0 PROVE s[i] = s[i-1] + g[i]
    BY <1>3
  <2>1. H(i)[i] = H(i)[i-1] + g[i]
    BY <1>3
  <2>2. H(i)[i-1] = H(i-1)[i-1]
    BY <1>4
  <2> QED BY <2>1, <2>2
<1>6. s = [i \in Nat |-> IF i = 0 THEN 0 ELSE s[i - 1] + g[i]]
  BY <1>5
<1> DEFINE D(f) == f = [i \in Nat |-> IF i = 0 THEN 0 ELSE f[i - 1] + g[i]]
<1>7. \E f : D(f)
  BY <1>6
<1>8. PartialSums(g) = CHOOSE f : D(f)
  BY DEF PartialSums
<1>9. D(PartialSums(g))
  <2> HIDE DEF D
  <2> QED BY <1>7, <1>8
<1> QED
  BY <1>9

\* A sum is built one term at a time.
LEMMA SumRecurrence ==
  ASSUME NEW g
  PROVE  /\ SumTo(g, 0) = 0
         /\ \A n \in Nat : SumTo(g, n + 1) = SumTo(g, n) + g[n + 1]
BY PartialSumsDef DEF SumTo

\* A sum of natural numbers is a natural number.
LEMMA SumType ==
  ASSUME NEW g, NEW n \in Nat, \A i \in 1..n : g[i] \in Nat
  PROVE  SumTo(g, n) \in Nat
<1> DEFINE A == {k \in Nat : k <= n => SumTo(g, k) \in Nat}
<1>1. 0 \in A
  BY SumRecurrence
<1>2. ASSUME NEW k \in Nat, k \in A PROVE k + 1 \in A
  BY <1>2, SumRecurrence
<1>3. Nat \subseteq A
  <2> HIDE DEF A
  <2> QED BY <1>1, <1>2, NatSetInduction
<1> QED BY <1>3

\* Equal terms, equal sums.
LEMMA SumSame ==
  ASSUME NEW g, NEW h, NEW n \in Nat, \A i \in 1..n : g[i] = h[i]
  PROVE  SumTo(g, n) = SumTo(h, n)
<1> DEFINE A == {k \in Nat : k <= n => SumTo(g, k) = SumTo(h, k)}
<1>1. 0 \in A
  BY SumRecurrence
<1>2. ASSUME NEW k \in Nat, k \in A PROVE k + 1 \in A
  <2> SUFFICES ASSUME k + 1 <= n PROVE SumTo(g, k + 1) = SumTo(h, k + 1)
    OBVIOUS
  <2>1. g[k+1] = h[k+1] /\ SumTo(g, k) = SumTo(h, k)
    BY <1>2
  <2> QED BY <2>1, SumRecurrence
<1>3. Nat \subseteq A
  <2> HIDE DEF A
  <2> QED BY <1>1, <1>2, NatSetInduction
<1> QED BY <1>3

\* Changing one term changes the sum by the difference.
LEMMA SumUpdate ==
  ASSUME NEW g, NEW h, NEW n \in Nat, NEW j \in 1..n,
         \A i \in 1..n : g[i] \in Nat /\ h[i] \in Nat,
         \A i \in 1..n \ {j} : g[i] = h[i]
  PROVE  SumTo(h, n) = SumTo(g, n) - g[j] + h[j]
<1> DEFINE A == {k \in Nat : j <= k /\ k <= n => SumTo(h, k) = SumTo(g, k) - g[j] + h[j]}
<1>0. \A k \in 0..n : SumTo(g, k) \in Nat /\ SumTo(h, k) \in Nat
  BY SumType
<1>1. 0 \in A
  OBVIOUS
<1>2. ASSUME NEW k \in Nat, k \in A PROVE k + 1 \in A
  <2> SUFFICES ASSUME j <= k + 1, k + 1 <= n
               PROVE  SumTo(h, k + 1) = SumTo(g, k + 1) - g[j] + h[j]
    OBVIOUS
  <2>1. /\ SumTo(g, k + 1) = SumTo(g, k) + g[k+1]
        /\ SumTo(h, k + 1) = SumTo(h, k) + h[k+1]
    BY SumRecurrence
  <2>2. CASE j = k + 1
    <3>1. SumTo(g, k) = SumTo(h, k)
      BY <2>2, SumSame
    <3> QED BY <2>1, <2>2, <3>1, <1>0
  <2>3. CASE j <= k
    <3>1. SumTo(h, k) = SumTo(g, k) - g[j] + h[j]
      BY <1>2, <2>3
    <3>2. g[k+1] = h[k+1]
      BY <2>3
    <3> QED BY <2>1, <3>1, <3>2, <1>0
  <2> QED BY <2>2, <2>3
<1>3. Nat \subseteq A
  <2> HIDE DEF A
  <2> QED BY <1>1, <1>2, NatSetInduction
<1> QED BY <1>3

\* Smaller terms, smaller sum.
LEMMA SumMonotone ==
  ASSUME NEW g, NEW h, NEW n \in Nat,
         \A i \in 1..n : g[i] \in Nat /\ h[i] \in Nat /\ g[i] <= h[i]
  PROVE  SumTo(g, n) <= SumTo(h, n)
<1> DEFINE A == {k \in Nat : k <= n => SumTo(g, k) <= SumTo(h, k)}
<1>0. \A k \in 0..n : SumTo(g, k) \in Nat /\ SumTo(h, k) \in Nat
  BY SumType
<1>1. 0 \in A
  BY SumRecurrence
<1>2. ASSUME NEW k \in Nat, k \in A PROVE k + 1 \in A
  BY <1>0, <1>2, SumRecurrence
<1>3. Nat \subseteq A
  <2> HIDE DEF A
  <2> QED BY <1>1, <1>2, NatSetInduction
<1> QED BY <1>0, <1>3

\* Terms that are all zero sum to zero.
LEMMA SumZero ==
  ASSUME NEW g, NEW n \in Nat, \A i \in 1..n : g[i] = 0
  PROVE  SumTo(g, n) = 0
<1> DEFINE A == {k \in Nat : k <= n => SumTo(g, k) = 0}
<1>1. 0 \in A
  BY SumRecurrence
<1>2. ASSUME NEW k \in Nat, k \in A PROVE k + 1 \in A
  BY <1>2, SumRecurrence
<1>3. Nat \subseteq A
  <2> HIDE DEF A
  <2> QED BY <1>1, <1>2, NatSetInduction
<1> QED BY <1>3

-------------------------------------------------------------------------------
(* The inductive invariant *)

\* An assignment row exists only in an existing cycle, priced by its terms.
AssignmentsPriced ==
  \A m \in Members, c \in Cycles :
    \/ assignment[m][c].status = "NONE"
    \/ /\ cycle[c].terms \in Terms
       /\ assignment[m][c].points >= MinimumPoints[cycle[c].terms]
       /\ assignment[m][c].amount = Amount(assignment[m][c].points, cycle[c].terms)
       /\ assignment[m][c].batch \in Batches
       /\ batch[assignment[m][c].batch] # "NONE"

\* Executions point at rows that exist.
ExecutionsTargetRows ==
  \A e \in executions :
    /\ e.kind = "ASSIGNMENT" =>
         e.target \in Cycles /\ assignment[e.member][e.target].status # "NONE"
    /\ e.kind = "REDEMPTION" =>
         e.target \in Redemptions /\ redemption[e.member][e.target].status # "NONE"

\* What a handler in flight read is still true where its commit relies on it.
PricedAt(points, amount) ==
  \E t \in Terms : points >= MinimumPoints[t] /\ amount = Amount(points, t)

JobInv(job) ==
  /\ job.op \in {"APPROVE", "REJECT", "PAY"} =>
       redemption[job.member][job.id].status # "NONE"
  /\ job.op = "PAY" =>
       /\ TRUE \in settings
       /\ ~isUnreconciledLegacyClaim(job.member, job.id)
       /\ PricedAt(redemption[job.member][job.id].points, job.amount)
  /\ job.op = "BATCH" =>
       /\ cycle[job.cycle].terms \in Terms
       /\ \A m \in Members :
            job.points[m] = 0 \/ job.points[m] >= MinimumPoints[cycle[job.cycle].terms]
  /\ job.op = "SET" =>
       /\ assignment[job.member][job.cycle].status # "NONE"
       /\ job.status = "PROCESSING"
            => batch[assignment[job.member][job.cycle].batch] = "APPROVED"

JobsInv == \A q \in Requests : JobInv(req[q])

CyclesInv == \A c \in Cycles : cycle[c] = NoCycle \/ cycle[c].terms \in Terms

Inv ==
  /\ TypeOK
  /\ AssignmentsPriced
  /\ ExecutionsTargetRows
  /\ JobsInv
  /\ CyclesInv
  /\ PaidAtMostOnce
  /\ AmountIsServerDerived
  /\ LegacyNeverPaid
  /\ OnlyApprovedBatchesPay
  /\ PaidIsRecorded

\* Deployments, drained processes and lost handlers write no row.
LEMMA OperationsFrame ==
  ASSUME Operations
  PROVE  UNCHANGED <<earned, redemption, assignment, batch, cycle, active,
                     carryover, executions>>
BY DEF Operations, Deploy, Drained, Lost

-------------------------------------------------------------------------------
(* Type correctness *)

\* A parked handler's operation tells which fields it carries.
LEMMA JobFields ==
  ASSUME NEW job \in Job
  PROVE  /\ job.op = "REDEEM" => job \in RedeemJob
         /\ job.op = "APPROVE" => job \in ApproveJob
         /\ job.op = "REJECT" => job \in RejectJob
         /\ job.op = "PAY" => job \in PayJob
         /\ job.op = "BATCH" => job \in BatchJob
         /\ job.op = "SET" => job \in SetJob
<1>1. /\ \A x \in RedeemJob : x.op = "REDEEM"
      /\ \A x \in ApproveJob : x.op = "APPROVE"
      /\ \A x \in RejectJob : x.op = "REJECT"
      /\ \A x \in PayJob : x.op = "PAY"
      /\ \A x \in BatchJob : x.op = "BATCH"
      /\ \A x \in SetJob : x.op = "SET"
      /\ Idle.op = "IDLE"
  BY DEF RedeemJob, ApproveJob, RejectJob, PayJob, BatchJob, SetJob, Idle
<1> QED BY <1>1 DEF Job

\* The balances are natural numbers.
LEMMA BalanceTypes ==
  ASSUME TypeOK, NEW m \in Members
  PROVE  /\ \A c \in Cycles : AssignmentHold(m, c) \in Nat
         /\ \A i \in Redemptions : RedemptionHold(m, i) \in Nat
         /\ reservedPoints(m) \in Nat
         /\ eligiblePoints(m) \in Nat
<1>1. \A c \in Cycles : AssignmentHold(m, c) \in Nat
  BY DEF TypeOK, AssignmentRow, AssignmentHold
<1>2. \A i \in Redemptions : RedemptionHold(m, i) \in Nat
  BY DEF TypeOK, RedemptionRow, RedemptionHold
<1>3. SumTo([c \in Cycles |-> AssignmentHold(m, c)], NumCycles) \in Nat
  BY <1>1, SumType, PayoutAssumption DEF Cycles
<1>4. SumTo([i \in Redemptions |-> RedemptionHold(m, i)], NumRedemptions) \in Nat
  BY <1>2, SumType, PayoutAssumption DEF Redemptions
<1>5. reservedPoints(m) \in Nat
  BY <1>3, <1>4 DEF reservedPoints
<1>6. eligiblePoints(m) \in Nat
  BY <1>5 DEF TypeOK, eligiblePoints, Spendable
<1> QED
  BY <1>1, <1>2, <1>5, <1>6

\* A priced amount is a whole number of cents.
LEMMA AmountType ==
  ASSUME NEW points \in Nat, NEW t \in Terms
  PROVE  Amount(points, t) \in Nat
<1>1. ConversionRate[t] \in Nat
  BY PayoutAssumption
<1>2. points * ConversionRate[t] \in Nat
  BY <1>1
<1> QED BY <1>2 DEF Amount

\* What one status update does to a table, and what it leaves alone.
RedemptionMoved(m, i, s) ==
  /\ redemption' \in [Members -> [Redemptions -> RedemptionRow]]
  /\ \A n \in Members, k \in Redemptions :
       /\ redemption'[n][k].points = redemption[n][k].points
       /\ redemption'[n][k].prior = redemption[n][k].prior
       /\ redemption'[n][k].status = IF n = m /\ k = i THEN s ELSE redemption[n][k].status

AssignmentMoved(m, c, s) ==
  /\ assignment' \in [Members -> [Cycles -> AssignmentRow]]
  /\ \A n \in Members, d \in Cycles :
       /\ assignment'[n][d].points = assignment[n][d].points
       /\ assignment'[n][d].amount = assignment[n][d].amount
       /\ assignment'[n][d].batch = assignment[n][d].batch
       /\ assignment'[n][d].status = IF n = m /\ d = c THEN s ELSE assignment[n][d].status

\* Setting one redemption's status moves that row's status and nothing else.
LEMMA RedemptionUpdate ==
  ASSUME TypeOK, NEW m \in Members, NEW i \in Redemptions,
         NEW s \in {"PENDING", "APPROVED", "REJECTED", "PAID"},
         redemption' = [redemption EXCEPT ![m][i].status = s]
  PROVE  RedemptionMoved(m, i, s)
<1> DEFINE row == [redemption[m][i] EXCEPT !.status = s]
<1>1. redemption[m][i] \in RedemptionRow
  BY DEF TypeOK
<1>2. /\ row \in RedemptionRow /\ row.status = s
      /\ row.points = redemption[m][i].points /\ row.prior = redemption[m][i].prior
  BY <1>1 DEF RedemptionRow
<1>3. redemption' = [redemption EXCEPT ![m] = [redemption[m] EXCEPT ![i] = row]]
  OBVIOUS
<1> HIDE DEF row
<1>4. \A n \in Members, k \in Redemptions :
        redemption'[n][k] = IF n = m /\ k = i THEN row ELSE redemption[n][k]
  BY <1>3 DEF TypeOK
<1>5. redemption' \in [Members -> [Redemptions -> RedemptionRow]]
  <2>1. redemption \in [Members -> [Redemptions -> RedemptionRow]]
    BY DEF TypeOK
  <2>2. [redemption[m] EXCEPT ![i] = row] \in [Redemptions -> RedemptionRow]
    BY <2>1, <1>2
  <2> QED BY <1>3, <2>1, <2>2
<1> QED BY <1>2, <1>4, <1>5 DEF RedemptionMoved

\* Setting one assignment's status moves that row's status and nothing else.
LEMMA AssignmentUpdate ==
  ASSUME TypeOK, NEW m \in Members, NEW c \in Cycles,
         NEW s \in {"ELIGIBLE", "APPROVED", "PROCESSING", "HELD", "REJECTED", "PAID"},
         assignment' = [assignment EXCEPT ![m][c].status = s]
  PROVE  AssignmentMoved(m, c, s)
<1> DEFINE row == [assignment[m][c] EXCEPT !.status = s]
<1>1. assignment[m][c] \in AssignmentRow
  BY DEF TypeOK
<1>2. /\ row \in AssignmentRow /\ row.status = s
      /\ row.points = assignment[m][c].points /\ row.amount = assignment[m][c].amount
      /\ row.batch = assignment[m][c].batch
  BY <1>1 DEF AssignmentRow
<1>3. assignment' = [assignment EXCEPT ![m] = [assignment[m] EXCEPT ![c] = row]]
  OBVIOUS
<1> HIDE DEF row
<1>4. \A n \in Members, d \in Cycles :
        assignment'[n][d] = IF n = m /\ d = c THEN row ELSE assignment[n][d]
  BY <1>3 DEF TypeOK
<1>5. assignment' \in [Members -> [Cycles -> AssignmentRow]]
  <2>1. assignment \in [Members -> [Cycles -> AssignmentRow]]
    BY DEF TypeOK
  <2>2. [assignment[m] EXCEPT ![c] = row] \in [Cycles -> AssignmentRow]
    BY <2>1, <1>2
  <2> QED BY <1>3, <2>1, <2>2
<1> QED BY <1>2, <1>4, <1>5 DEF AssignmentMoved

\* What each status write amounts to.
LEMMA StatusWrites ==
  ASSUME TypeOK, NEW q \in Requests
  PROVE  /\ ApproveWrite(q) => /\ req[q].member \in Members /\ req[q].id \in Redemptions
                               /\ RedemptionMoved(req[q].member, req[q].id, "APPROVED")
         /\ RejectWrite(q) => /\ req[q].member \in Members /\ req[q].id \in Redemptions
                              /\ RedemptionMoved(req[q].member, req[q].id, "REJECTED")
         /\ PayRedemption(q) => /\ req[q] \in PayJob
                                /\ RedemptionMoved(req[q].member, req[q].id, "PAID")
         /\ SetWrite(q) => /\ req[q] \in SetJob
                           /\ AssignmentMoved(req[q].member, req[q].cycle, req[q].status)
         /\ \A m \in Members, c \in Cycles, ref \in References :
              PayAssignment(q, m, c, ref) => AssignmentMoved(m, c, "PAID")
<1>0. req[q] \in Job
  BY DEF TypeOK
<1>1. ASSUME ApproveWrite(q)
      PROVE  /\ req[q].member \in Members /\ req[q].id \in Redemptions
             /\ RedemptionMoved(req[q].member, req[q].id, "APPROVED")
  <2>1. req[q].member \in Members /\ req[q].id \in Redemptions
    BY <1>0, <1>1, JobFields DEF ApproveWrite, ApproveJob
  <2> QED BY <1>1, <2>1, RedemptionUpdate DEF ApproveWrite
<1>2. ASSUME RejectWrite(q)
      PROVE  /\ req[q].member \in Members /\ req[q].id \in Redemptions
             /\ RedemptionMoved(req[q].member, req[q].id, "REJECTED")
  <2>1. req[q].member \in Members /\ req[q].id \in Redemptions
    BY <1>0, <1>2, JobFields DEF RejectWrite, RejectJob
  <2> QED BY <1>2, <2>1, RedemptionUpdate DEF RejectWrite
<1>3. ASSUME PayRedemption(q)
      PROVE  req[q] \in PayJob /\ RedemptionMoved(req[q].member, req[q].id, "PAID")
  <2>1. req[q] \in PayJob
    BY <1>0, <1>3, JobFields DEF PayRedemption
  <2>2. req[q].member \in Members /\ req[q].id \in Redemptions
    BY <2>1 DEF PayJob
  <2> QED BY <1>3, <2>1, <2>2, RedemptionUpdate DEF PayRedemption
<1>4. ASSUME SetWrite(q)
      PROVE  req[q] \in SetJob /\ AssignmentMoved(req[q].member, req[q].cycle, req[q].status)
  <2>1. req[q] \in SetJob
    BY <1>0, <1>4, JobFields DEF SetWrite
  <2>2. /\ req[q].member \in Members /\ req[q].cycle \in Cycles
        /\ req[q].status \in {"PROCESSING", "HELD", "REJECTED"}
    BY <2>1 DEF SetJob
  <2> QED BY <1>4, <2>1, <2>2, AssignmentUpdate DEF SetWrite
<1>5. ASSUME NEW m \in Members, NEW c \in Cycles, NEW ref \in References,
             PayAssignment(q, m, c, ref)
      PROVE  AssignmentMoved(m, c, "PAID")
  BY <1>5, AssignmentUpdate DEF PayAssignment
<1> QED BY <1>1, <1>2, <1>3, <1>4, <1>5

\* Approving a batch moves its waiting rows and touches nothing else of a row.
LEMMA ApprovalUpdate ==
  ASSUME TypeOK, NEW q, NEW b \in Batches, ApproveBatch(q, b)
  PROVE  /\ assignment' \in [Members -> [Cycles -> AssignmentRow]]
         /\ \A m \in Members, c \in Cycles :
              /\ assignment'[m][c].points = assignment[m][c].points
              /\ assignment'[m][c].amount = assignment[m][c].amount
              /\ assignment'[m][c].batch = assignment[m][c].batch
              /\ \/ assignment'[m][c].status = assignment[m][c].status
                 \/ /\ assignment[m][c].status = "ELIGIBLE"
                    /\ assignment[m][c].batch = b
                    /\ assignment'[m][c].status = "APPROVED"
<1> DEFINE row(m, c) == IF assignment[m][c].batch = b /\ assignment[m][c].status = "ELIGIBLE"
                          THEN [assignment[m][c] EXCEPT !.status = "APPROVED"]
                          ELSE assignment[m][c]
<1>1. \A m \in Members, c \in Cycles :
        /\ row(m, c) \in AssignmentRow
        /\ row(m, c).points = assignment[m][c].points
        /\ row(m, c).amount = assignment[m][c].amount
        /\ row(m, c).batch = assignment[m][c].batch
        /\ \/ row(m, c).status = assignment[m][c].status
           \/ /\ assignment[m][c].status = "ELIGIBLE"
              /\ assignment[m][c].batch = b
              /\ row(m, c).status = "APPROVED"
  <2> SUFFICES ASSUME NEW m \in Members, NEW c \in Cycles
               PROVE  /\ row(m, c) \in AssignmentRow
                      /\ row(m, c).points = assignment[m][c].points
                      /\ row(m, c).amount = assignment[m][c].amount
                      /\ row(m, c).batch = assignment[m][c].batch
                      /\ \/ row(m, c).status = assignment[m][c].status
                         \/ /\ assignment[m][c].status = "ELIGIBLE"
                            /\ assignment[m][c].batch = b
                            /\ row(m, c).status = "APPROVED"
    OBVIOUS
  <2>1. assignment[m][c] \in AssignmentRow
    BY DEF TypeOK
  <2> QED BY <2>1 DEF AssignmentRow
<1>2. assignment' = [m \in Members |-> [c \in Cycles |-> row(m, c)]]
  BY DEF ApproveBatch
<1> HIDE DEF row
<1> QED BY <1>1, <1>2

\* A new batch fills vacant rows of its cycle and leaves every other row alone.
LEMMA InsertUpdate ==
  ASSUME TypeOK, NEW q \in Requests, NEW b \in Batches, BatchInsert(q, b),
         cycle[req[q].cycle].terms \in Terms
  PROVE  /\ req[q].cycle \in Cycles /\ req[q].points \in [Members -> Nat]
         /\ assignment' \in [Members -> [Cycles -> AssignmentRow]]
         /\ \A m \in Members, c \in Cycles :
              \/ assignment'[m][c] = assignment[m][c]
              \/ /\ assignment[m][c].status = "NONE"
                 /\ c = req[q].cycle
                 /\ req[q].points[m] > 0
                 /\ assignment'[m][c].status = "ELIGIBLE"
                 /\ assignment'[m][c].points = req[q].points[m]
                 /\ assignment'[m][c].amount = Amount(req[q].points[m], cycle[c].terms)
                 /\ assignment'[m][c].batch = b
<1>1. req[q].cycle \in Cycles /\ req[q].points \in [Members -> Nat]
  BY JobFields DEF TypeOK, BatchInsert, BatchJob
<1> DEFINE k == req[q].cycle
<1> DEFINE row(m) == Assigned(m, k, req[q].points[m], b)
<1>2. ASSUME NEW m \in Members
      PROVE  /\ row(m) \in AssignmentRow
             /\ \/ row(m) = assignment[m][k]
                \/ /\ assignment[m][k].status = "NONE"
                   /\ req[q].points[m] > 0
                   /\ row(m).status = "ELIGIBLE"
                   /\ row(m).points = req[q].points[m]
                   /\ row(m).amount = Amount(req[q].points[m], cycle[k].terms)
                   /\ row(m).batch = b
  <2>1. assignment[m][k] \in AssignmentRow
    BY <1>1 DEF TypeOK
  <2>2. Amount(req[q].points[m], cycle[k].terms) \in Nat
    BY <1>1, AmountType
  <2> QED BY <1>1, <2>1, <2>2 DEF Assigned, AssignmentRow
<1>3. assignment' = [m \in Members |-> [assignment[m] EXCEPT ![k] = row(m)]]
  BY DEF BatchInsert
<1> HIDE DEF row, k
<1>4. \A m \in Members, c \in Cycles :
        assignment'[m][c] = IF c = k THEN row(m) ELSE assignment[m][c]
  BY <1>1, <1>3 DEF TypeOK
<1>5. k \in Cycles
  BY <1>1 DEF k
<1>6. assignment' \in [Members -> [Cycles -> AssignmentRow]]
  BY <1>2, <1>3, <1>5 DEF TypeOK
<1>7. \A m \in Members, c \in Cycles :
              \/ assignment'[m][c] = assignment[m][c]
              \/ /\ assignment[m][c].status = "NONE"
                 /\ c = k
                 /\ req[q].points[m] > 0
                 /\ assignment'[m][c].status = "ELIGIBLE"
                 /\ assignment'[m][c].points = req[q].points[m]
                 /\ assignment'[m][c].amount = Amount(req[q].points[m], cycle[c].terms)
                 /\ assignment'[m][c].batch = b
  BY <1>2, <1>4
<1> QED BY <1>1, <1>6, <1>7 DEF k

\* The tables start out well formed.
LEMMA InitTypeOK == Init => TypeOK
<1> SUFFICES ASSUME Init PROVE TypeOK
  OBVIOUS
<1> DEFINE R == {NoRedemption} \cup PriorRow
<1> DEFINE C == [terms : Terms, sourced : {FALSE}] \cup {NoCycle}
<1>1. redemption \in [Members -> [Redemptions -> RedemptionRow]]
  <2>1. R \subseteq RedemptionRow
    <3>1. NoRedemption \in RedemptionRow
      BY DEF NoRedemption, RedemptionRow
    <3>2. PriorRow \subseteq RedemptionRow
      BY PayoutAssumption DEF PriorRow, RedemptionRow
    <3> QED BY <3>1, <3>2
  <2>2. redemption \in [Members -> [Redemptions -> R]]
    BY DEF Init
  <2> HIDE DEF R
  <2> QED BY <2>1, <2>2
<1>2. assignment \in [Members -> [Cycles -> AssignmentRow]]
  BY DEF Init, NoAssignment, AssignmentRow
<1>3. cycle \in [Cycles -> CycleRow]
  <2>1. C \subseteq CycleRow
    <3>1. NoCycle \in CycleRow
      BY DEF NoCycle, CycleRow
    <3>2. [terms : Terms, sourced : {FALSE}] \subseteq CycleRow
      BY DEF CycleRow
    <3> QED BY <3>1, <3>2
  <2>2. cycle \in [Cycles -> C]
    BY DEF Init
  <2> HIDE DEF C
  <2> QED BY <2>1, <2>2
<1>4. req \in [Requests -> Job]
  BY DEF Init, Job
<1> QED
  BY <1>1, <1>2, <1>3, <1>4 DEF Init, TypeOK

\* No step of a handler whose parked reads are sound breaks a table's shape.
LEMMA NextTypeOK ==
  ASSUME TypeOK, JobsInv, [Next]_vars
  PROVE  TypeOK'
<1> USE DEF TypeOK
<1>1. ASSUME NEW q \in Requests, Ledger(q) PROVE TypeOK'
  <2>1. ASSUME NEW m \in Members, NEW points \in Grants, Earn(q, m, points) PROVE TypeOK'
    BY <2>1, PayoutAssumption DEF Earn
  <2>2. ASSUME NEW m \in Members, ReconcileCarryover(q, m) PROVE TypeOK'
    <3>1. earned[m] + CarryoverCredit[m] \in Nat
      BY PayoutAssumption
    <3> QED BY <2>2, <3>1 DEF ReconcileCarryover
  <2>3. ASSUME NEW t \in Terms, CreateConfiguration(q, t) PROVE TypeOK'
    BY <2>3 DEF CreateConfiguration
  <2> QED BY <1>1, <2>1, <2>2, <2>3 DEF Ledger
<1>2. ASSUME NEW q \in Requests, RedemptionRoutes(q) PROVE TypeOK'
  <2>0. req[q] \in Job
    OBVIOUS
  <2>1. ASSUME NEW m \in Members, NEW points \in RequestSizes, RedeemValue(q, m, points)
        PROVE  TypeOK'
    <3>1. [op |-> "REDEEM", member |-> m, points |-> points] \in Job
      BY DEF Job, RedeemJob
    <3> QED BY <2>1, <3>1 DEF RedeemValue, Begin
  <2>2. ASSUME RedeemInsert(q) PROVE TypeOK'
    <3>1. req[q] \in RedeemJob
      BY <2>0, <2>2, JobFields DEF RedeemInsert
    <3>2. [status |-> "PENDING", points |-> req[q].points, prior |-> FALSE] \in RedemptionRow
      BY <3>1, PayoutAssumption DEF RedeemJob, RedemptionRow
    <3>3. req[q].member \in Members
      BY <3>1 DEF RedeemJob
    <3> QED BY <2>2, <3>2, <3>3 DEF RedeemInsert, Finish, Job
  <2>3. ASSUME NEW m \in Members, NEW i \in Redemptions, ApproveRead(q, m, i)
        PROVE  TypeOK'
    <3>1. [op |-> "APPROVE", member |-> m, id |-> i, valued |-> FALSE] \in Job
      BY DEF Job, ApproveJob
    <3> QED BY <2>3, <3>1 DEF ApproveRead, Begin
  <2>4. ASSUME ApproveValue(q) PROVE TypeOK'
    <3>1. [req[q] EXCEPT !.valued = TRUE] \in ApproveJob
      BY <2>0, <2>4, JobFields DEF ApproveValue, ApproveJob
    <3>2. req' \in [Requests -> Job]
      BY <2>4, <3>1 DEF ApproveValue, Job
    <3> QED BY <2>4, <3>2 DEF ApproveValue
  <2>5. ASSUME ApproveWrite(q) PROVE TypeOK'
    <3>2. redemption' \in [Members -> [Redemptions -> RedemptionRow]]
      BY <2>5, StatusWrites DEF RedemptionMoved
    <3> QED BY <2>5, <3>2 DEF ApproveWrite, Finish, Job
  <2>6. ASSUME NEW m \in Members, NEW i \in Redemptions, RejectRead(q, m, i)
        PROVE  TypeOK'
    <3>1. [op |-> "REJECT", member |-> m, id |-> i] \in Job
      BY DEF Job, RejectJob
    <3> QED BY <2>6, <3>1 DEF RejectRead, Begin
  <2>7. ASSUME RejectWrite(q) PROVE TypeOK'
    <3>2. redemption' \in [Members -> [Redemptions -> RedemptionRow]]
      BY <2>7, StatusWrites DEF RedemptionMoved
    <3> QED BY <2>7, <3>2 DEF RejectWrite, Finish, Job
  <2>8. ASSUME NEW m \in Members, NEW i \in Redemptions, NEW ref \in References,
               PayRedemptionValue(q, m, i, ref)
        PROVE  TypeOK'
    <3>1. active \in Terms /\ redemption[m][i].points \in Nat
      BY <2>8 DEF PayRedemptionValue, PayableRedemption, meetsThreshold, RedemptionRow
    <3>2. Amount(redemption[m][i].points, active) \in Nat
      BY <3>1, AmountType
    <3>3. [op |-> "PAY", member |-> m, id |-> i, reference |-> ref,
           amount |-> Amount(redemption[m][i].points, active)] \in Job
      BY <3>2 DEF Job, PayJob
    <3> QED BY <2>8, <3>3 DEF PayRedemptionValue, Begin
  <2>9. ASSUME PayRedemption(q) PROVE TypeOK'
    <3>1. req[q] \in PayJob
      BY <2>0, <2>9, JobFields DEF PayRedemption
    <3>2. RedemptionExecution(req[q]) \in ExecutionRow
      <4>1. redemption[req[q].member][req[q].id].points \in Nat
        BY <3>1 DEF PayJob, RedemptionRow
      <4>2. req[q].id \in Nat
        BY <3>1 DEF PayJob, Redemptions
      <4> QED BY <3>1, <4>1, <4>2 DEF PayJob, RedemptionExecution, ExecutionRow
    <3>3. redemption' \in [Members -> [Redemptions -> RedemptionRow]]
      BY <2>9, StatusWrites DEF RedemptionMoved
    <3> QED BY <2>9, <3>2, <3>3 DEF PayRedemption, Finish, Job
  <2>10. ASSUME PayRedemptionRefused(q) PROVE TypeOK'
    BY <2>10 DEF PayRedemptionRefused, Finish, Job
  <2> QED
    BY <1>2, <2>1, <2>2, <2>3, <2>4, <2>5, <2>6, <2>7, <2>8, <2>9, <2>10
    DEF RedemptionRoutes
<1>3. ASSUME NEW q \in Requests, PayoutRoutes(q) PROVE TypeOK'
  <2>0. req[q] \in Job
    OBVIOUS
  <2>1. ASSUME NEW c \in Cycles, CreateCycle(q, c) PROVE TypeOK'
    BY <2>1 DEF CreateCycle, CycleRow
  <2>2. ASSUME NEW c \in Cycles, NEW asked \in SUBSET Members, BatchValue(q, c, asked)
        PROVE  TypeOK'
    <3> DEFINE job == [op |-> "BATCH", cycle |-> c, points |->
           [m \in Members |-> IF m \in EligibleUnder(cycle[c].terms, asked)
                                THEN eligiblePoints(m) ELSE 0]]
    <3>1. \A m \in Members : eligiblePoints(m) \in Nat
      BY BalanceTypes
    <3>2. job \in Job
      BY <3>1 DEF Job, BatchJob
    <3> QED BY <2>2, <3>2 DEF BatchValue, Begin
  <2>3. ASSUME NEW b \in Batches, BatchInsert(q, b) PROVE TypeOK'
    <3>1. cycle[req[q].cycle].terms \in Terms
      BY <2>3 DEF JobsInv, JobInv, BatchInsert
    <3>2. assignment' \in [Members -> [Cycles -> AssignmentRow]]
      BY <2>3, <3>1, InsertUpdate
    <3> QED BY <2>3, <3>2 DEF BatchInsert, Finish, Job
  <2>4. ASSUME NEW b \in Batches, ApproveBatch(q, b) PROVE TypeOK'
    <3>1. assignment' \in [Members -> [Cycles -> AssignmentRow]]
      BY <2>4, ApprovalUpdate
    <3> QED BY <2>4, <3>1 DEF ApproveBatch
  <2>5. ASSUME NEW m \in Members, NEW c \in Cycles,
               NEW s \in {"PROCESSING", "HELD", "REJECTED"}, SetRead(q, m, c, s)
        PROVE  TypeOK'
    <3>1. [op |-> "SET", member |-> m, cycle |-> c, status |-> s] \in Job
      BY DEF Job, SetJob
    <3> QED BY <2>5, <3>1 DEF SetRead, Begin
  <2>6. ASSUME SetWrite(q) PROVE TypeOK'
    <3>2. assignment' \in [Members -> [Cycles -> AssignmentRow]]
      BY <2>6, StatusWrites DEF AssignmentMoved
    <3> QED BY <2>6, <3>2 DEF SetWrite, Finish, Job
  <2>7. ASSUME NEW m \in Members, NEW c \in Cycles, NEW ref \in References,
               PayAssignment(q, m, c, ref)
        PROVE  TypeOK'
    <3>1. AssignmentExecution(m, c, ref) \in ExecutionRow
      <4>1. assignment[m][c].points \in Nat /\ assignment[m][c].amount \in Nat
        BY DEF AssignmentRow
      <4>2. c \in Nat
        BY DEF Cycles
      <4> QED BY <4>1, <4>2 DEF AssignmentExecution, ExecutionRow
    <3>2. assignment' \in [Members -> [Cycles -> AssignmentRow]]
      BY <2>7, StatusWrites DEF AssignmentMoved
    <3> QED BY <2>7, <3>1, <3>2 DEF PayAssignment
  <2> QED
    BY <1>3, <2>1, <2>2, <2>3, <2>4, <2>5, <2>6, <2>7 DEF PayoutRoutes
<1>4. ASSUME Operations PROVE TypeOK'
  BY <1>4 DEF Operations, Deploy, Drained, Lost, Finish, Job
<1>5. ASSUME UNCHANGED vars PROVE TypeOK'
  BY <1>5 DEF vars
<1> QED
  BY <1>1, <1>2, <1>3, <1>4, <1>5 DEF Next

-------------------------------------------------------------------------------
(* How tables may change: a row, once inserted, stays and keeps what a handler
   in flight may have read of it; only statuses move. *)
Growth ==
  /\ \A m \in Members, i \in Redemptions : redemption[m][i].status # "NONE" =>
       /\ redemption'[m][i].status # "NONE"
       /\ redemption'[m][i].points = redemption[m][i].points
       /\ redemption'[m][i].prior = redemption[m][i].prior
  /\ \A m \in Members, c \in Cycles : assignment[m][c].status # "NONE" =>
       /\ assignment'[m][c].status # "NONE"
       /\ assignment'[m][c].points = assignment[m][c].points
       /\ assignment'[m][c].amount = assignment[m][c].amount
       /\ assignment'[m][c].batch = assignment[m][c].batch
  /\ \A c \in Cycles : cycle[c].terms \in Terms => cycle'[c] = cycle[c]
  /\ \A b \in Batches : /\ batch[b] # "NONE" => batch'[b] # "NONE"
                        /\ batch[b] = "APPROVED" => batch'[b] = "APPROVED"
  /\ \A m \in Members : carryover[m] # "PENDING" => carryover'[m] # "PENDING"
  /\ executions \subseteq executions'

\* Filing a redemption fills one empty row and touches no other.
LEMMA InsertRedemption ==
  ASSUME TypeOK, NEW q \in Requests, RedeemInsert(q)
  PROVE  \E i \in Redemptions :
           /\ req[q].member \in Members /\ req[q].points \in RequestSizes
           /\ redemption[req[q].member][i].status = "NONE"
           /\ redemption'[req[q].member][i] =
                [status |-> "PENDING", points |-> req[q].points, prior |-> FALSE]
           /\ \A n \in Members, k \in Redemptions :
                n # req[q].member \/ k # i => redemption'[n][k] = redemption[n][k]
<1>1. req[q].member \in Members /\ req[q].points \in RequestSizes
  BY JobFields DEF TypeOK, RedeemInsert, RedeemJob
<1> DEFINE m == req[q].member
<1> DEFINE row == [status |-> "PENDING", points |-> req[q].points, prior |-> FALSE]
<1>2. PICK i \in Redemptions :
        /\ redemption[m][i].status = "NONE"
        /\ redemption' = [redemption EXCEPT ![m] = [redemption[m] EXCEPT ![i] = row]]
  BY DEF RedeemInsert
<1>3. m \in Members
  BY <1>1
<1> HIDE DEF m, row
<1>4. \A n \in Members, k \in Redemptions :
        redemption'[n][k] = IF n = m /\ k = i THEN row ELSE redemption[n][k]
  BY <1>2, <1>3 DEF TypeOK
<1>5. /\ redemption[m][i].status = "NONE"
      /\ redemption'[m][i] = row
      /\ \A n \in Members, k \in Redemptions :
           n # m \/ k # i => redemption'[n][k] = redemption[n][k]
  BY <1>2, <1>3, <1>4
<1> QED BY <1>1, <1>5 DEF m, row

\* Every step lets the tables grow only: no handler deletes or re-values a row.
LEMMA NextGrows ==
  ASSUME TypeOK, JobsInv, [Next]_vars
  PROVE  Growth
<1>1. ASSUME NEW q \in Requests, Ledger(q) PROVE Growth
  BY <1>1 DEF Ledger, Earn, ReconcileCarryover, CreateConfiguration, Growth, TypeOK
<1>2. ASSUME NEW q \in Requests, RedemptionRoutes(q) PROVE Growth
  <2>1. ASSUME RedeemInsert(q) PROVE Growth
    <3>1. UNCHANGED <<assignment, batch, cycle, carryover, executions>>
      BY <2>1 DEF RedeemInsert
    <3>2. \A n \in Members, k \in Redemptions :
            redemption[n][k].status # "NONE" => redemption'[n][k] = redemption[n][k]
      BY <2>1, InsertRedemption
    <3> QED BY <3>1, <3>2 DEF Growth
  <2>2. ASSUME ApproveWrite(q) PROVE Growth
    <3>1. UNCHANGED <<assignment, batch, cycle, carryover, executions>>
      BY <2>2 DEF ApproveWrite
    <3>2. RedemptionMoved(req[q].member, req[q].id, "APPROVED")
      BY <2>2, StatusWrites
    <3> QED BY <3>1, <3>2 DEF Growth, RedemptionMoved
  <2>3. ASSUME RejectWrite(q) PROVE Growth
    <3>1. UNCHANGED <<assignment, batch, cycle, carryover, executions>>
      BY <2>3 DEF RejectWrite
    <3>2. RedemptionMoved(req[q].member, req[q].id, "REJECTED")
      BY <2>3, StatusWrites
    <3> QED BY <3>1, <3>2 DEF Growth, RedemptionMoved
  <2>4. ASSUME PayRedemption(q) PROVE Growth
    <3>1. UNCHANGED <<assignment, batch, cycle, carryover>> /\ executions \subseteq executions'
      BY <2>4 DEF PayRedemption
    <3>2. RedemptionMoved(req[q].member, req[q].id, "PAID")
      BY <2>4, StatusWrites
    <3> QED BY <3>1, <3>2 DEF Growth, RedemptionMoved
  <2>5. ASSUME UNCHANGED <<redemption, assignment, batch, cycle, carryover, executions>>
        PROVE  Growth
    BY <2>5 DEF Growth
  <2> QED
    BY <1>2, <2>1, <2>2, <2>3, <2>4, <2>5
    DEF RedemptionRoutes, RedeemValue, ApproveRead, ApproveValue, RejectRead,
        PayRedemptionValue, PayRedemptionRefused
<1>3. ASSUME NEW q \in Requests, PayoutRoutes(q) PROVE Growth
  <2>1. ASSUME NEW c \in Cycles, CreateCycle(q, c) PROVE Growth
    <3>1. UNCHANGED <<redemption, assignment, batch, carryover, executions>>
      BY <2>1 DEF CreateCycle
    <3>2. \A d \in Cycles : cycle[d].terms \in Terms => cycle'[d] = cycle[d]
      BY <2>1, PayoutAssumption DEF CreateCycle, NoCycle, TypeOK
    <3> QED BY <3>1, <3>2 DEF Growth
  <2>2. ASSUME NEW b \in Batches, BatchInsert(q, b) PROVE Growth
    <3>1. UNCHANGED <<redemption, cycle, carryover, executions>>
      BY <2>2 DEF BatchInsert
    <3>2. cycle[req[q].cycle].terms \in Terms
      BY <2>2 DEF BatchInsert, JobsInv, JobInv
    <3>3. \A m \in Members, c \in Cycles :
            assignment[m][c].status # "NONE" => assignment'[m][c] = assignment[m][c]
      BY <2>2, <3>2, InsertUpdate
    <3>4. \A d \in Batches : batch[d] # "NONE" => batch'[d] = batch[d]
      BY <2>2 DEF BatchInsert, TypeOK
    <3> QED BY <3>1, <3>3, <3>4 DEF Growth
  <2>3. ASSUME NEW b \in Batches, ApproveBatch(q, b) PROVE Growth
    <3>1. UNCHANGED <<redemption, cycle, carryover, executions>>
      BY <2>3 DEF ApproveBatch
    <3>2. \A d \in Batches : batch'[d] = batch[d] \/ batch'[d] = "APPROVED"
      BY <2>3 DEF ApproveBatch, TypeOK
    <3> QED BY <2>3, <3>1, <3>2, ApprovalUpdate DEF Growth
  <2>4. ASSUME SetWrite(q) PROVE Growth
    <3>1. UNCHANGED <<redemption, batch, cycle, carryover, executions>>
      BY <2>4 DEF SetWrite
    <3>2. /\ AssignmentMoved(req[q].member, req[q].cycle, req[q].status)
          /\ req[q].status # "NONE"
      BY <2>4, StatusWrites DEF SetJob
    <3> QED BY <3>1, <3>2 DEF Growth, AssignmentMoved
  <2>5. ASSUME NEW m \in Members, NEW c \in Cycles, NEW ref \in References,
               PayAssignment(q, m, c, ref)
        PROVE  Growth
    <3>1. UNCHANGED <<redemption, batch, cycle, carryover>> /\ executions \subseteq executions'
      BY <2>5 DEF PayAssignment
    <3>2. AssignmentMoved(m, c, "PAID")
      BY <2>5, StatusWrites
    <3> QED BY <3>1, <3>2 DEF Growth, AssignmentMoved
  <2>6. ASSUME UNCHANGED <<redemption, assignment, batch, cycle, carryover, executions>>
        PROVE  Growth
    BY <2>6 DEF Growth
  <2> QED
    BY <1>3, <2>1, <2>2, <2>3, <2>4, <2>5, <2>6 DEF PayoutRoutes, BatchValue, SetRead
<1>4. ASSUME UNCHANGED <<redemption, assignment, batch, cycle, carryover, executions>>
      PROVE  Growth
  BY <1>4 DEF Growth
<1> QED
  BY <1>1, <1>2, <1>3, <1>4, OperationsFrame DEF Next, vars

\* What a handler in flight read stays true while the tables only grow.
LEMMA GrowthKeepsJobs ==
  ASSUME TypeOK, AssignmentsPriced, Growth,
         NEW job \in Job, JobInv(job), job.op = "PAY" => TRUE \in settings'
  PROVE  JobInv(job)'
<1>1. ASSUME job.op \in {"APPROVE", "REJECT", "PAY"}
      PROVE  /\ job.member \in Members /\ job.id \in Redemptions
             /\ redemption'[job.member][job.id].status # "NONE"
             /\ redemption'[job.member][job.id].points = redemption[job.member][job.id].points
             /\ redemption'[job.member][job.id].prior = redemption[job.member][job.id].prior
  <2>1. job.member \in Members /\ job.id \in Redemptions
    BY <1>1, JobFields DEF ApproveJob, RejectJob, PayJob
  <2> QED BY <1>1, <2>1 DEF Growth, JobInv
<1>2. ASSUME job.op = "PAY"
      PROVE  /\ TRUE \in settings'
             /\ ~isUnreconciledLegacyClaim(job.member, job.id)'
             /\ PricedAt(redemption[job.member][job.id].points, job.amount)'
  <2>1. ~isUnreconciledLegacyClaim(job.member, job.id)'
    BY <1>1, <1>2 DEF JobInv, Growth, isUnreconciledLegacyClaim
  <2>2. PricedAt(redemption[job.member][job.id].points, job.amount)'
    BY <1>1, <1>2 DEF JobInv, PricedAt
  <2> QED BY <1>2, <2>1, <2>2 DEF JobInv
<1>3. ASSUME job.op = "BATCH"
      PROVE  /\ cycle'[job.cycle].terms \in Terms
             /\ \A m \in Members : job.points[m] = 0
                  \/ job.points[m] >= MinimumPoints[cycle'[job.cycle].terms]
  <2>1. job.cycle \in Cycles
    BY <1>3, JobFields DEF BatchJob
  <2>2. cycle'[job.cycle] = cycle[job.cycle]
    BY <1>3, <2>1 DEF JobInv, Growth
  <2> QED BY <1>3, <2>2 DEF JobInv
<1>4. ASSUME job.op = "SET"
      PROVE  /\ assignment'[job.member][job.cycle].status # "NONE"
             /\ job.status = "PROCESSING"
                  => batch'[assignment'[job.member][job.cycle].batch] = "APPROVED"
  <2>1. job.member \in Members /\ job.cycle \in Cycles
    BY <1>4, JobFields DEF SetJob
  <2>2. assignment[job.member][job.cycle].batch \in Batches
    BY <1>4, <2>1 DEF JobInv, AssignmentsPriced
  <2>3. /\ assignment'[job.member][job.cycle].status # "NONE"
        /\ assignment'[job.member][job.cycle].batch = assignment[job.member][job.cycle].batch
    BY <1>4, <2>1 DEF JobInv, Growth
  <2> QED BY <1>4, <2>2, <2>3 DEF JobInv, Growth
<1> QED
  BY <1>1, <1>2, <1>3, <1>4 DEF JobInv

\* An idle slot relies on nothing.
LEMMA IdleJob == Idle \in Job /\ JobInv(Idle)
BY DEF Idle, Job, JobInv

\* A step that gives one slot a well-founded job keeps every slot well founded.
LEMMA SlotStep ==
  ASSUME TypeOK, JobsInv, AssignmentsPriced, Growth, settings' = settings,
         NEW q \in Requests, NEW job \in Job, JobInv(job),
         req' = [req EXCEPT ![q] = job]
  PROVE  JobsInv'
<1> SUFFICES ASSUME NEW p \in Requests PROVE JobInv(req[p])'
  BY DEF JobsInv
<1>1. req'[p] = IF p = q THEN job ELSE req[p]
  BY DEF TypeOK
<1>2. PICK j \in Job : j = req'[p] /\ JobInv(j)
  BY <1>1 DEF TypeOK, JobsInv
<1>3. JobInv(j)'
  BY <1>2, GrowthKeepsJobs DEF JobInv
<1> QED BY <1>2, <1>3 DEF JobInv, isUnreconciledLegacyClaim, PricedAt, Amount

\* Handlers in flight rely only on what stays true until they commit.
LEMMA NextJobs ==
  ASSUME TypeOK, JobsInv, CyclesInv, AssignmentsPriced, OnlyApprovedBatchesPay,
         [Next]_vars
  PROVE  JobsInv'
<1>0. Growth
  BY NextGrows
<1>1. ASSUME \A q \in Requests : req[q].op = "PAY" => TRUE \in settings',
             UNCHANGED req
      PROVE  JobsInv'
  <2>1. \A q \in Requests : req[q] \in Job /\ JobInv(req[q])
    BY DEF TypeOK, JobsInv
  <2> SUFFICES ASSUME NEW q \in Requests PROVE JobInv(req[q])'
    BY DEF JobsInv
  <2>2. PICK j \in Job : j = req[q] /\ JobInv(j)
    BY <2>1
  <2>3. j = req'[q]
    BY <1>1, <2>2
  <2>4. JobInv(j)'
    BY <1>0, <1>1, <2>2, GrowthKeepsJobs
  <2> QED BY <2>3, <2>4 DEF JobInv, isUnreconciledLegacyClaim, PricedAt, Amount
<1>2. ASSUME settings' = settings, NEW q \in Requests, Finish(q) PROVE JobsInv'
  BY <1>0, <1>2, IdleJob, SlotStep DEF Finish
<1>3. ASSUME settings' = settings, NEW q \in Requests, NEW job \in Job, JobInv(job),
             Begin(q, job)
      PROVE  JobsInv'
  BY <1>0, <1>3, SlotStep DEF Begin
<1>6. ASSUME UNCHANGED <<settings, req>> PROVE JobsInv'
  BY <1>1, <1>6 DEF JobsInv, JobInv
<1>4. ASSUME NEW q \in Requests, RedemptionRoutes(q) PROVE JobsInv'
  <2>1. ASSUME NEW m \in Members, NEW points \in RequestSizes, RedeemValue(q, m, points)
        PROVE  JobsInv'
    <3> DEFINE job == [op |-> "REDEEM", member |-> m, points |-> points]
    <3>1. job \in Job /\ JobInv(job)
      BY DEF Job, RedeemJob, JobInv
    <3> QED BY <2>1, <3>1, <1>3 DEF RedeemValue
  <2>2. ASSUME NEW m \in Members, NEW i \in Redemptions, ApproveRead(q, m, i)
        PROVE  JobsInv'
    <3> DEFINE job == [op |-> "APPROVE", member |-> m, id |-> i, valued |-> FALSE]
    <3>1. job \in Job /\ JobInv(job)
      BY <2>2 DEF Job, ApproveJob, JobInv, ApproveRead
    <3> QED BY <2>2, <3>1, <1>3 DEF ApproveRead
  <2>3. ASSUME ApproveValue(q) PROVE JobsInv'
    <3> DEFINE job == IF Approvable(req[q].member, req[q].id)
                        THEN [req[q] EXCEPT !.valued = TRUE] ELSE Idle
    <3>1. req[q] \in ApproveJob /\ JobInv(req[q])
      BY <2>3, JobFields DEF ApproveValue, TypeOK, JobsInv
    <3>2. [req[q] EXCEPT !.valued = TRUE] \in Job
      BY <3>1 DEF ApproveJob, Job
    <3>3. JobInv([req[q] EXCEPT !.valued = TRUE])
      BY <3>1 DEF ApproveJob, JobInv
    <3>4. job \in Job /\ JobInv(job)
      BY <3>2, <3>3, IdleJob
    <3>5. req' = [req EXCEPT ![q] = job] /\ settings' = settings
      BY <2>3 DEF ApproveValue
    <3> HIDE DEF job
    <3> QED BY <1>0, <3>4, <3>5, SlotStep
  <2>4. ASSUME NEW m \in Members, NEW i \in Redemptions, RejectRead(q, m, i)
        PROVE  JobsInv'
    <3> DEFINE job == [op |-> "REJECT", member |-> m, id |-> i]
    <3>1. job \in Job /\ JobInv(job)
      BY <2>4 DEF Job, RejectJob, JobInv, RejectRead
    <3> QED BY <2>4, <3>1, <1>3 DEF RejectRead
  <2>5. ASSUME NEW m \in Members, NEW i \in Redemptions, NEW ref \in References,
               PayRedemptionValue(q, m, i, ref)
        PROVE  JobsInv'
    <3> DEFINE job == [op |-> "PAY", member |-> m, id |-> i, reference |-> ref,
                       amount |-> Amount(redemption[m][i].points, active)]
    <3>1. active \in Terms /\ redemption[m][i].points >= MinimumPoints[active]
      BY <2>5 DEF PayRedemptionValue, PayableRedemption, meetsThreshold, TypeOK
    <3>2. redemption[m][i].points \in Nat
      BY DEF TypeOK, RedemptionRow
    <3>3. Amount(redemption[m][i].points, active) \in Nat
      BY <3>1, <3>2, AmountType
    <3>4. job \in Job
      BY <3>3 DEF Job, PayJob
    <3>5. PricedAt(redemption[m][i].points, Amount(redemption[m][i].points, active))
      BY <3>1 DEF PricedAt
    <3>6. JobInv(job)
      BY <2>5, <3>5 DEF JobInv, PayRedemptionValue, PayableRedemption
    <3> QED BY <2>5, <3>4, <3>6, <1>3 DEF PayRedemptionValue
  <2> QED
    BY <1>2, <1>4, <2>1, <2>2, <2>3, <2>4, <2>5
    DEF RedemptionRoutes, RedeemInsert, ApproveWrite, RejectWrite, PayRedemption,
        PayRedemptionRefused
<1>5. ASSUME NEW q \in Requests, PayoutRoutes(q) PROVE JobsInv'
  <2>1. ASSUME NEW c \in Cycles, NEW asked \in SUBSET Members, BatchValue(q, c, asked)
        PROVE  JobsInv'
    <3> DEFINE pts == [m \in Members |-> IF m \in EligibleUnder(cycle[c].terms, asked)
                                           THEN eligiblePoints(m) ELSE 0]
    <3> DEFINE job == [op |-> "BATCH", cycle |-> c, points |-> pts]
    <3>1. \A m \in Members : eligiblePoints(m) \in Nat
      BY BalanceTypes
    <3>2. job \in Job
      BY <3>1 DEF Job, BatchJob
    <3>3. cycle[c].terms \in Terms
      BY <2>1 DEF BatchValue, CyclesInv
    <3>4. \A m \in Members : pts[m] = 0 \/ pts[m] >= MinimumPoints[cycle[c].terms]
      BY DEF EligibleUnder
    <3> HIDE DEF pts
    <3>5. JobInv(job)
      BY <3>3, <3>4 DEF JobInv
    <3> QED BY <2>1, <3>2, <3>5, <1>3 DEF BatchValue, pts
  <2>2. ASSUME NEW m \in Members, NEW c \in Cycles,
               NEW s \in {"PROCESSING", "HELD", "REJECTED"}, SetRead(q, m, c, s)
        PROVE  JobsInv'
    <3> DEFINE job == [op |-> "SET", member |-> m, cycle |-> c, status |-> s]
    <3>1. job \in Job
      BY DEF Job, SetJob
    <3>2. JobInv(job)
      BY <2>2 DEF JobInv, SetRead, MayBecome, OnlyApprovedBatchesPay,
                  PAYABLE_ASSIGNMENT_STATUSES
    <3> QED BY <2>2, <3>1, <3>2, <1>3 DEF SetRead
  <2> QED
    BY <1>6, <1>2, <1>5, <2>1, <2>2
    DEF PayoutRoutes, CreateCycle, BatchInsert, ApproveBatch, SetWrite, PayAssignment
<1>7. ASSUME NEW v \in BOOLEAN, Deploy(v) \/ Drained(v) PROVE JobsInv'
  <2>1. \A q \in Requests : req[q].op = "PAY" => TRUE \in settings
    BY DEF JobsInv, JobInv
  <2> QED BY <1>1, <1>7, <2>1 DEF Deploy, Drained
<1>8. ASSUME NEW q \in Requests, Lost(q) PROVE JobsInv'
  BY <1>2, <1>8 DEF Lost
<1> QED
  BY <1>4, <1>5, <1>6, <1>7, <1>8
  DEF Next, Operations, Ledger, Earn, ReconcileCarryover, CreateConfiguration, vars

\* Cycle rows keep well-formed terms.
LEMMA NextCycles ==
  ASSUME TypeOK, CyclesInv, [Next]_vars
  PROVE  CyclesInv'
<1>1. ASSUME UNCHANGED cycle PROVE CyclesInv'
  BY <1>1 DEF CyclesInv
<1>2. ASSUME NEW q \in Requests, NEW c \in Cycles, CreateCycle(q, c) PROVE CyclesInv'
  BY <1>2 DEF CreateCycle, CyclesInv, TypeOK
<1>3. ASSUME NEW q \in Requests, Ledger(q) PROVE UNCHANGED cycle
  BY <1>3 DEF Ledger, Earn, ReconcileCarryover, CreateConfiguration
<1>4. ASSUME NEW q \in Requests, RedemptionRoutes(q) PROVE UNCHANGED cycle
  BY <1>4
  DEF RedemptionRoutes, RedeemValue, RedeemInsert, ApproveRead, ApproveValue,
     ApproveWrite, RejectRead, RejectWrite, PayRedemptionValue, PayRedemption,
     PayRedemptionRefused
<1>5. ASSUME NEW q \in Requests, PayoutRoutes(q)
      PROVE  UNCHANGED cycle \/ \E c \in Cycles : CreateCycle(q, c)
  BY <1>5
  DEF PayoutRoutes, BatchValue, BatchInsert, ApproveBatch, SetRead, SetWrite,
     PayAssignment
<1>6. ASSUME Operations PROVE UNCHANGED cycle
  BY <1>6, OperationsFrame
<1>7. UNCHANGED vars => UNCHANGED cycle
  BY DEF vars
<1> QED BY <1>1, <1>2, <1>3, <1>4, <1>5, <1>6, <1>7 DEF Next

\* Only four steps write assignment rows.
LEMMA AssignmentWriters ==
  ASSUME [Next]_vars
  PROVE  \/ UNCHANGED assignment
         \/ \E q \in Requests, b \in Batches : BatchInsert(q, b)
         \/ \E q \in Requests, b \in Batches : ApproveBatch(q, b)
         \/ \E q \in Requests : SetWrite(q)
         \/ \E q \in Requests, m \in Members, c \in Cycles, ref \in References :
              PayAssignment(q, m, c, ref)
<1>1. ASSUME NEW q \in Requests, Ledger(q) PROVE UNCHANGED assignment
  BY <1>1 DEF Ledger, Earn, ReconcileCarryover, CreateConfiguration
<1>2. ASSUME NEW q \in Requests, RedemptionRoutes(q) PROVE UNCHANGED assignment
  BY <1>2
  DEF RedemptionRoutes, RedeemValue, RedeemInsert, ApproveRead, ApproveValue,
     ApproveWrite, RejectRead, RejectWrite, PayRedemptionValue, PayRedemption,
     PayRedemptionRefused
<1>3. ASSUME NEW q \in Requests, PayoutRoutes(q)
      PROVE  \/ UNCHANGED assignment
             \/ \E b \in Batches : BatchInsert(q, b) \/ ApproveBatch(q, b)
             \/ SetWrite(q)
             \/ \E m \in Members, c \in Cycles, ref \in References :
                  PayAssignment(q, m, c, ref)
  BY <1>3 DEF PayoutRoutes, CreateCycle, BatchValue, SetRead
<1>4. Operations \/ UNCHANGED vars => UNCHANGED assignment
  BY OperationsFrame DEF vars
<1> QED BY <1>1, <1>2, <1>3, <1>4 DEF Next

\* Only four steps write redemption rows.
LEMMA RedemptionWriters ==
  ASSUME [Next]_vars
  PROVE  \/ UNCHANGED redemption
         \/ \E q \in Requests : RedeemInsert(q)
         \/ \E q \in Requests : ApproveWrite(q)
         \/ \E q \in Requests : RejectWrite(q)
         \/ \E q \in Requests : PayRedemption(q)
<1>1. ASSUME NEW q \in Requests, Ledger(q) PROVE UNCHANGED redemption
  BY <1>1 DEF Ledger, Earn, ReconcileCarryover, CreateConfiguration
<1>2. ASSUME NEW q \in Requests, RedemptionRoutes(q)
      PROVE  \/ UNCHANGED redemption
             \/ RedeemInsert(q) \/ ApproveWrite(q) \/ RejectWrite(q) \/ PayRedemption(q)
  BY <1>2 DEF RedemptionRoutes, RedeemValue, ApproveRead, ApproveValue, RejectRead,
     PayRedemptionValue, PayRedemptionRefused
<1>3. ASSUME NEW q \in Requests, PayoutRoutes(q) PROVE UNCHANGED redemption
  BY <1>3
  DEF PayoutRoutes, CreateCycle, BatchValue, BatchInsert, ApproveBatch, SetRead,
     SetWrite, PayAssignment
<1>4. Operations \/ UNCHANGED vars => UNCHANGED redemption
  BY OperationsFrame DEF vars
<1> QED BY <1>1, <1>2, <1>3, <1>4 DEF Next

\* Only the two payments write execution records.
LEMMA ExecutionWriters ==
  ASSUME [Next]_vars
  PROVE  \/ UNCHANGED executions
         \/ \E q \in Requests : PayRedemption(q)
         \/ \E q \in Requests, m \in Members, c \in Cycles, ref \in References :
              PayAssignment(q, m, c, ref)
<1>1. ASSUME NEW q \in Requests, Ledger(q) PROVE UNCHANGED executions
  BY <1>1 DEF Ledger, Earn, ReconcileCarryover, CreateConfiguration
<1>2. ASSUME NEW q \in Requests, RedemptionRoutes(q)
      PROVE  UNCHANGED executions \/ PayRedemption(q)
  BY <1>2
  DEF RedemptionRoutes, RedeemValue, RedeemInsert, ApproveRead, ApproveValue,
     ApproveWrite, RejectRead, RejectWrite, PayRedemptionValue,
     PayRedemptionRefused
<1>3. ASSUME NEW q \in Requests, PayoutRoutes(q)
      PROVE  \/ UNCHANGED executions
             \/ \E m \in Members, c \in Cycles, ref \in References :
                  PayAssignment(q, m, c, ref)
  BY <1>3
  DEF PayoutRoutes, CreateCycle, BatchValue, BatchInsert, ApproveBatch, SetRead,
     SetWrite
<1>4. Operations \/ UNCHANGED vars => UNCHANGED executions
  BY OperationsFrame DEF vars
<1> QED BY <1>1, <1>2, <1>3, <1>4 DEF Next

\* Assignment rows stay priced by their cycle's snapshot.
LEMMA NextPriced ==
  ASSUME TypeOK, JobsInv, AssignmentsPriced, [Next]_vars
  PROVE  AssignmentsPriced'
<1>0. Growth
  BY NextGrows
<1>1. ASSUME NEW m \in Members, NEW c \in Cycles, assignment[m][c].status # "NONE"
      PROVE  /\ cycle'[c].terms \in Terms
             /\ assignment'[m][c].points >= MinimumPoints[cycle'[c].terms]
             /\ assignment'[m][c].amount = Amount(assignment'[m][c].points, cycle'[c].terms)
             /\ assignment'[m][c].batch \in Batches
             /\ batch'[assignment'[m][c].batch] # "NONE"
  <2>1. /\ cycle[c].terms \in Terms
        /\ assignment[m][c].points >= MinimumPoints[cycle[c].terms]
        /\ assignment[m][c].amount = Amount(assignment[m][c].points, cycle[c].terms)
        /\ assignment[m][c].batch \in Batches
        /\ batch[assignment[m][c].batch] # "NONE"
    BY <1>1 DEF AssignmentsPriced
  <2>2. /\ cycle'[c] = cycle[c]
        /\ assignment'[m][c].points = assignment[m][c].points
        /\ assignment'[m][c].amount = assignment[m][c].amount
        /\ assignment'[m][c].batch = assignment[m][c].batch
        /\ batch'[assignment[m][c].batch] # "NONE"
    BY <1>0, <1>1, <2>1 DEF Growth
  <2> QED BY <2>1, <2>2
<1>2. ASSUME NEW m \in Members, NEW c \in Cycles, assignment[m][c].status = "NONE",
             assignment'[m][c].status # "NONE"
      PROVE  /\ cycle'[c].terms \in Terms
             /\ assignment'[m][c].points >= MinimumPoints[cycle'[c].terms]
             /\ assignment'[m][c].amount = Amount(assignment'[m][c].points, cycle'[c].terms)
             /\ assignment'[m][c].batch \in Batches
             /\ batch'[assignment'[m][c].batch] # "NONE"
  <2>1. ASSUME NEW q \in Requests, SetWrite(q) PROVE FALSE
    <3>1. /\ req[q] \in SetJob
          /\ AssignmentMoved(req[q].member, req[q].cycle, req[q].status)
      BY <2>1, StatusWrites
    <3>2. assignment[req[q].member][req[q].cycle].status # "NONE"
      BY <2>1 DEF SetWrite, JobsInv, JobInv
    <3> QED BY <1>2, <3>1, <3>2 DEF AssignmentMoved
  <2>2. ASSUME NEW q \in Requests, NEW n \in Members, NEW d \in Cycles,
               NEW ref \in References, PayAssignment(q, n, d, ref)
        PROVE  FALSE
    <3>1. AssignmentMoved(n, d, "PAID")
      BY <2>2, StatusWrites
    <3>2. assignment[n][d].status # "NONE"
      BY <2>2 DEF PayAssignment, AssignmentClaim, PAYABLE_ASSIGNMENT_STATUSES
    <3> QED BY <1>2, <3>1, <3>2 DEF AssignmentMoved
  <2>3. ASSUME NEW q \in Requests, NEW b \in Batches, ApproveBatch(q, b) PROVE FALSE
    BY <1>2, <2>3, ApprovalUpdate
  <2>4. PICK q \in Requests, b \in Batches : BatchInsert(q, b)
    BY <1>2, <2>1, <2>2, <2>3, AssignmentWriters
  <2>5. /\ cycle[req[q].cycle].terms \in Terms
        /\ \A n \in Members : req[q].points[n] = 0
             \/ req[q].points[n] >= MinimumPoints[cycle[req[q].cycle].terms]
    BY <2>4 DEF BatchInsert, JobsInv, JobInv
  <2>6. /\ c = req[q].cycle /\ req[q].points[m] > 0
        /\ req[q].points \in [Members -> Nat]
        /\ assignment'[m][c].points = req[q].points[m]
        /\ assignment'[m][c].amount = Amount(req[q].points[m], cycle[c].terms)
        /\ assignment'[m][c].batch = b
    BY <1>2, <2>4, <2>5, InsertUpdate
  <2>7. cycle' = cycle /\ batch'[b] = "ELIGIBLE"
    BY <2>4 DEF BatchInsert, TypeOK
  <2> QED BY <2>5, <2>6, <2>7
<1>3. ASSUME NEW m \in Members, NEW c \in Cycles
      PROVE  \/ assignment'[m][c].status = "NONE"
             \/ /\ cycle'[c].terms \in Terms
                /\ assignment'[m][c].points >= MinimumPoints[cycle'[c].terms]
                /\ assignment'[m][c].amount = Amount(assignment'[m][c].points, cycle'[c].terms)
                /\ assignment'[m][c].batch \in Batches
                /\ batch'[assignment'[m][c].batch] # "NONE"
  BY <1>1, <1>2
<1> QED BY <1>3 DEF AssignmentsPriced, Amount

\* Whatever may still be paid sits in an approved batch.
LEMMA NextApproved ==
  ASSUME TypeOK, JobsInv, AssignmentsPriced, OnlyApprovedBatchesPay, [Next]_vars
  PROVE  OnlyApprovedBatchesPay'
<1> DEFINE Open == PAYABLE_ASSIGNMENT_STATUSES \cup {"PAID"}
<1> SUFFICES ASSUME NEW m \in Members, NEW c \in Cycles,
                    assignment'[m][c].status \in Open
             PROVE  batch'[assignment'[m][c].batch] = "APPROVED"
  BY DEF OnlyApprovedBatchesPay
<1>0. Growth
  BY NextGrows
<1>1. ASSUME assignment[m][c].status # "NONE", batch[assignment[m][c].batch] = "APPROVED"
      PROVE  batch'[assignment'[m][c].batch] = "APPROVED"
  BY <1>0, <1>1 DEF Growth, AssignmentsPriced
<1>2. ASSUME assignment[m][c].status \in Open
      PROVE  batch'[assignment'[m][c].batch] = "APPROVED"
  BY <1>1, <1>2 DEF OnlyApprovedBatchesPay, PAYABLE_ASSIGNMENT_STATUSES
<1>3. ASSUME NEW q \in Requests, NEW b \in Batches, BatchInsert(q, b)
      PROVE  batch'[assignment'[m][c].batch] = "APPROVED"
  <2>1. cycle[req[q].cycle].terms \in Terms
    BY <1>3 DEF BatchInsert, JobsInv, JobInv
  <2>2. assignment'[m][c] = assignment[m][c] \/ assignment'[m][c].status = "ELIGIBLE"
    BY <1>3, <2>1, InsertUpdate
  <2> QED BY <1>2, <2>2 DEF PAYABLE_ASSIGNMENT_STATUSES
<1>4. ASSUME NEW q \in Requests, NEW b \in Batches, ApproveBatch(q, b)
      PROVE  batch'[assignment'[m][c].batch] = "APPROVED"
  <2>1. batch'[b] = "APPROVED"
    BY <1>4 DEF ApproveBatch, TypeOK
  <2>2. \/ assignment'[m][c].status = assignment[m][c].status
        \/ assignment'[m][c].batch = b
    BY <1>4, ApprovalUpdate
  <2> QED BY <1>2, <2>1, <2>2
<1>5. ASSUME NEW q \in Requests, SetWrite(q)
      PROVE  batch'[assignment'[m][c].batch] = "APPROVED"
  <2>1. /\ req[q] \in SetJob
        /\ AssignmentMoved(req[q].member, req[q].cycle, req[q].status)
    BY <1>5, StatusWrites
  <2>2. /\ assignment[req[q].member][req[q].cycle].status # "NONE"
        /\ req[q].status = "PROCESSING"
             => batch[assignment[req[q].member][req[q].cycle].batch] = "APPROVED"
    BY <1>5 DEF SetWrite, JobsInv, JobInv
  <2>3. CASE m = req[q].member /\ c = req[q].cycle
    <3>1. assignment'[m][c].status = req[q].status
      BY <2>1, <2>3 DEF AssignmentMoved
    <3>2. req[q].status = "PROCESSING"
      BY <2>1, <3>1 DEF SetJob, PAYABLE_ASSIGNMENT_STATUSES
    <3> QED BY <1>1, <2>2, <2>3, <3>2
  <2>4. CASE ~(m = req[q].member /\ c = req[q].cycle)
    BY <1>2, <2>1, <2>4 DEF AssignmentMoved
  <2> QED BY <2>3, <2>4
<1>6. ASSUME NEW q \in Requests, NEW n \in Members, NEW d \in Cycles,
             NEW ref \in References, PayAssignment(q, n, d, ref)
      PROVE  batch'[assignment'[m][c].batch] = "APPROVED"
  <2>1. AssignmentMoved(n, d, "PAID")
    BY <1>6, StatusWrites
  <2>2. assignment[n][d].status \in Open
    BY <1>6 DEF PayAssignment, AssignmentClaim
  <2>3. assignment[m][c].status \in Open
    BY <2>1, <2>2 DEF AssignmentMoved
  <2> QED BY <1>2, <2>3
<1> QED
  BY <1>2, <1>3, <1>4, <1>5, <1>6, AssignmentWriters

\* A paid row has its record.
LEMMA NextRecorded ==
  ASSUME TypeOK, JobsInv, PaidIsRecorded, [Next]_vars
  PROVE  PaidIsRecorded'
<1>0. Growth
  BY NextGrows
<1>1. \A k, m, t : Executed(k, m, t) => Executed(k, m, t)'
  BY <1>0 DEF Growth, Executed
<1>2. ASSUME NEW m \in Members, NEW c \in Cycles, assignment'[m][c].status = "PAID"
      PROVE  Executed("ASSIGNMENT", m, c)'
  <2>1. CASE assignment[m][c].status = "PAID"
    BY <1>1, <2>1 DEF PaidIsRecorded
  <2>2. ASSUME assignment[m][c].status # "PAID" PROVE Executed("ASSIGNMENT", m, c)'
    <3>1. ASSUME NEW q \in Requests, NEW b \in Batches, BatchInsert(q, b) PROVE FALSE
      <4>1. cycle[req[q].cycle].terms \in Terms
        BY <3>1 DEF BatchInsert, JobsInv, JobInv
      <4> QED BY <1>2, <2>2, <3>1, <4>1, InsertUpdate
    <3>2. ASSUME NEW q \in Requests, NEW b \in Batches, ApproveBatch(q, b) PROVE FALSE
      BY <1>2, <2>2, <3>2, ApprovalUpdate
    <3>3. ASSUME NEW q \in Requests, SetWrite(q) PROVE FALSE
      <4>1. /\ req[q] \in SetJob
            /\ AssignmentMoved(req[q].member, req[q].cycle, req[q].status)
        BY <3>3, StatusWrites
      <4> QED BY <1>2, <2>2, <4>1 DEF AssignmentMoved, SetJob
    <3>4. PICK q \in Requests, n \in Members, d \in Cycles, ref \in References :
            PayAssignment(q, n, d, ref)
      BY <1>2, <2>2, <3>1, <3>2, <3>3, AssignmentWriters
    <3>5. m = n /\ c = d
      BY <1>2, <2>2, <3>4, StatusWrites DEF AssignmentMoved
    <3> QED BY <3>4, <3>5 DEF PayAssignment, Executed, AssignmentExecution
  <2> QED BY <2>1, <2>2
<1>3. ASSUME NEW m \in Members, NEW i \in Redemptions, redemption'[m][i].status = "PAID"
      PROVE  Executed("REDEMPTION", m, i)' \/ redemption'[m][i].prior
  <2>1. CASE redemption[m][i].status = "PAID"
    BY <1>0, <1>1, <2>1 DEF PaidIsRecorded, Growth
  <2>2. ASSUME redemption[m][i].status # "PAID" PROVE Executed("REDEMPTION", m, i)'
    <3>1. ASSUME NEW q \in Requests, RedeemInsert(q) PROVE FALSE
      <4>1. PICK k \in Redemptions :
              /\ req[q].member \in Members
              /\ redemption'[req[q].member][k] =
                   [status |-> "PENDING", points |-> req[q].points, prior |-> FALSE]
              /\ \A n \in Members, j \in Redemptions :
                   n # req[q].member \/ j # k => redemption'[n][j] = redemption[n][j]
        BY <3>1, InsertRedemption
      <4>2. redemption'[req[q].member][k].status = "PENDING"
        BY <4>1
      <4> QED BY <1>3, <2>2, <4>1, <4>2
    <3>2. ASSUME NEW q \in Requests, ApproveWrite(q) PROVE FALSE
      BY <1>3, <2>2, <3>2, StatusWrites DEF RedemptionMoved
    <3>3. ASSUME NEW q \in Requests, RejectWrite(q) PROVE FALSE
      BY <1>3, <2>2, <3>3, StatusWrites DEF RedemptionMoved
    <3>4. PICK q \in Requests : PayRedemption(q)
      BY <1>3, <2>2, <3>1, <3>2, <3>3, RedemptionWriters
    <3>5. m = req[q].member /\ i = req[q].id
      BY <1>3, <2>2, <3>4, StatusWrites DEF RedemptionMoved
    <3>6. RedemptionExecution(req[q]) \in executions'
      BY <3>4 DEF PayRedemption
    <3> QED BY <3>5, <3>6 DEF Executed, RedemptionExecution
  <2> QED BY <2>1, <2>2
<1> QED BY <1>2, <1>3 DEF PaidIsRecorded

\* A payment leaves behind exactly one new record, describing an existing row
\* that no earlier record describes, under a reference no earlier record used.
NewExecution(e) ==
  /\ e \in ExecutionRow
  /\ executions' = executions \cup {e}
  /\ \A f \in executions :
       /\ f.reference # e.reference
       /\ ~(f.kind = e.kind /\ f.member = e.member /\ f.target = e.target)
  /\ \/ /\ e.kind = "ASSIGNMENT"
        /\ e.target \in Cycles
        /\ assignment[e.member][e.target].status # "NONE"
        /\ cycle[e.target].sourced
        /\ e.points = assignment[e.member][e.target].points
        /\ e.amount = assignment[e.member][e.target].amount
        /\ e.amount > 0
     \/ /\ e.kind = "REDEMPTION"
        /\ e.target \in Redemptions
        /\ redemption[e.member][e.target].status # "NONE"
        /\ e.points = redemption[e.member][e.target].points
        /\ PricedAt(e.points, e.amount)
        /\ ~isUnreconciledLegacyClaim(e.member, e.target)

\* Only a payment writes execution records, and it writes one new record.
LEMMA PaymentsRecord ==
  ASSUME TypeOK, JobsInv, [Next]_vars, executions' # executions
  PROVE  \E e : NewExecution(e)
<1>1. ASSUME NEW q \in Requests, PayRedemption(q) PROVE \E e : NewExecution(e)
  <2> DEFINE e == RedemptionExecution(req[q])
  <2>1. /\ req[q] \in PayJob /\ JobInv(req[q])
    BY <1>1, StatusWrites DEF JobsInv
  <2>2. /\ req[q].op = "PAY" /\ req[q].member \in Members /\ req[q].id \in Redemptions
        /\ req[q].id \in Nat /\ req[q].amount \in Nat /\ req[q].reference \in References
    BY <2>1 DEF PayJob, Redemptions
  <2>3. redemption[req[q].member][req[q].id].points \in Nat
    BY <2>2 DEF TypeOK, RedemptionRow
  <2>4. /\ e.kind = "REDEMPTION" /\ e.member = req[q].member /\ e.target = req[q].id
        /\ e.points = redemption[req[q].member][req[q].id].points
        /\ e.amount = req[q].amount /\ e.reference = req[q].reference
        /\ e \in ExecutionRow
    BY <2>2, <2>3 DEF RedemptionExecution, ExecutionRow
  <2>5. /\ executions' = executions \cup {e}
        /\ IndexesAllow(e)
    BY <1>1 DEF PayRedemption
  <2>6. /\ redemption[req[q].member][req[q].id].status # "NONE"
        /\ ~isUnreconciledLegacyClaim(req[q].member, req[q].id)
        /\ PricedAt(redemption[req[q].member][req[q].id].points, req[q].amount)
    BY <2>1, <2>2 DEF JobInv
  <2> HIDE DEF e
  <2>7. NewExecution(e)
    BY <2>2, <2>4, <2>5, <2>6 DEF NewExecution, IndexesAllow, Executed
  <2> QED BY <2>7
<1>2. ASSUME NEW q \in Requests, NEW m \in Members, NEW c \in Cycles,
             NEW ref \in References, PayAssignment(q, m, c, ref)
      PROVE  \E e : NewExecution(e)
  <2> DEFINE e == AssignmentExecution(m, c, ref)
  <2>0. c \in Nat
    BY DEF Cycles
  <2>1. /\ assignment[m][c] \in AssignmentRow
        /\ assignment[m][c].points \in Nat /\ assignment[m][c].amount \in Nat
    BY DEF TypeOK, AssignmentRow
  <2>2. /\ e.kind = "ASSIGNMENT" /\ e.member = m /\ e.target = c
        /\ e.points = assignment[m][c].points
        /\ e.amount = assignment[m][c].amount /\ e.reference = ref
        /\ e \in ExecutionRow
    BY <2>0, <2>1 DEF AssignmentExecution, ExecutionRow
  <2>3. /\ executions' = executions \cup {e}
        /\ IndexesAllow(e)
        /\ cycle[c].sourced /\ assignment[m][c].amount > 0
        /\ assignment[m][c].status # "NONE"
    BY <1>2 DEF PayAssignment, AssignmentClaim, PAYABLE_ASSIGNMENT_STATUSES
  <2> HIDE DEF e
  <2>4. NewExecution(e)
    BY <2>2, <2>3 DEF NewExecution, IndexesAllow, Executed
  <2> QED BY <2>4
<1> QED BY <1>1, <1>2, ExecutionWriters

\* Execution records keep describing rows that exist.
LEMMA NextTargets ==
  ASSUME TypeOK, JobsInv, ExecutionsTargetRows, [Next]_vars
  PROVE  ExecutionsTargetRows'
<1>0. Growth
  BY NextGrows
<1> DEFINE Sound(e) ==
      /\ e.kind = "ASSIGNMENT" =>
           e.target \in Cycles /\ assignment'[e.member][e.target].status # "NONE"
      /\ e.kind = "REDEMPTION" =>
           e.target \in Redemptions /\ redemption'[e.member][e.target].status # "NONE"
<1>1. ASSUME NEW e \in executions PROVE Sound(e)
  <2>1. e.member \in Members
    BY DEF TypeOK, ExecutionRow
  <2> QED BY <1>0, <2>1 DEF ExecutionsTargetRows, Growth
<1>2. CASE executions' = executions
  BY <1>1, <1>2 DEF ExecutionsTargetRows
<1>3. CASE executions' # executions
  <2>1. PICK e : NewExecution(e)
    BY <1>3, PaymentsRecord
  <2>2. e.member \in Members
    BY <2>1 DEF NewExecution, ExecutionRow
  <2>3. Sound(e)
    BY <1>0, <2>1, <2>2 DEF NewExecution, Growth
  <2>4. \A f \in executions' : f \in executions \/ f = e
    BY <2>1 DEF NewExecution
  <2> QED BY <1>1, <2>3, <2>4 DEF ExecutionsTargetRows
<1> QED BY <1>2, <1>3

\* No target and no reference is ever paid twice.
LEMMA NextOnce ==
  ASSUME TypeOK, JobsInv, PaidAtMostOnce, [Next]_vars
  PROVE  PaidAtMostOnce'
<1>1. CASE executions' = executions
  BY <1>1 DEF PaidAtMostOnce
<1>2. CASE executions' # executions
  <2>1. PICK e : NewExecution(e)
    BY <1>2, PaymentsRecord
  <2> QED BY <2>1 DEF NewExecution, PaidAtMostOnce
<1> QED BY <1>1, <1>2

\* Records keep the price the server derived.
LEMMA NextDerived ==
  ASSUME TypeOK, JobsInv, AssignmentsPriced, ExecutionsTargetRows,
         AmountIsServerDerived, [Next]_vars
  PROVE  AmountIsServerDerived'
<1>0. Growth
  BY NextGrows
<1> DEFINE Derived(e) ==
      \/ /\ e.kind = "ASSIGNMENT"
         /\ cycle'[e.target].sourced
         /\ e.points = assignment'[e.member][e.target].points
         /\ e.points >= MinimumPoints[cycle'[e.target].terms]
         /\ e.amount = Amount(e.points, cycle'[e.target].terms) /\ e.amount > 0
      \/ /\ e.kind = "REDEMPTION"
         /\ e.points = redemption'[e.member][e.target].points
         /\ PricedAt(e.points, e.amount)
<1>1. ASSUME NEW e \in executions PROVE Derived(e)
  <2>1. e.member \in Members
    BY DEF TypeOK, ExecutionRow
  <2>2. CASE e.kind = "ASSIGNMENT"
    <3>1. e.target \in Cycles /\ assignment[e.member][e.target].status # "NONE"
      BY <2>2 DEF ExecutionsTargetRows
    <3>2. cycle[e.target].terms \in Terms
      BY <2>1, <3>1 DEF AssignmentsPriced
    <3>3. /\ cycle'[e.target] = cycle[e.target]
          /\ assignment'[e.member][e.target].points = assignment[e.member][e.target].points
      BY <1>0, <2>1, <3>1, <3>2 DEF Growth
    <3> QED BY <2>2, <3>3 DEF AmountIsServerDerived
  <2>3. CASE e.kind = "REDEMPTION"
    <3>1. e.target \in Redemptions /\ redemption[e.member][e.target].status # "NONE"
      BY <2>3 DEF ExecutionsTargetRows
    <3>2. redemption'[e.member][e.target].points = redemption[e.member][e.target].points
      BY <1>0, <2>1, <3>1 DEF Growth
    <3> QED BY <2>3, <3>2 DEF AmountIsServerDerived, PricedAt
  <2>4. e.kind \in {"ASSIGNMENT", "REDEMPTION"}
    BY DEF TypeOK, ExecutionRow
  <2> QED BY <2>2, <2>3, <2>4
<1>2. ASSUME NEW e, NewExecution(e) PROVE Derived(e)
  <2>1. e.member \in Members
    BY <1>2 DEF NewExecution, ExecutionRow
  <2>2. CASE e.kind = "ASSIGNMENT"
    <3>1. /\ e.target \in Cycles /\ assignment[e.member][e.target].status # "NONE"
          /\ cycle[e.target].sourced
          /\ e.points = assignment[e.member][e.target].points
          /\ e.amount = assignment[e.member][e.target].amount /\ e.amount > 0
      BY <1>2, <2>2 DEF NewExecution
    <3>2. /\ cycle[e.target].terms \in Terms
          /\ e.points >= MinimumPoints[cycle[e.target].terms]
          /\ e.amount = Amount(e.points, cycle[e.target].terms)
      BY <2>1, <3>1 DEF AssignmentsPriced
    <3>3. /\ cycle'[e.target] = cycle[e.target]
          /\ assignment'[e.member][e.target].points = assignment[e.member][e.target].points
      BY <1>0, <2>1, <3>1, <3>2 DEF Growth
    <3> QED BY <2>2, <3>1, <3>2, <3>3
  <2>3. CASE e.kind = "REDEMPTION"
    <3>1. /\ e.target \in Redemptions /\ redemption[e.member][e.target].status # "NONE"
          /\ e.points = redemption[e.member][e.target].points
          /\ PricedAt(e.points, e.amount)
      BY <1>2, <2>3 DEF NewExecution
    <3>2. redemption'[e.member][e.target].points = redemption[e.member][e.target].points
      BY <1>0, <2>1, <3>1 DEF Growth
    <3> QED BY <2>3, <3>1, <3>2
  <2>4. e.kind \in {"ASSIGNMENT", "REDEMPTION"}
    BY <1>2 DEF NewExecution
  <2> QED BY <2>2, <2>3, <2>4
<1>3. \A e \in executions' : Derived(e)
  <2>1. CASE executions' = executions
    BY <1>1, <2>1
  <2>2. CASE executions' # executions
    <3>1. PICK e : NewExecution(e)
      BY <2>2, PaymentsRecord
    <3>2. \A f \in executions' : f \in executions \/ f = e
      BY <3>1 DEF NewExecution
    <3> HIDE DEF Derived
    <3> QED BY <1>1, <1>2, <3>1, <3>2
  <2> QED BY <2>1, <2>2
<1> QED BY <1>3 DEF AmountIsServerDerived, PricedAt, Amount

\* A claim on a legacy balance still waiting for its ratio is never paid.
LEMMA NextLegacy ==
  ASSUME TypeOK, JobsInv, ExecutionsTargetRows, LegacyNeverPaid, [Next]_vars
  PROVE  LegacyNeverPaid'
<1>0. Growth
  BY NextGrows
<1> DEFINE Safe(e) == e.kind = "REDEMPTION" =>
             ~(redemption'[e.member][e.target].prior /\ carryover'[e.member] = "PENDING")
<1>1. ASSUME NEW e \in executions PROVE Safe(e)
  <2> SUFFICES ASSUME e.kind = "REDEMPTION" PROVE Safe(e)
    OBVIOUS
  <2>1. e.member \in Members
    BY DEF TypeOK, ExecutionRow
  <2>2. e.target \in Redemptions /\ redemption[e.member][e.target].status # "NONE"
    BY DEF ExecutionsTargetRows
  <2>3. ~isUnreconciledLegacyClaim(e.member, e.target)
    BY DEF LegacyNeverPaid
  <2> QED BY <1>0, <2>1, <2>2, <2>3 DEF Growth, isUnreconciledLegacyClaim
<1>2. ASSUME NEW e, NewExecution(e) PROVE Safe(e)
  <2>1. e.member \in Members
    BY <1>2 DEF NewExecution, ExecutionRow
  <2> QED BY <1>0, <1>2, <2>1 DEF NewExecution, Growth, isUnreconciledLegacyClaim
<1>3. CASE executions' = executions
  BY <1>1, <1>3 DEF LegacyNeverPaid, isUnreconciledLegacyClaim
<1>4. CASE executions' # executions
  <2>1. PICK e : NewExecution(e)
    BY <1>4, PaymentsRecord
  <2>2. \A f \in executions' : f \in executions \/ f = e
    BY <2>1 DEF NewExecution
  <2>3. \A f \in executions' : Safe(f)
    <3> HIDE DEF Safe
    <3> QED BY <1>1, <1>2, <2>1, <2>2
  <2> QED BY <2>3 DEF LegacyNeverPaid, isUnreconciledLegacyClaim
<1> QED BY <1>3, <1>4

-------------------------------------------------------------------------------
(* The invariant is inductive, and what it gives *)

\* The invariant holds before any handler runs.
LEMMA InitInv == Init => Inv
<1> SUFFICES ASSUME Init PROVE Inv
  OBVIOUS
<1>1. TypeOK
  BY InitTypeOK
<1>2. /\ executions = {}
      /\ \A m \in Members, c \in Cycles : assignment[m][c].status = "NONE"
      /\ \A q \in Requests : req[q] = Idle
  BY DEF Init, NoAssignment
<1>3. AssignmentsPriced /\ OnlyApprovedBatchesPay
  BY <1>2 DEF AssignmentsPriced, OnlyApprovedBatchesPay, PAYABLE_ASSIGNMENT_STATUSES
<1>4. JobsInv
  BY <1>2, IdleJob DEF JobsInv
<1>5. CyclesInv
  BY DEF Init, CyclesInv
<1>6. ExecutionsTargetRows /\ PaidAtMostOnce /\ AmountIsServerDerived /\ LegacyNeverPaid
  BY <1>2 DEF ExecutionsTargetRows, PaidAtMostOnce, AmountIsServerDerived, LegacyNeverPaid
<1>7. PaidIsRecorded
  <2>1. \A m \in Members, i \in Redemptions :
          redemption[m][i].status = "PAID" => redemption[m][i].prior
    <3> SUFFICES ASSUME NEW m \in Members, NEW i \in Redemptions,
                        redemption[m][i].status = "PAID"
                 PROVE  redemption[m][i].prior
      OBVIOUS
    <3>1. redemption[m][i] = NoRedemption \/ redemption[m][i] \in PriorRow
      BY DEF Init
    <3>2. redemption[m][i] # NoRedemption
      BY DEF NoRedemption
    <3>3. \A r \in PriorRow : r.prior = TRUE
      BY DEF PriorRow
    <3> QED BY <3>1, <3>2, <3>3
  <2> QED BY <1>2, <2>1 DEF PaidIsRecorded
<1> QED BY <1>1, <1>3, <1>4, <1>5, <1>6, <1>7 DEF Inv

\* Every step, of any handler at any point, keeps the invariant.
LEMMA NextInv == Inv /\ [Next]_vars => Inv'
BY NextTypeOK, NextPriced, NextTargets, NextJobs, NextCycles, NextOnce, NextDerived,
   NextLegacy, NextApproved, NextRecorded DEF Inv

\* Every reachable state of every instance satisfies the invariant: whatever
\* the number of handlers in flight and however they interleave.
THEOREM Invariance == Spec => []Inv
BY InitInv, NextInv, PTL DEF Spec

\* Type correctness.
THEOREM TypeCorrect == Spec => []TypeOK
<1>1. Inv => TypeOK
  BY DEF Inv
<1> QED BY <1>1, Invariance, PTL

\* A reservation is paid at most once, a reference identifies one payment:
\* executePayout pays a double submit once, for any number of racing handlers.
THEOREM PaysOnce == Spec => []PaidAtMostOnce
<1>1. Inv => PaidAtMostOnce
  BY DEF Inv
<1> QED BY <1>1, Invariance, PTL

\* Every amount paid was derived by the server from its own terms.
THEOREM ServerDerived == Spec => []AmountIsServerDerived
<1>1. Inv => AmountIsServerDerived
  BY DEF Inv
<1> QED BY <1>1, Invariance, PTL

\* A claim on an unreconciled legacy balance is never paid.
THEOREM LegacySafe == Spec => []LegacyNeverPaid
<1>1. Inv => LegacyNeverPaid
  BY DEF Inv
<1> QED BY <1>1, Invariance, PTL

\* Only assignments of approved batches are payable or paid.
THEOREM ApprovedOnly == Spec => []OnlyApprovedBatchesPay
<1>1. Inv => OnlyApprovedBatchesPay
  BY DEF Inv
<1> QED BY <1>1, Invariance, PTL

\* Every row marked paid under the authority has its execution record.
THEOREM Recorded == Spec => []PaidIsRecorded
<1>1. Inv => PaidIsRecorded
  BY DEF Inv
<1> QED BY <1>1, Invariance, PTL

\* Processes with the switch on and off may serve requests side by side and be
\* replaced in any order; once the last one with it on has drained or died no
\* payment commits, because a payment in flight keeps its process up.
THEOREM KillSwitch == Spec => KillSwitchHolds
<1>1. Inv /\ [Next]_vars => [executions' # executions => TRUE \in settings]_vars
  <2> SUFFICES ASSUME Inv, [Next]_vars, executions' # executions PROVE TRUE \in settings
    OBVIOUS
  <2>1. ASSUME NEW q \in Requests, PayRedemption(q) PROVE TRUE \in settings
    BY <2>1 DEF Inv, JobsInv, JobInv, PayRedemption
  <2>2. ASSUME NEW q \in Requests, NEW m \in Members, NEW c \in Cycles,
               NEW ref \in References, PayAssignment(q, m, c, ref)
        PROVE  TRUE \in settings
    BY <2>2 DEF PayAssignment
  <2> QED BY <2>1, <2>2, ExecutionWriters
<1> QED BY <1>1, Invariance, PTL DEF Spec, KillSwitchHolds

-------------------------------------------------------------------------------
(* One handler at a time.  Interleaved handlers can overspend (the run     *)
(* Payout_overspend finds how).  With one handler in flight nothing commits *)
(* between a read and the write that rests on it (SerialJob), so every     *)
(* commit is covered by earnings, and the rows implement Account.          *)

OneHandler == \A p, q \in Requests : p = q

\* An execution record says that its row is, and stays, PAID.
ExecutedIsPaid ==
  /\ \A m \in Members, c \in Cycles :
       Executed("ASSIGNMENT", m, c) => assignment[m][c].status = "PAID"
  /\ \A m \in Members, i \in Redemptions :
       Executed("REDEMPTION", m, i) => redemption[m][i].status = "PAID"

\* Once a member was assigned points, earnings cover every reservation.
AssignmentsCovered ==
  \A m \in Members, c \in Cycles :
    assignment[m][c].status # "NONE" => reservedPoints(m) <= earned[m]

\* What the handler in flight has read is what its commit will find.
SerialJob(job) ==
  /\ job.op = "REDEEM" => job.points <= eligiblePoints(job.member)
  /\ job.op \in {"APPROVE", "REJECT"} => redemption[job.member][job.id].status = "PENDING"
  /\ job.op = "PAY" => redemption[job.member][job.id].points
                         <= eligibleWithout(job.member, job.id)
  /\ job.op = "BATCH" => \A m \in Members :
       job.points[m] = 0 \/ job.points[m] = eligiblePoints(m)
  /\ job.op = "SET" => MayBecome(assignment[job.member][job.cycle].status, job.status)

SerialInv ==
  /\ Inv
  /\ ExecutedIsPaid
  /\ AssignmentsCovered
  /\ \A q \in Requests : SerialJob(req[q])

\* One row changes a member's reservations by the change of what it holds.
LEMMA ReservedStep ==
  ASSUME TypeOK, TypeOK', NEW m \in Members
  PROVE  /\ /\ \A c \in Cycles : AssignmentHold(m, c)' = AssignmentHold(m, c)
            /\ \A i \in Redemptions : RedemptionHold(m, i)' = RedemptionHold(m, i)
            => reservedPoints(m)' = reservedPoints(m)
         /\ \A c \in Cycles :
            /\ \A d \in Cycles \ {c} : AssignmentHold(m, d)' = AssignmentHold(m, d)
            /\ \A i \in Redemptions : RedemptionHold(m, i)' = RedemptionHold(m, i)
            => reservedPoints(m)' = reservedPoints(m) - AssignmentHold(m, c)
                                                      + AssignmentHold(m, c)'
         /\ \A i \in Redemptions :
            /\ \A c \in Cycles : AssignmentHold(m, c)' = AssignmentHold(m, c)
            /\ \A k \in Redemptions \ {i} : RedemptionHold(m, k)' = RedemptionHold(m, k)
            => reservedPoints(m)' = reservedPoints(m) - RedemptionHold(m, i)
                                                      + RedemptionHold(m, i)'
<1> DEFINE ga == [c \in Cycles |-> AssignmentHold(m, c)]
           ha == [c \in Cycles |-> AssignmentHold(m, c)']
           gr == [i \in Redemptions |-> RedemptionHold(m, i)]
           hr == [i \in Redemptions |-> RedemptionHold(m, i)']
<1>1. /\ \A c \in Cycles : ga[c] \in Nat /\ ha[c] \in Nat
      /\ \A i \in Redemptions : gr[i] \in Nat /\ hr[i] \in Nat
  BY BalanceTypes DEF TypeOK, AssignmentRow, AssignmentHold, RedemptionRow, RedemptionHold
<1>2. /\ reservedPoints(m) = SumTo(ga, NumCycles) + SumTo(gr, NumRedemptions)
      /\ reservedPoints(m)' = SumTo(ha, NumCycles) + SumTo(hr, NumRedemptions)
  BY DEF reservedPoints
<1>3. /\ SumTo(ga, NumCycles) \in Nat /\ SumTo(ha, NumCycles) \in Nat
      /\ SumTo(gr, NumRedemptions) \in Nat /\ SumTo(hr, NumRedemptions) \in Nat
  <2> HIDE DEF ga, ha, gr, hr
  <2> QED BY <1>1, SumType, PayoutAssumption DEF Cycles, Redemptions
<1>4. ASSUME \A c \in Cycles : AssignmentHold(m, c)' = AssignmentHold(m, c)
      PROVE  SumTo(ha, NumCycles) = SumTo(ga, NumCycles)
  <2>1. ha = ga
    BY <1>4
  <2> QED BY <2>1
<1>5. ASSUME \A i \in Redemptions : RedemptionHold(m, i)' = RedemptionHold(m, i)
      PROVE  SumTo(hr, NumRedemptions) = SumTo(gr, NumRedemptions)
  <2>1. hr = gr
    BY <1>5
  <2> QED BY <2>1
<1>6. ASSUME NEW c \in Cycles,
             \A d \in Cycles \ {c} : AssignmentHold(m, d)' = AssignmentHold(m, d)
      PROVE  SumTo(ha, NumCycles) = SumTo(ga, NumCycles) - ga[c] + ha[c]
  <2>1. \A d \in Cycles \ {c} : ga[d] = ha[d]
    BY <1>6
  <2> HIDE DEF ga, ha
  <2> QED BY <1>1, <2>1, SumUpdate, PayoutAssumption DEF Cycles
<1>7. ASSUME NEW i \in Redemptions,
             \A k \in Redemptions \ {i} : RedemptionHold(m, k)' = RedemptionHold(m, k)
      PROVE  SumTo(hr, NumRedemptions) = SumTo(gr, NumRedemptions) - gr[i] + hr[i]
  <2>1. \A k \in Redemptions \ {i} : gr[k] = hr[k]
    BY <1>7
  <2> HIDE DEF gr, hr
  <2> QED BY <1>1, <2>1, SumUpdate, PayoutAssumption DEF Redemptions
<1>8. /\ \A c \in Cycles : ga[c] = AssignmentHold(m, c) /\ ha[c] = AssignmentHold(m, c)'
      /\ \A i \in Redemptions : gr[i] = RedemptionHold(m, i) /\ hr[i] = RedemptionHold(m, i)'
  OBVIOUS
<1> HIDE DEF ga, ha, gr, hr
<1> QED BY <1>1, <1>2, <1>3, <1>4, <1>5, <1>6, <1>7, <1>8

\* What payments discharged is a natural number, row by row.
LEMMA PaidTypes ==
  ASSUME TypeOK, NEW m \in Members
  PROVE  /\ \A c \in Cycles : PaidAssignment(m, c) \in Nat
         /\ \A i \in Redemptions : PaidRedemption(m, i) \in Nat
         /\ PaidPoints(m) \in Nat
<1>1. \A c \in Cycles : PaidAssignment(m, c) \in Nat
  BY DEF TypeOK, AssignmentRow, PaidAssignment
<1>2. \A i \in Redemptions : PaidRedemption(m, i) \in Nat
  BY DEF TypeOK, RedemptionRow, PaidRedemption
<1>3. SumTo([c \in Cycles |-> PaidAssignment(m, c)], NumCycles) \in Nat
  BY <1>1, SumType, PayoutAssumption DEF Cycles
<1>4. SumTo([i \in Redemptions |-> PaidRedemption(m, i)], NumRedemptions) \in Nat
  BY <1>2, SumType, PayoutAssumption DEF Redemptions
<1> QED BY <1>1, <1>2, <1>3, <1>4 DEF PaidPoints

\* The same of what its payments discharged.
LEMMA PaidStep ==
  ASSUME TypeOK, TypeOK', NEW m \in Members
  PROVE  /\ /\ \A c \in Cycles : PaidAssignment(m, c)' = PaidAssignment(m, c)
            /\ \A i \in Redemptions : PaidRedemption(m, i)' = PaidRedemption(m, i)
            => PaidPoints(m)' = PaidPoints(m)
         /\ \A c \in Cycles :
            /\ \A d \in Cycles \ {c} : PaidAssignment(m, d)' = PaidAssignment(m, d)
            /\ \A i \in Redemptions : PaidRedemption(m, i)' = PaidRedemption(m, i)
            => PaidPoints(m)' = PaidPoints(m) - PaidAssignment(m, c) + PaidAssignment(m, c)'
         /\ \A i \in Redemptions :
            /\ \A c \in Cycles : PaidAssignment(m, c)' = PaidAssignment(m, c)
            /\ \A k \in Redemptions \ {i} : PaidRedemption(m, k)' = PaidRedemption(m, k)
            => PaidPoints(m)' = PaidPoints(m) - PaidRedemption(m, i) + PaidRedemption(m, i)'
<1> DEFINE ga == [c \in Cycles |-> PaidAssignment(m, c)]
           ha == [c \in Cycles |-> PaidAssignment(m, c)']
           gr == [i \in Redemptions |-> PaidRedemption(m, i)]
           hr == [i \in Redemptions |-> PaidRedemption(m, i)']
<1>1. /\ \A c \in Cycles : ga[c] \in Nat /\ ha[c] \in Nat
      /\ \A i \in Redemptions : gr[i] \in Nat /\ hr[i] \in Nat
  BY PaidTypes DEF TypeOK, AssignmentRow, PaidAssignment, RedemptionRow, PaidRedemption
<1>2. /\ PaidPoints(m) = SumTo(ga, NumCycles) + SumTo(gr, NumRedemptions)
      /\ PaidPoints(m)' = SumTo(ha, NumCycles) + SumTo(hr, NumRedemptions)
  BY DEF PaidPoints
<1>3. /\ SumTo(ga, NumCycles) \in Nat /\ SumTo(ha, NumCycles) \in Nat
      /\ SumTo(gr, NumRedemptions) \in Nat /\ SumTo(hr, NumRedemptions) \in Nat
  <2> HIDE DEF ga, ha, gr, hr
  <2> QED BY <1>1, SumType, PayoutAssumption DEF Cycles, Redemptions
<1>4. ASSUME \A c \in Cycles : PaidAssignment(m, c)' = PaidAssignment(m, c)
      PROVE  SumTo(ha, NumCycles) = SumTo(ga, NumCycles)
  <2>1. ha = ga
    BY <1>4
  <2> QED BY <2>1
<1>5. ASSUME \A i \in Redemptions : PaidRedemption(m, i)' = PaidRedemption(m, i)
      PROVE  SumTo(hr, NumRedemptions) = SumTo(gr, NumRedemptions)
  <2>1. hr = gr
    BY <1>5
  <2> QED BY <2>1
<1>6. ASSUME NEW c \in Cycles,
             \A d \in Cycles \ {c} : PaidAssignment(m, d)' = PaidAssignment(m, d)
      PROVE  SumTo(ha, NumCycles) = SumTo(ga, NumCycles) - ga[c] + ha[c]
  <2>1. \A d \in Cycles \ {c} : ga[d] = ha[d]
    BY <1>6
  <2> HIDE DEF ga, ha
  <2> QED BY <1>1, <2>1, SumUpdate, PayoutAssumption DEF Cycles
<1>7. ASSUME NEW i \in Redemptions,
             \A k \in Redemptions \ {i} : PaidRedemption(m, k)' = PaidRedemption(m, k)
      PROVE  SumTo(hr, NumRedemptions) = SumTo(gr, NumRedemptions) - gr[i] + hr[i]
  <2>1. \A k \in Redemptions \ {i} : gr[k] = hr[k]
    BY <1>7
  <2> HIDE DEF gr, hr
  <2> QED BY <1>1, <2>1, SumUpdate, PayoutAssumption DEF Redemptions
<1>8. /\ \A c \in Cycles : ga[c] = PaidAssignment(m, c) /\ ha[c] = PaidAssignment(m, c)'
      /\ \A i \in Redemptions : gr[i] = PaidRedemption(m, i) /\ hr[i] = PaidRedemption(m, i)'
  OBVIOUS
<1> HIDE DEF ga, ha, gr, hr
<1> QED BY <1>1, <1>2, <1>3, <1>4, <1>5, <1>6, <1>7, <1>8

\* A paid row still reserves its points, so payments never exceed reservations.
LEMMA PaidIsReserved ==
  ASSUME TypeOK, ExecutedIsPaid, NEW m \in Members
  PROVE  PaidPoints(m) <= reservedPoints(m)
<1> DEFINE ga == [c \in Cycles |-> PaidAssignment(m, c)]
           ha == [c \in Cycles |-> AssignmentHold(m, c)]
           gr == [i \in Redemptions |-> PaidRedemption(m, i)]
           hr == [i \in Redemptions |-> RedemptionHold(m, i)]
<1>1. \A c \in Cycles : ga[c] \in Nat /\ ha[c] \in Nat /\ ga[c] <= ha[c]
  BY DEF TypeOK, AssignmentRow, ExecutedIsPaid, PaidAssignment, AssignmentHold,
         RESERVING_PAYOUT_STATUSES
<1>2. \A i \in Redemptions : gr[i] \in Nat /\ hr[i] \in Nat /\ gr[i] <= hr[i]
  BY DEF TypeOK, RedemptionRow, ExecutedIsPaid, PaidRedemption, RedemptionHold,
         RESERVING_REDEMPTION_STATUSES
<1>3. /\ PaidPoints(m) = SumTo(ga, NumCycles) + SumTo(gr, NumRedemptions)
      /\ reservedPoints(m) = SumTo(ha, NumCycles) + SumTo(hr, NumRedemptions)
  BY DEF PaidPoints, reservedPoints
<1> HIDE DEF ga, ha, gr, hr
<1>4. SumTo(ga, NumCycles) <= SumTo(ha, NumCycles)
  BY <1>1, SumMonotone, PayoutAssumption DEF Cycles
<1>5. SumTo(gr, NumRedemptions) <= SumTo(hr, NumRedemptions)
  BY <1>2, SumMonotone, PayoutAssumption DEF Redemptions
<1>6. /\ SumTo(ga, NumCycles) \in Nat /\ SumTo(ha, NumCycles) \in Nat
      /\ SumTo(gr, NumRedemptions) \in Nat /\ SumTo(hr, NumRedemptions) \in Nat
  BY <1>1, <1>2, SumType, PayoutAssumption DEF Cycles, Redemptions
<1> QED BY <1>3, <1>4, <1>5, <1>6

\* A handler's reads stay true while the rows they rest on do.
LEMMA ReadsKept ==
  ASSUME NEW job, SerialJob(job), UNCHANGED <<earned, redemption, assignment>>
  PROVE  SerialJob(job)'
<1>1. \A m \in Members : reservedPoints(m)' = reservedPoints(m)
  BY DEF reservedPoints, AssignmentHold, RedemptionHold
<1>2. reservedPoints(job.member)' = reservedPoints(job.member)
  BY DEF reservedPoints, AssignmentHold, RedemptionHold
<1> QED BY <1>1, <1>2 DEF SerialJob, eligiblePoints, eligibleWithout, Spendable, RedemptionHold

\* With one handler at a time, what it has read is true until it commits.
LEMMA SerialJobsNext ==
  ASSUME OneHandler, TypeOK, \A q \in Requests : SerialJob(req[q]), [Next]_vars
  PROVE  (\A q \in Requests : SerialJob(req[q]))'
<1>0. SerialJob(Idle)'
  BY DEF SerialJob, Idle
<1>1. ASSUME NEW q \in Requests, Finish(q) PROVE \A p \in Requests : req'[p] = Idle
  BY <1>1 DEF Finish, OneHandler, TypeOK
<1>2. ASSUME NEW q \in Requests, Free(q), UNCHANGED req
      PROVE  \A p \in Requests : req'[p] = Idle
  BY <1>2 DEF Free, OneHandler
<1>3. ASSUME \A p \in Requests : req'[p] = Idle
      PROVE  (\A q \in Requests : SerialJob(req[q]))'
  BY <1>0, <1>3
<1>4. ASSUME NEW q \in Requests, NEW job, SerialJob(job), Begin(q, job),
             UNCHANGED <<earned, redemption, assignment>>
      PROVE  (\A p \in Requests : SerialJob(req[p]))'
  <2>1. \A p \in Requests : req'[p] = job
    BY <1>4 DEF Begin, OneHandler, TypeOK
  <2>2. SerialJob(job)'
    BY <1>4, ReadsKept
  <2> QED BY <2>1, <2>2
<1>5. ASSUME NEW q \in Requests, Ledger(q) PROVE \A p \in Requests : req'[p] = Idle
  BY <1>2, <1>5 DEF Ledger, Earn, ReconcileCarryover, CreateConfiguration
<1>6. ASSUME NEW q \in Requests, RedemptionRoutes(q)
      PROVE  (\A p \in Requests : SerialJob(req[p]))'
  <2>1. ASSUME NEW m \in Members, NEW points \in RequestSizes, RedeemValue(q, m, points)
        PROVE  (\A p \in Requests : SerialJob(req[p]))'
    <3> DEFINE job == [op |-> "REDEEM", member |-> m, points |-> points]
    <3>1. SerialJob(job)
      BY <2>1 DEF RedeemValue, meetsThreshold, SerialJob
    <3>2. Begin(q, job) /\ UNCHANGED <<earned, redemption, assignment>>
      BY <2>1 DEF RedeemValue
    <3> HIDE DEF job
    <3> QED BY <3>1, <3>2, <1>4
  <2>2. ASSUME NEW m \in Members, NEW i \in Redemptions, ApproveRead(q, m, i)
        PROVE  (\A p \in Requests : SerialJob(req[p]))'
    <3> DEFINE job == [op |-> "APPROVE", member |-> m, id |-> i, valued |-> FALSE]
    <3>1. SerialJob(job)
      BY <2>2 DEF ApproveRead, SerialJob
    <3>2. Begin(q, job) /\ UNCHANGED <<earned, redemption, assignment>>
      BY <2>2 DEF ApproveRead
    <3> HIDE DEF job
    <3> QED BY <3>1, <3>2, <1>4
  <2>3. ASSUME ApproveValue(q) PROVE (\A p \in Requests : SerialJob(req[p]))'
    <3> DEFINE job == IF Approvable(req[q].member, req[q].id)
                        THEN [req[q] EXCEPT !.valued = TRUE] ELSE Idle
    <3>1. req[q] \in ApproveJob
      BY <2>3, JobFields DEF ApproveValue, TypeOK
    <3>2. SerialJob(job)
      BY <2>3, <3>1 DEF ApproveValue, ApproveJob, SerialJob, Idle
    <3>3. \A p \in Requests : req'[p] = job
      BY <2>3 DEF ApproveValue, OneHandler, TypeOK
    <3>4. PICK j : j = job /\ SerialJob(j)
      BY <3>2
    <3>5. SerialJob(j)'
      BY <2>3, <3>4, ReadsKept DEF ApproveValue
    <3> QED BY <3>3, <3>4, <3>5
  <2>4. ASSUME NEW m \in Members, NEW i \in Redemptions, RejectRead(q, m, i)
        PROVE  (\A p \in Requests : SerialJob(req[p]))'
    <3> DEFINE job == [op |-> "REJECT", member |-> m, id |-> i]
    <3>1. SerialJob(job)
      BY <2>4 DEF RejectRead, SerialJob
    <3>2. Begin(q, job) /\ UNCHANGED <<earned, redemption, assignment>>
      BY <2>4 DEF RejectRead
    <3> HIDE DEF job
    <3> QED BY <3>1, <3>2, <1>4
  <2>5. ASSUME NEW m \in Members, NEW i \in Redemptions, NEW ref \in References,
               PayRedemptionValue(q, m, i, ref)
        PROVE  (\A p \in Requests : SerialJob(req[p]))'
    <3> PICK job : /\ job = [op |-> "PAY", member |-> m, id |-> i, reference |-> ref,
                             amount |-> Amount(redemption[m][i].points, active)]
      OBVIOUS
    <3>1. SerialJob(job)
      BY <2>5 DEF PayRedemptionValue, PayableRedemption, meetsThreshold, SerialJob
    <3>2. Begin(q, job) /\ UNCHANGED <<earned, redemption, assignment>>
      BY <2>5 DEF PayRedemptionValue
    <3> QED BY <3>1, <3>2, <1>4
  <2>6. ASSUME \/ RedeemInsert(q) \/ ApproveWrite(q) \/ RejectWrite(q)
               \/ PayRedemption(q) \/ PayRedemptionRefused(q)
        PROVE  (\A p \in Requests : SerialJob(req[p]))'
    <3>1. Finish(q)
      BY <2>6 DEF RedeemInsert, ApproveWrite, RejectWrite, PayRedemption,
                  PayRedemptionRefused
    <3> QED BY <3>1, <1>1, <1>3
  <2> QED BY <1>6, <2>1, <2>2, <2>3, <2>4, <2>5, <2>6 DEF RedemptionRoutes
<1>7. ASSUME NEW q \in Requests, PayoutRoutes(q)
      PROVE  (\A p \in Requests : SerialJob(req[p]))'
  <2>1. ASSUME NEW c \in Cycles, NEW asked \in SUBSET Members, BatchValue(q, c, asked)
        PROVE  (\A p \in Requests : SerialJob(req[p]))'
    <3> PICK job : job = [op |-> "BATCH", cycle |-> c, points |->
                          [m \in Members |-> IF m \in EligibleUnder(cycle[c].terms, asked)
                                               THEN eligiblePoints(m) ELSE 0]]
      OBVIOUS
    <3>1. SerialJob(job)
      BY DEF SerialJob
    <3>2. Begin(q, job) /\ UNCHANGED <<earned, redemption, assignment>>
      BY <2>1 DEF BatchValue
    <3> QED BY <3>1, <3>2, <1>4
  <2>2. ASSUME NEW m \in Members, NEW c \in Cycles, NEW s \in {"PROCESSING", "HELD", "REJECTED"},
               SetRead(q, m, c, s)
        PROVE  (\A p \in Requests : SerialJob(req[p]))'
    <3> DEFINE job == [op |-> "SET", member |-> m, cycle |-> c, status |-> s]
    <3>1. SerialJob(job)
      BY <2>2 DEF SetRead, SerialJob
    <3>2. Begin(q, job) /\ UNCHANGED <<earned, redemption, assignment>>
      BY <2>2 DEF SetRead
    <3> HIDE DEF job
    <3> QED BY <3>1, <3>2, <1>4
  <2>3. ASSUME \/ \E b \in Batches : BatchInsert(q, b)
               \/ SetWrite(q)
        PROVE  (\A p \in Requests : SerialJob(req[p]))'
    <3>1. Finish(q)
      BY <2>3 DEF BatchInsert, SetWrite
    <3> QED BY <3>1, <1>1, <1>3
  <2>4. ASSUME \/ \E c \in Cycles : CreateCycle(q, c)
               \/ \E b \in Batches : ApproveBatch(q, b)
               \/ \E m \in Members, c \in Cycles, ref \in References :
                    PayAssignment(q, m, c, ref)
        PROVE  (\A p \in Requests : SerialJob(req[p]))'
    <3>1. Free(q) /\ UNCHANGED req
      BY <2>4 DEF CreateCycle, ApproveBatch, PayAssignment
    <3> QED BY <3>1, <1>2, <1>3
  <2> QED BY <1>7, <2>1, <2>2, <2>3, <2>4 DEF PayoutRoutes
<1>8. ASSUME NEW q \in Requests, Lost(q)
      PROVE  (\A p \in Requests : SerialJob(req[p]))'
  BY <1>8, <1>1, <1>3 DEF Lost
<1>9. CASE (\E v \in BOOLEAN : Deploy(v) \/ Drained(v)) \/ UNCHANGED vars
  <2> SUFFICES ASSUME NEW q \in Requests PROVE SerialJob(req[q])'
    OBVIOUS
  <2>1. PICK j : j = req[q] /\ j = req'[q] /\ SerialJob(j)
    BY <1>9 DEF Deploy, Drained, vars
  <2>2. UNCHANGED <<earned, redemption, assignment>>
    BY <1>9 DEF Deploy, Drained, vars
  <2>3. SerialJob(j)'
    BY <2>1, <2>2, ReadsKept
  <2> QED BY <2>1, <2>3
<1> QED BY <1>3, <1>5, <1>6, <1>7, <1>8, <1>9 DEF Next, Operations

\* A final assignment is never written, and a paid redemption stays paid.
LEMMA FinalRows ==
  ASSUME Inv, \A q \in Requests : SerialJob(req[q]), [Next]_vars
  PROVE  /\ \A m \in Members, c \in Cycles : assignment[m][c].status \in FinalStatuses =>
              assignment'[m][c].status = assignment[m][c].status
         /\ \A m \in Members, i \in Redemptions : redemption[m][i].status = "PAID" =>
              redemption'[m][i].status = "PAID"
<1>0. TypeOK /\ JobsInv
  BY DEF Inv
<1>1. ASSUME NEW m \in Members, NEW c \in Cycles, assignment[m][c].status \in FinalStatuses
      PROVE  assignment'[m][c].status = assignment[m][c].status
  <2>1. assignment[m][c].status \notin {"NONE", "ELIGIBLE"} \cup PAYABLE_ASSIGNMENT_STATUSES
    BY <1>1 DEF FinalStatuses, PAYABLE_ASSIGNMENT_STATUSES
  <2>2. ASSUME NEW q \in Requests, NEW b \in Batches, BatchInsert(q, b)
        PROVE  assignment'[m][c].status = assignment[m][c].status
    <3>1. cycle[req[q].cycle].terms \in Terms
      BY <1>0, <2>2 DEF BatchInsert, JobsInv, JobInv
    <3> QED BY <1>0, <2>1, <2>2, <3>1, InsertUpdate
  <2>3. ASSUME NEW q \in Requests, NEW b \in Batches, ApproveBatch(q, b)
        PROVE  assignment'[m][c].status = assignment[m][c].status
    BY <1>0, <2>1, <2>3, ApprovalUpdate
  <2>4. ASSUME NEW q \in Requests, SetWrite(q)
        PROVE  assignment'[m][c].status = assignment[m][c].status
    <3>1. AssignmentMoved(req[q].member, req[q].cycle, req[q].status)
      BY <1>0, <2>4, StatusWrites
    <3>2. assignment[req[q].member][req[q].cycle].status \notin FinalStatuses
      BY <2>4 DEF SetWrite, SerialJob, MayBecome
    <3> QED BY <1>1, <3>1, <3>2 DEF AssignmentMoved
  <2>5. ASSUME NEW q \in Requests, NEW n \in Members, NEW d \in Cycles, NEW ref \in References,
               PayAssignment(q, n, d, ref)
        PROVE  assignment'[m][c].status = assignment[m][c].status
    BY <1>0, <2>1, <2>5, StatusWrites DEF AssignmentMoved, PayAssignment, AssignmentClaim
  <2> QED BY <2>2, <2>3, <2>4, <2>5, AssignmentWriters
<1>2. ASSUME NEW m \in Members, NEW i \in Redemptions, redemption[m][i].status = "PAID"
      PROVE  redemption'[m][i].status = "PAID"
  <2>1. ASSUME NEW q \in Requests, RedeemInsert(q) PROVE redemption'[m][i].status = "PAID"
    <3>1. redemption'[m][i] = redemption[m][i]
      BY <1>0, <1>2, <2>1, InsertRedemption
    <3> QED BY <1>2, <3>1
  <2>2. ASSUME NEW q \in Requests, ApproveWrite(q) \/ RejectWrite(q)
        PROVE  redemption'[m][i].status = "PAID"
    <3>1. redemption[req[q].member][req[q].id].status = "PENDING"
      BY <2>2 DEF ApproveWrite, RejectWrite, SerialJob
    <3> QED BY <1>0, <1>2, <2>2, <3>1, StatusWrites DEF RedemptionMoved
  <2>3. ASSUME NEW q \in Requests, PayRedemption(q) PROVE redemption'[m][i].status = "PAID"
    BY <1>0, <1>2, <2>3, StatusWrites DEF RedemptionMoved
  <2> QED BY <1>2, <2>1, <2>2, <2>3, RedemptionWriters
<1> QED BY <1>1, <1>2

\* An execution record's row is PAID from the step that writes the record.
LEMMA ExecutedNext ==
  ASSUME Inv, ExecutedIsPaid, \A q \in Requests : SerialJob(req[q]), [Next]_vars
  PROVE  ExecutedIsPaid'
<1>0. TypeOK /\ JobsInv
  BY DEF Inv
<1>1. CASE executions' = executions
  BY <1>1, FinalRows DEF ExecutedIsPaid, Executed, FinalStatuses
<1>2. ASSUME NEW q \in Requests, PayRedemption(q) PROVE ExecutedIsPaid'
  <2>1. /\ req[q] \in PayJob
        /\ redemption'[req[q].member][req[q].id].status = "PAID"
    BY <1>0, <1>2, StatusWrites DEF RedemptionMoved, PayJob
  <2>2. \A e \in executions' : e \in executions \/
          (e.kind = "REDEMPTION" /\ e.member = req[q].member /\ e.target = req[q].id)
    <3>1. executions' = executions \cup {RedemptionExecution(req[q])}
      BY <1>2 DEF PayRedemption
    <3> QED BY <3>1 DEF RedemptionExecution
  <2>3. ASSUME NEW m \in Members, NEW i \in Redemptions, Executed("REDEMPTION", m, i)'
        PROVE  redemption'[m][i].status = "PAID"
    <3>1. Executed("REDEMPTION", m, i) \/ (m = req[q].member /\ i = req[q].id)
      BY <2>2, <2>3 DEF Executed
    <3>2. Executed("REDEMPTION", m, i) => redemption[m][i].status = "PAID"
      BY DEF ExecutedIsPaid
    <3> QED BY <2>1, <3>1, <3>2, FinalRows
  <2>4. ASSUME NEW m \in Members, NEW c \in Cycles, Executed("ASSIGNMENT", m, c)'
        PROVE  assignment'[m][c].status = "PAID"
    <3>1. Executed("ASSIGNMENT", m, c)
      BY <2>2, <2>4 DEF Executed
    <3>2. assignment[m][c].status = "PAID"
      BY <3>1 DEF ExecutedIsPaid
    <3> QED BY <3>2, FinalRows DEF FinalStatuses
  <2> QED BY <2>3, <2>4 DEF ExecutedIsPaid
<1>3. ASSUME NEW q \in Requests, NEW m \in Members, NEW c \in Cycles, NEW ref \in References,
             PayAssignment(q, m, c, ref)
      PROVE  ExecutedIsPaid'
  <2>1. assignment'[m][c].status = "PAID"
    BY <1>0, <1>3, StatusWrites DEF AssignmentMoved
  <2>2. \A e \in executions' : e \in executions \/
          (e.kind = "ASSIGNMENT" /\ e.member = m /\ e.target = c)
    BY <1>3 DEF PayAssignment, AssignmentExecution
  <2> QED BY <2>1, <2>2, FinalRows DEF ExecutedIsPaid, Executed, FinalStatuses
<1> QED BY <1>1, <1>2, <1>3, ExecutionWriters

\* Without a new record, what was paid stays as it is.
LEMMA PaidKept ==
  ASSUME Inv, Inv', [Next]_vars, executions' = executions, NEW m \in Members
  PROVE  PaidPoints(m)' = PaidPoints(m)
<1>0. TypeOK /\ TypeOK' /\ JobsInv /\ ExecutionsTargetRows
  BY DEF Inv
<1>1. Growth
  BY <1>0, NextGrows
<1>2. \A c \in Cycles : PaidAssignment(m, c)' = PaidAssignment(m, c)
  BY <1>0, <1>1 DEF PaidAssignment, Executed, ExecutionsTargetRows, Growth
<1>3. \A i \in Redemptions : PaidRedemption(m, i)' = PaidRedemption(m, i)
  BY <1>0, <1>1 DEF PaidRedemption, Executed, ExecutionsTargetRows, Growth
<1> QED BY <1>0, <1>2, <1>3, PaidStep

\* A new record adds its points, which are not none, to what its member was paid.
LEMMA PaidGrows ==
  ASSUME Inv, Inv', [Next]_vars, NEW e, NewExecution(e), NEW m \in Members
  PROVE  /\ e.points \in Nat \ {0}
         /\ PaidPoints(m)' = IF m = e.member THEN PaidPoints(m) + e.points ELSE PaidPoints(m)
<1>0. TypeOK /\ TypeOK' /\ JobsInv /\ ExecutionsTargetRows /\ AmountIsServerDerived'
  BY DEF Inv
<1>1. Growth
  BY <1>0, NextGrows
<1>2. e \in executions' /\ e \in ExecutionRow
  BY DEF NewExecution
<1>3. e.points \in Nat \ {0}
  <2>1. e.points \in Nat
    BY <1>2 DEF ExecutionRow
  <2>2. \E t \in Terms : e.points >= MinimumPoints[t]
    <3>1. CASE e.kind = "REDEMPTION"
      BY <3>1 DEF NewExecution, PricedAt
    <3>2. CASE e.kind = "ASSIGNMENT"
      <4>1. e.target \in Cycles /\ assignment[e.member][e.target].status # "NONE"
        BY <3>2 DEF NewExecution
      <4>2. e.member \in Members /\ e.points = assignment[e.member][e.target].points
        BY <1>2, <3>2 DEF ExecutionRow, NewExecution
      <4> QED BY <4>1, <4>2 DEF Inv, AssignmentsPriced
    <3> QED BY <1>2, <3>1, <3>2 DEF ExecutionRow
  <2> QED BY <2>1, <2>2, PayoutAssumption
<1>4. \A f \in executions' : f \in executions \/ f = e
  BY DEF NewExecution
<1>5. executions \subseteq executions'
  BY DEF NewExecution
<1>6. CASE e.kind = "ASSIGNMENT" /\ m = e.member
  <2>1. /\ e.target \in Cycles /\ assignment[m][e.target].status # "NONE"
        /\ e.points = assignment[m][e.target].points
        /\ ~Executed("ASSIGNMENT", m, e.target)
    BY <1>6 DEF NewExecution, Executed
  <2>2. PaidAssignment(m, e.target) = 0 /\ PaidAssignment(m, e.target)' = e.points
    BY <1>1, <1>2, <1>6, <2>1 DEF PaidAssignment, Executed, Growth
  <2>3. \A c \in Cycles \ {e.target} : PaidAssignment(m, c)' = PaidAssignment(m, c)
    BY <1>0, <1>1, <1>4, <1>5 DEF PaidAssignment, Executed, ExecutionsTargetRows, Growth
  <2>4. \A i \in Redemptions : PaidRedemption(m, i)' = PaidRedemption(m, i)
    BY <1>0, <1>1, <1>4, <1>5, <1>6 DEF PaidRedemption, Executed, ExecutionsTargetRows, Growth
  <2>5. PaidPoints(m)' = PaidPoints(m) - PaidAssignment(m, e.target)
                                       + PaidAssignment(m, e.target)'
    BY <1>0, <2>1, <2>3, <2>4, PaidStep
  <2>6. PaidPoints(m) \in Nat
    BY <1>0, PaidTypes
  <2> QED BY <1>3, <1>6, <2>2, <2>5, <2>6
<1>7. CASE e.kind = "REDEMPTION" /\ m = e.member
  <2>1. /\ e.target \in Redemptions /\ redemption[m][e.target].status # "NONE"
        /\ e.points = redemption[m][e.target].points
        /\ ~Executed("REDEMPTION", m, e.target)
    BY <1>7 DEF NewExecution, Executed
  <2>2. PaidRedemption(m, e.target) = 0 /\ PaidRedemption(m, e.target)' = e.points
    BY <1>1, <1>2, <1>7, <2>1 DEF PaidRedemption, Executed, Growth
  <2>3. \A i \in Redemptions \ {e.target} : PaidRedemption(m, i)' = PaidRedemption(m, i)
    BY <1>0, <1>1, <1>4, <1>5 DEF PaidRedemption, Executed, ExecutionsTargetRows, Growth
  <2>4. \A c \in Cycles : PaidAssignment(m, c)' = PaidAssignment(m, c)
    BY <1>0, <1>1, <1>4, <1>5, <1>7 DEF PaidAssignment, Executed, ExecutionsTargetRows, Growth
  <2>5. PaidPoints(m)' = PaidPoints(m) - PaidRedemption(m, e.target)
                                       + PaidRedemption(m, e.target)'
    BY <1>0, <2>1, <2>3, <2>4, PaidStep
  <2>6. PaidPoints(m) \in Nat
    BY <1>0, PaidTypes
  <2> QED BY <1>3, <1>7, <2>2, <2>5, <2>6
<1>8. CASE m # e.member
  <2>1. \A c \in Cycles : PaidAssignment(m, c)' = PaidAssignment(m, c)
    BY <1>0, <1>1, <1>4, <1>5, <1>8 DEF PaidAssignment, Executed, ExecutionsTargetRows, Growth
  <2>2. \A i \in Redemptions : PaidRedemption(m, i)' = PaidRedemption(m, i)
    BY <1>0, <1>1, <1>4, <1>5, <1>8 DEF PaidRedemption, Executed, ExecutionsTargetRows, Growth
  <2> QED BY <1>0, <1>3, <1>8, <2>1, <2>2, PaidStep
<1> QED BY <1>2, <1>3, <1>6, <1>7, <1>8 DEF ExecutionRow

\* A filed redemption commits points the balance covered when it was valued.
LEMMA InsertCommits ==
  ASSUME SerialInv, TypeOK', NEW q \in Requests, RedeemInsert(q), NEW m \in Members
  PROVE  \/ reservedPoints(m)' = reservedPoints(m)
         \/ reservedPoints(m) < reservedPoints(m)' /\ reservedPoints(m)' <= earned[m]
<1>0. TypeOK
  BY DEF SerialInv, Inv
<1>1. PICK i \in Redemptions :
        /\ req[q].member \in Members /\ req[q].points \in RequestSizes
        /\ redemption[req[q].member][i].status = "NONE"
        /\ redemption'[req[q].member][i] =
             [status |-> "PENDING", points |-> req[q].points, prior |-> FALSE]
        /\ \A n \in Members, k \in Redemptions :
             n # req[q].member \/ k # i => redemption'[n][k] = redemption[n][k]
  BY <1>0, InsertRedemption
<1>2. \A c \in Cycles : AssignmentHold(m, c)' = AssignmentHold(m, c)
  BY DEF RedeemInsert, AssignmentHold
<1>3. CASE m # req[q].member
  <2>1. \A k \in Redemptions : RedemptionHold(m, k)' = RedemptionHold(m, k)
    BY <1>1, <1>3 DEF RedemptionHold
  <2> QED BY <1>0, <1>2, <2>1, ReservedStep
<1>4. CASE m = req[q].member
  <2>1. \A k \in Redemptions \ {i} : RedemptionHold(m, k)' = RedemptionHold(m, k)
    BY <1>1, <1>4 DEF RedemptionHold
  <2>2. redemption'[m][i].status = "PENDING" /\ redemption'[m][i].points = req[q].points
    BY <1>1, <1>4
  <2>3. RedemptionHold(m, i) = 0 /\ RedemptionHold(m, i)' = req[q].points
    BY <1>1, <1>4, <2>2 DEF RedemptionHold, RESERVING_REDEMPTION_STATUSES
  <2>4. reservedPoints(m)' = reservedPoints(m) - RedemptionHold(m, i) + RedemptionHold(m, i)'
    BY <1>0, <1>2, <2>1, ReservedStep
  <2>5. req[q].points \in Nat \ {0} /\ reservedPoints(m) \in Nat /\ earned[m] \in Nat
    BY <1>0, <1>1, BalanceTypes, PayoutAssumption DEF TypeOK
  <2>6. req[q].points <= eligiblePoints(m)
    BY <1>4 DEF SerialInv, SerialJob, RedeemInsert
  <2> QED BY <2>3, <2>4, <2>5, <2>6 DEF eligiblePoints, Spendable
<1> QED BY <1>3, <1>4

\* A batch commits, for each member it takes in, exactly what was left to spend.
LEMMA BatchCommits ==
  ASSUME SerialInv, TypeOK', NEW q \in Requests, NEW b \in Batches, BatchInsert(q, b),
         NEW m \in Members
  PROVE  \/ /\ reservedPoints(m)' = reservedPoints(m)
            /\ \A c \in Cycles : assignment'[m][c] = assignment[m][c]
         \/ reservedPoints(m) < reservedPoints(m)' /\ reservedPoints(m)' <= earned[m]
<1>0. TypeOK /\ JobsInv
  BY DEF SerialInv, Inv
<1>1. cycle[req[q].cycle].terms \in Terms
  BY <1>0 DEF BatchInsert, JobsInv, JobInv
<1>2. req[q].cycle \in Cycles
  BY <1>0, <1>1, InsertUpdate
<1>3. PICK k \in Cycles : k = req[q].cycle
  BY <1>2
<1>4. /\ req[q].points \in [Members -> Nat]
      /\ \A c \in Cycles :
           \/ assignment'[m][c] = assignment[m][c]
           \/ /\ assignment[m][c].status = "NONE"
              /\ c = k
              /\ req[q].points[m] > 0
              /\ assignment'[m][c].status = "ELIGIBLE"
              /\ assignment'[m][c].points = req[q].points[m]
  BY <1>0, <1>1, <1>3, InsertUpdate
<1>5. \A i \in Redemptions : RedemptionHold(m, i)' = RedemptionHold(m, i)
  BY DEF BatchInsert, RedemptionHold
<1>6. CASE assignment'[m][k] = assignment[m][k]
  <2>1. \A c \in Cycles : assignment'[m][c] = assignment[m][c]
    BY <1>4, <1>6
  <2>2. \A c \in Cycles : AssignmentHold(m, c)' = AssignmentHold(m, c)
    BY <2>1 DEF AssignmentHold
  <2> QED BY <1>0, <1>5, <2>1, <2>2, ReservedStep
<1>7. CASE assignment'[m][k] # assignment[m][k]
  <2>1. \A c \in Cycles \ {k} : AssignmentHold(m, c)' = AssignmentHold(m, c)
    BY <1>4 DEF AssignmentHold
  <2>2. AssignmentHold(m, k) = 0 /\ AssignmentHold(m, k)' = req[q].points[m]
    BY <1>4, <1>7 DEF AssignmentHold, RESERVING_PAYOUT_STATUSES
  <2>3. reservedPoints(m)' = reservedPoints(m) - AssignmentHold(m, k) + AssignmentHold(m, k)'
    BY <1>0, <1>4, <1>5, <2>1, ReservedStep
  <2>4. req[q].points[m] > 0 /\ req[q].points[m] \in Nat /\ reservedPoints(m) \in Nat
    BY <1>0, <1>4, <1>7, BalanceTypes
  <2>5. earned[m] \in Nat
    BY <1>0 DEF TypeOK
  <2>6. req[q].points[m] = eligiblePoints(m)
    BY <2>4 DEF SerialInv, SerialJob, BatchInsert
  <2> QED BY <2>2, <2>3, <2>4, <2>5, <2>6 DEF eligiblePoints, Spendable
<1> QED BY <1>6, <1>7

\* A payment, an approval and a hold leave the reservations; a rejection releases one.
LEMMA StatusReserves ==
  ASSUME SerialInv, TypeOK', NEW q \in Requests, NEW m \in Members
  PROVE  /\ \/ ApproveWrite(q) \/ PayRedemption(q)
            \/ \E b \in Batches : ApproveBatch(q, b)
            \/ \E n \in Members, c \in Cycles, ref \in References :
                 PayAssignment(q, n, c, ref)
            => reservedPoints(m)' = reservedPoints(m)
         /\ RejectWrite(q) \/ SetWrite(q) => reservedPoints(m)' <= reservedPoints(m)
<1>0. TypeOK
  BY DEF SerialInv, Inv
<1>1. ASSUME NEW n \in Members, NEW i \in Redemptions, NEW s, RedemptionMoved(n, i, s),
             redemption[n][i].status \in RESERVING_REDEMPTION_STATUSES,
             UNCHANGED assignment
      PROVE  IF s \in RESERVING_REDEMPTION_STATUSES
             THEN reservedPoints(m)' = reservedPoints(m)
             ELSE reservedPoints(m)' <= reservedPoints(m)
  <2>1. \A c \in Cycles : AssignmentHold(m, c)' = AssignmentHold(m, c)
    BY <1>1 DEF AssignmentHold
  <2>2. \A k \in Redemptions \ {i} : RedemptionHold(m, k)' = RedemptionHold(m, k)
    BY <1>1 DEF RedemptionHold, RedemptionMoved
  <2>3. reservedPoints(m)' = reservedPoints(m) - RedemptionHold(m, i) + RedemptionHold(m, i)'
    BY <1>0, <2>1, <2>2, ReservedStep
  <2>4. RedemptionHold(m, i) \in Nat /\ reservedPoints(m) \in Nat
    BY <1>0, BalanceTypes
  <2>5. IF n = m /\ s \notin RESERVING_REDEMPTION_STATUSES
        THEN RedemptionHold(m, i)' = 0
        ELSE RedemptionHold(m, i)' = RedemptionHold(m, i)
    BY <1>1 DEF RedemptionHold, RedemptionMoved
  <2> QED BY <2>3, <2>4, <2>5
<1>2. ASSUME NEW n \in Members, NEW c \in Cycles, NEW s, AssignmentMoved(n, c, s),
             assignment[n][c].status \in RESERVING_PAYOUT_STATUSES,
             UNCHANGED redemption
      PROVE  IF s \in RESERVING_PAYOUT_STATUSES
             THEN reservedPoints(m)' = reservedPoints(m)
             ELSE reservedPoints(m)' <= reservedPoints(m)
  <2>1. \A i \in Redemptions : RedemptionHold(m, i)' = RedemptionHold(m, i)
    BY <1>2 DEF RedemptionHold
  <2>2. \A d \in Cycles \ {c} : AssignmentHold(m, d)' = AssignmentHold(m, d)
    BY <1>2 DEF AssignmentHold, AssignmentMoved
  <2>3. reservedPoints(m)' = reservedPoints(m) - AssignmentHold(m, c) + AssignmentHold(m, c)'
    BY <1>0, <2>1, <2>2, ReservedStep
  <2>4. AssignmentHold(m, c) \in Nat /\ reservedPoints(m) \in Nat
    BY <1>0, BalanceTypes
  <2>5. IF n = m /\ s \notin RESERVING_PAYOUT_STATUSES
        THEN AssignmentHold(m, c)' = 0
        ELSE AssignmentHold(m, c)' = AssignmentHold(m, c)
    BY <1>2 DEF AssignmentHold, AssignmentMoved
  <2> QED BY <2>3, <2>4, <2>5
<1>3. ASSUME ApproveWrite(q) PROVE reservedPoints(m)' = reservedPoints(m)
  <2>1. /\ req[q].member \in Members /\ req[q].id \in Redemptions
        /\ RedemptionMoved(req[q].member, req[q].id, "APPROVED")
    BY <1>0, <1>3, StatusWrites
  <2>2. redemption[req[q].member][req[q].id].status \in RESERVING_REDEMPTION_STATUSES
    BY <1>3 DEF ApproveWrite, SerialInv, SerialJob, RESERVING_REDEMPTION_STATUSES
  <2>3. UNCHANGED assignment /\ "APPROVED" \in RESERVING_REDEMPTION_STATUSES
    BY <1>3 DEF ApproveWrite, RESERVING_REDEMPTION_STATUSES
  <2> QED BY <1>1, <2>1, <2>2, <2>3
<1>4. ASSUME PayRedemption(q) PROVE reservedPoints(m)' = reservedPoints(m)
  <2>1. /\ req[q].member \in Members /\ req[q].id \in Redemptions
        /\ RedemptionMoved(req[q].member, req[q].id, "PAID")
    BY <1>0, <1>4, StatusWrites DEF PayJob
  <2>2. redemption[req[q].member][req[q].id].status \in RESERVING_REDEMPTION_STATUSES
    BY <1>4 DEF PayRedemption, RedemptionClaim, RESERVING_REDEMPTION_STATUSES
  <2>3. UNCHANGED assignment /\ "PAID" \in RESERVING_REDEMPTION_STATUSES
    BY <1>4 DEF PayRedemption, RESERVING_REDEMPTION_STATUSES
  <2> QED BY <1>1, <2>1, <2>2, <2>3
<1>5. ASSUME NEW b \in Batches, ApproveBatch(q, b)
      PROVE  reservedPoints(m)' = reservedPoints(m)
  <2>1. \A c \in Cycles : AssignmentHold(m, c)' = AssignmentHold(m, c)
    BY <1>0, <1>5, ApprovalUpdate DEF AssignmentHold, RESERVING_PAYOUT_STATUSES
  <2>2. \A i \in Redemptions : RedemptionHold(m, i)' = RedemptionHold(m, i)
    BY <1>5 DEF ApproveBatch, RedemptionHold
  <2> QED BY <1>0, <2>1, <2>2, ReservedStep
<1>6. ASSUME NEW n \in Members, NEW c \in Cycles, NEW ref \in References,
             PayAssignment(q, n, c, ref)
      PROVE  reservedPoints(m)' = reservedPoints(m)
  <2>1. AssignmentMoved(n, c, "PAID")
    BY <1>0, <1>6, StatusWrites
  <2>2. assignment[n][c].status \in RESERVING_PAYOUT_STATUSES
    BY <1>6 DEF PayAssignment, AssignmentClaim, PAYABLE_ASSIGNMENT_STATUSES,
                RESERVING_PAYOUT_STATUSES
  <2>3. UNCHANGED redemption /\ "PAID" \in RESERVING_PAYOUT_STATUSES
    BY <1>6 DEF PayAssignment, RESERVING_PAYOUT_STATUSES
  <2> QED BY <1>2, <2>1, <2>2, <2>3
<1>7. ASSUME RejectWrite(q) PROVE reservedPoints(m)' <= reservedPoints(m)
  <2>1. /\ req[q].member \in Members /\ req[q].id \in Redemptions
        /\ RedemptionMoved(req[q].member, req[q].id, "REJECTED")
    BY <1>0, <1>7, StatusWrites
  <2>2. redemption[req[q].member][req[q].id].status \in RESERVING_REDEMPTION_STATUSES
    BY <1>7 DEF RejectWrite, SerialInv, SerialJob, RESERVING_REDEMPTION_STATUSES
  <2>3. UNCHANGED assignment /\ "REJECTED" \notin RESERVING_REDEMPTION_STATUSES
    BY <1>7 DEF RejectWrite, RESERVING_REDEMPTION_STATUSES
  <2> QED BY <1>1, <2>1, <2>2, <2>3
<1>8. ASSUME SetWrite(q) PROVE reservedPoints(m)' <= reservedPoints(m)
  <2>1. /\ req[q].member \in Members /\ req[q].cycle \in Cycles
        /\ AssignmentMoved(req[q].member, req[q].cycle, req[q].status)
    BY <1>0, <1>8, StatusWrites DEF SetJob
  <2>2. assignment[req[q].member][req[q].cycle].status \notin FinalStatuses \cup {"NONE"}
    BY <1>8 DEF SetWrite, SerialInv, SerialJob, MayBecome
  <2>3. assignment[req[q].member][req[q].cycle].status \in RESERVING_PAYOUT_STATUSES
    BY <1>0, <2>1, <2>2 DEF TypeOK, AssignmentRow, FinalStatuses, RESERVING_PAYOUT_STATUSES
  <2>4. UNCHANGED redemption
    BY <1>8 DEF SetWrite
  <2>5. reservedPoints(m) \in Nat
    BY <1>0, BalanceTypes
  <2> QED BY <1>2, <2>1, <2>3, <2>4, <2>5
<1> QED BY <1>3, <1>4, <1>5, <1>6, <1>7, <1>8

\* What a step does to the reservations of all members.
LEMMA ReservedNext ==
  ASSUME SerialInv, TypeOK', [Next]_vars
  PROVE  \/ \A m \in Members : /\ reservedPoints(m)' = reservedPoints(m)
                               /\ earned[m] <= earned'[m]
         \/ /\ UNCHANGED <<earned, executions>>
            /\ \A m \in Members :
                 \/ reservedPoints(m)' = reservedPoints(m)
                 \/ reservedPoints(m) < reservedPoints(m)' /\ reservedPoints(m)' <= earned[m]
         \/ /\ UNCHANGED <<earned, executions>>
            /\ \A m \in Members : reservedPoints(m)' <= reservedPoints(m)
<1>0. TypeOK /\ JobsInv
  BY DEF SerialInv, Inv
<1> DEFINE Same == \A m \in Members : /\ reservedPoints(m)' = reservedPoints(m)
                                     /\ earned[m] <= earned'[m]
<1>1. ASSUME UNCHANGED <<redemption, assignment>>, \A m \in Members : earned[m] <= earned'[m]
      PROVE  Same
  BY <1>1 DEF reservedPoints, AssignmentHold, RedemptionHold
<1>2. ASSUME UNCHANGED <<redemption, assignment, earned>> PROVE Same
  BY <1>0, <1>1, <1>2 DEF TypeOK
<1>3. ASSUME NEW q \in Requests, Ledger(q) PROVE Same
  <2>1. UNCHANGED <<redemption, assignment>>
    BY <1>3 DEF Ledger, Earn, ReconcileCarryover, CreateConfiguration
  <2>2. \A m \in Members : earned[m] <= earned'[m]
    <3>0. earned \in [Members -> Nat] /\ \A m \in Members : earned[m] \in Nat
      BY <1>0 DEF TypeOK
    <3>1. ASSUME NEW n \in Members, NEW more \in Nat,
                 earned' = [earned EXCEPT ![n] = @ + more]
          PROVE  \A m \in Members : earned[m] <= earned'[m]
      BY <3>0, <3>1
    <3>2. ASSUME NEW n \in Members, NEW points \in Grants, Earn(q, n, points)
          PROVE  \A m \in Members : earned[m] <= earned'[m]
      <4>1. points \in Nat
        BY PayoutAssumption
      <4> QED BY <3>1, <3>2, <4>1 DEF Earn
    <3>3. ASSUME NEW n \in Members, ReconcileCarryover(q, n)
          PROVE  \A m \in Members : earned[m] <= earned'[m]
      <4>1. CarryoverCredit[n] \in Nat
        BY PayoutAssumption
      <4> QED BY <3>1, <3>3, <4>1 DEF ReconcileCarryover
    <3>4. ASSUME NEW t \in Terms, CreateConfiguration(q, t)
          PROVE  \A m \in Members : earned[m] <= earned'[m]
      BY <3>0, <3>4 DEF CreateConfiguration
    <3> QED BY <1>3, <3>2, <3>3, <3>4 DEF Ledger
  <2> QED BY <1>1, <2>1, <2>2
<1>4. ASSUME NEW q \in Requests,
             \/ ApproveWrite(q) \/ PayRedemption(q)
             \/ \E b \in Batches : ApproveBatch(q, b)
             \/ \E n \in Members, c \in Cycles, ref \in References :
                  PayAssignment(q, n, c, ref)
      PROVE  Same
  <2>1. earned' = earned
    BY <1>4 DEF ApproveWrite, PayRedemption, ApproveBatch, PayAssignment
  <2>2. \A m \in Members : reservedPoints(m)' = reservedPoints(m)
    BY <1>4, StatusReserves
  <2> QED BY <1>0, <2>1, <2>2 DEF TypeOK
<1>5. ASSUME NEW q \in Requests, RejectWrite(q) \/ SetWrite(q)
      PROVE  /\ UNCHANGED <<earned, executions>>
             /\ \A m \in Members : reservedPoints(m)' <= reservedPoints(m)
  BY <1>5, StatusReserves DEF RejectWrite, SetWrite
<1>6. ASSUME NEW q \in Requests, RedeemInsert(q) \/ \E b \in Batches : BatchInsert(q, b)
      PROVE  /\ UNCHANGED <<earned, executions>>
             /\ \A m \in Members :
                  \/ reservedPoints(m)' = reservedPoints(m)
                  \/ reservedPoints(m) < reservedPoints(m)' /\ reservedPoints(m)' <= earned[m]
  BY <1>6, InsertCommits, BatchCommits DEF RedeemInsert, BatchInsert
<1>7. ASSUME NEW q \in Requests, RedemptionRoutes(q),
             ~RedeemInsert(q), ~ApproveWrite(q), ~RejectWrite(q), ~PayRedemption(q)
      PROVE  UNCHANGED <<redemption, assignment, earned>>
  BY <1>7 DEF RedemptionRoutes, RedeemValue, ApproveRead, ApproveValue, RejectRead,
              PayRedemptionValue, PayRedemptionRefused
<1>8. ASSUME NEW q \in Requests, PayoutRoutes(q), ~SetWrite(q),
             ~\E b \in Batches : BatchInsert(q, b) \/ ApproveBatch(q, b),
             ~\E n \in Members, c \in Cycles, ref \in References : PayAssignment(q, n, c, ref)
      PROVE  UNCHANGED <<redemption, assignment, earned>>
  BY <1>8 DEF PayoutRoutes, CreateCycle, BatchValue, SetRead
<1>9. CASE Operations \/ UNCHANGED vars
  BY <1>9, <1>2, OperationsFrame DEF vars
<1> HIDE DEF Same
<1>10. ASSUME NEW q \in Requests, RedemptionRoutes(q)
       PROVE  \/ Same
              \/ ApproveWrite(q) \/ PayRedemption(q) \/ RejectWrite(q) \/ RedeemInsert(q)
  BY <1>2, <1>7, <1>10
<1>11. ASSUME NEW q \in Requests, PayoutRoutes(q)
       PROVE  \/ Same
              \/ SetWrite(q) \/ \E b \in Batches : BatchInsert(q, b) \/ ApproveBatch(q, b)
              \/ \E n \in Members, c \in Cycles, ref \in References : PayAssignment(q, n, c, ref)
  BY <1>2, <1>8, <1>11
<1> QED BY <1>3, <1>4, <1>5, <1>6, <1>9, <1>10, <1>11 DEF Next, Same

\* The balances of the next state are natural numbers too.
LEMMA BalancesNext ==
  ASSUME TypeOK', NEW m \in Members
  PROVE  reservedPoints(m)' \in Nat /\ PaidPoints(m)' \in Nat
<1> DEFINE ha == [c \in Cycles |-> AssignmentHold(m, c)']
           hr == [i \in Redemptions |-> RedemptionHold(m, i)']
           pa == [c \in Cycles |-> PaidAssignment(m, c)']
           pr == [i \in Redemptions |-> PaidRedemption(m, i)']
<1>1. /\ \A c \in Cycles : ha[c] \in Nat /\ pa[c] \in Nat
      /\ \A i \in Redemptions : hr[i] \in Nat /\ pr[i] \in Nat
  BY DEF TypeOK, AssignmentRow, AssignmentHold, PaidAssignment,
         RedemptionRow, RedemptionHold, PaidRedemption
<1>2. /\ reservedPoints(m)' = SumTo(ha, NumCycles) + SumTo(hr, NumRedemptions)
      /\ PaidPoints(m)' = SumTo(pa, NumCycles) + SumTo(pr, NumRedemptions)
  BY DEF reservedPoints, PaidPoints
<1>3. /\ SumTo(ha, NumCycles) \in Nat /\ SumTo(hr, NumRedemptions) \in Nat
      /\ SumTo(pa, NumCycles) \in Nat /\ SumTo(pr, NumRedemptions) \in Nat
  <2> HIDE DEF ha, hr, pa, pr
  <2> QED BY <1>1, SumType, PayoutAssumption DEF Cycles, Redemptions
<1> HIDE DEF ha, hr, pa, pr
<1> QED BY <1>2, <1>3

\* A payment moves no reservation, and its member's earnings cover them all.
LEMMA PaymentCovered ==
  ASSUME SerialInv, TypeOK', [Next]_vars, NEW e, NewExecution(e)
  PROVE  /\ e.member \in Members
         /\ reservedPoints(e.member) <= earned[e.member]
         /\ earned' = earned
         /\ \A m \in Members : reservedPoints(m)' = reservedPoints(m)
<1>0. TypeOK /\ JobsInv
  BY DEF SerialInv, Inv
<1>1. e \notin executions /\ executions' = executions \cup {e}
  BY DEF NewExecution
<1>2. ASSUME NEW q \in Requests, PayRedemption(q)
      PROVE  /\ e.member \in Members
             /\ reservedPoints(e.member) <= earned[e.member]
             /\ earned' = earned
             /\ \A m \in Members : reservedPoints(m)' = reservedPoints(m)
  <2>1. e = RedemptionExecution(req[q])
    BY <1>1, <1>2 DEF PayRedemption
  <2>2. req[q].member \in Members /\ req[q].id \in Redemptions
    BY <1>0, <1>2, StatusWrites DEF PayJob
  <2>3. PICK m \in Members, i \in Redemptions : m = req[q].member /\ i = req[q].id
    BY <2>2
  <2>4. e.member = m
    BY <2>1, <2>3 DEF RedemptionExecution
  <2>5. redemption[m][i].points <= eligibleWithout(m, i)
    BY <1>2, <2>3 DEF SerialInv, SerialJob, PayRedemption
  <2>6. redemption[m][i].status = "APPROVED"
    BY <1>2, <2>3 DEF PayRedemption, RedemptionClaim
  <2>7. RedemptionHold(m, i) = redemption[m][i].points
    BY <2>6 DEF RedemptionHold, RESERVING_REDEMPTION_STATUSES
  <2>8. redemption[m][i].points \in Nat \ {0}
    <3>1. PricedAt(redemption[m][i].points, req[q].amount)
      BY <1>0, <1>2, <2>3 DEF JobsInv, JobInv, PayRedemption
    <3>2. redemption[m][i].points \in Nat
      BY <1>0 DEF TypeOK, RedemptionRow
    <3> QED BY <3>1, <3>2, PayoutAssumption DEF PricedAt
  <2>9. reservedPoints(m) \in Nat /\ earned[m] \in Nat
    BY <1>0, BalanceTypes DEF TypeOK
  <2>10. reservedPoints(m) <= earned[m]
    BY <2>5, <2>7, <2>8, <2>9 DEF eligibleWithout, Spendable
  <2>11. earned' = earned
    BY <1>2 DEF PayRedemption
  <2>12. \A n \in Members : reservedPoints(n)' = reservedPoints(n)
    BY <1>2, StatusReserves
  <2> QED BY <2>4, <2>10, <2>11, <2>12
<1>3. ASSUME NEW q \in Requests, NEW m \in Members, NEW c \in Cycles, NEW ref \in References,
             PayAssignment(q, m, c, ref)
      PROVE  /\ e.member \in Members
             /\ reservedPoints(e.member) <= earned[e.member]
             /\ earned' = earned
             /\ \A n \in Members : reservedPoints(n)' = reservedPoints(n)
  <2>1. e = AssignmentExecution(m, c, ref)
    BY <1>1, <1>3 DEF PayAssignment
  <2>2. e.member = m
    BY <2>1 DEF AssignmentExecution
  <2>3. assignment[m][c].status # "NONE"
    BY <1>3 DEF PayAssignment, AssignmentClaim, PAYABLE_ASSIGNMENT_STATUSES
  <2>4. reservedPoints(m) <= earned[m]
    BY <2>3 DEF SerialInv, AssignmentsCovered
  <2>5. earned' = earned
    BY <1>3 DEF PayAssignment
  <2>6. \A n \in Members : reservedPoints(n)' = reservedPoints(n)
    BY <1>3, StatusReserves
  <2> QED BY <2>2, <2>4, <2>5, <2>6
<1>4. executions' # executions
  BY <1>1
<1> QED BY <1>2, <1>3, <1>4, ExecutionWriters

\* A new assignment is covered when it is inserted and stays so.
LEMMA CoveredNext ==
  ASSUME SerialInv, TypeOK', [Next]_vars
  PROVE  AssignmentsCovered'
<1>0. TypeOK /\ JobsInv
  BY DEF SerialInv, Inv
<1>1. \A m \in Members : /\ reservedPoints(m) \in Nat /\ earned[m] \in Nat
                         /\ reservedPoints(m)' \in Nat /\ earned'[m] \in Nat
  <2>1. \A m \in Members : reservedPoints(m) \in Nat /\ earned[m] \in Nat
    BY <1>0, BalanceTypes DEF TypeOK
  <2>2. \A m \in Members : reservedPoints(m)' \in Nat
    BY BalancesNext
  <2> QED BY <2>1, <2>2 DEF TypeOK
<1>2. ASSUME NEW m \in Members, reservedPoints(m) <= earned[m]
      PROVE  reservedPoints(m)' <= earned'[m]
  BY <1>1, <1>2, ReservedNext
<1>3. ASSUME NEW q \in Requests, NEW b \in Batches, BatchInsert(q, b),
             NEW m \in Members, NEW c \in Cycles, assignment'[m][c].status # "NONE"
      PROVE  reservedPoints(m)' <= earned'[m]
  <2>1. earned' = earned
    BY <1>3 DEF BatchInsert
  <2>2. CASE assignment[m][c].status # "NONE"
    BY <1>2, <2>2 DEF SerialInv, AssignmentsCovered
  <2>3. CASE assignment[m][c].status = "NONE"
    BY <1>3, <2>1, <2>3, BatchCommits
  <2> QED BY <2>2, <2>3
<1>4. ASSUME \A q \in Requests, b \in Batches : ~BatchInsert(q, b),
             NEW m \in Members, NEW c \in Cycles, assignment'[m][c].status # "NONE"
      PROVE  assignment[m][c].status # "NONE"
  <2>1. ASSUME NEW q \in Requests, NEW b \in Batches, ApproveBatch(q, b)
        PROVE  assignment[m][c].status # "NONE"
    BY <1>0, <1>4, <2>1, ApprovalUpdate
  <2>2. ASSUME NEW q \in Requests, SetWrite(q)
        PROVE  assignment[m][c].status # "NONE"
    <3>1. AssignmentMoved(req[q].member, req[q].cycle, req[q].status)
      BY <1>0, <2>2, StatusWrites
    <3>2. assignment[req[q].member][req[q].cycle].status # "NONE"
      BY <1>0, <2>2 DEF SetWrite, JobsInv, JobInv
    <3> QED BY <1>4, <3>1, <3>2 DEF AssignmentMoved
  <2>3. ASSUME NEW q \in Requests, NEW n \in Members, NEW d \in Cycles, NEW ref \in References,
               PayAssignment(q, n, d, ref)
        PROVE  assignment[m][c].status # "NONE"
    BY <1>0, <1>4, <2>3, StatusWrites
       DEF AssignmentMoved, PayAssignment, AssignmentClaim, PAYABLE_ASSIGNMENT_STATUSES
  <2> QED BY <1>4, <2>1, <2>2, <2>3, AssignmentWriters
<1>5. ASSUME NEW m \in Members, NEW c \in Cycles, assignment'[m][c].status # "NONE"
      PROVE  reservedPoints(m)' <= earned'[m]
  BY <1>2, <1>3, <1>4, <1>5 DEF SerialInv, AssignmentsCovered
<1> QED BY <1>5 DEF AssignmentsCovered

\* Paid rows of the next state are reserved rows of the next state.
LEMMA PaidIsReservedNext ==
  ASSUME TypeOK', ExecutedIsPaid', NEW m \in Members
  PROVE  PaidPoints(m)' <= reservedPoints(m)'
<1> DEFINE ga == [c \in Cycles |-> PaidAssignment(m, c)']
           ha == [c \in Cycles |-> AssignmentHold(m, c)']
           gr == [i \in Redemptions |-> PaidRedemption(m, i)']
           hr == [i \in Redemptions |-> RedemptionHold(m, i)']
<1>1. \A c \in Cycles : ga[c] \in Nat /\ ha[c] \in Nat /\ ga[c] <= ha[c]
  BY DEF TypeOK, AssignmentRow, ExecutedIsPaid, PaidAssignment, AssignmentHold,
         RESERVING_PAYOUT_STATUSES
<1>2. \A i \in Redemptions : gr[i] \in Nat /\ hr[i] \in Nat /\ gr[i] <= hr[i]
  BY DEF TypeOK, RedemptionRow, ExecutedIsPaid, PaidRedemption, RedemptionHold,
         RESERVING_REDEMPTION_STATUSES
<1>3. /\ PaidPoints(m)' = SumTo(ga, NumCycles) + SumTo(gr, NumRedemptions)
      /\ reservedPoints(m)' = SumTo(ha, NumCycles) + SumTo(hr, NumRedemptions)
  BY DEF PaidPoints, reservedPoints
<1> HIDE DEF ga, ha, gr, hr
<1>4. SumTo(ga, NumCycles) <= SumTo(ha, NumCycles)
  BY <1>1, SumMonotone, PayoutAssumption DEF Cycles
<1>5. SumTo(gr, NumRedemptions) <= SumTo(hr, NumRedemptions)
  BY <1>2, SumMonotone, PayoutAssumption DEF Redemptions
<1>6. /\ SumTo(ga, NumCycles) \in Nat /\ SumTo(ha, NumCycles) \in Nat
      /\ SumTo(gr, NumRedemptions) \in Nat /\ SumTo(hr, NumRedemptions) \in Nat
  BY <1>1, <1>2, SumType, PayoutAssumption DEF Cycles, Redemptions
<1> QED BY <1>3, <1>4, <1>5, <1>6

\* Every step keeps the account: it earns, commits, releases, pays, or leaves
\* the balances as they are.
LEMMA AccountStep ==
  ASSUME SerialInv, Inv', ExecutedIsPaid', [Next]_vars
  PROVE  [Accounts!Next]_(Accounts!vars)
<1>0. TypeOK /\ TypeOK' /\ JobsInv
  BY DEF SerialInv, Inv
<1>1. \A m \in Members : /\ reservedPoints(m) \in Nat /\ reservedPoints(m)' \in Nat
                         /\ PaidPoints(m) \in Nat /\ PaidPoints(m)' \in Nat
                         /\ PaidPoints(m)' <= reservedPoints(m)'
  BY <1>0, BalanceTypes, PaidTypes, BalancesNext, PaidIsReservedNext
<1> DEFINE C == [m \in Members |-> reservedPoints(m)]
           D == [m \in Members |-> reservedPoints(m)']
           P == [m \in Members |-> PaidPoints(m)]
           R == [m \in Members |-> PaidPoints(m)']
<1>2. earned' \in [Members -> Nat] /\ D \in [Members -> Nat] /\ R \in [Members -> Nat]
  BY <1>0, <1>1 DEF TypeOK
<1>3. ASSUME D = C, R = P, \A m \in Members : earned[m] <= earned'[m]
      PROVE  Accounts!Earn
  BY <1>0, <1>2, <1>3 DEF Accounts!Earn, TypeOK
<1>4. ASSUME UNCHANGED <<earned, executions>>,
             \A m \in Members :
               \/ reservedPoints(m)' = reservedPoints(m)
               \/ reservedPoints(m) < reservedPoints(m)' /\ reservedPoints(m)' <= earned[m]
      PROVE  Accounts!Commit
  <2>1. R = P
    BY <1>4, PaidKept DEF SerialInv
  <2> QED BY <1>2, <1>4, <2>1 DEF Accounts!Commit
<1>5. ASSUME UNCHANGED <<earned, executions>>,
             \A m \in Members : reservedPoints(m)' <= reservedPoints(m)
      PROVE  Accounts!Release
  <2>1. R = P /\ \A m \in Members : PaidPoints(m)' = PaidPoints(m)
    BY <1>5, PaidKept DEF SerialInv
  <2>2. \A m \in Members : PaidPoints(m) <= reservedPoints(m)'
    BY <1>1, <2>1
  <2> QED BY <1>2, <1>5, <2>1, <2>2 DEF Accounts!Release
<1>6. ASSUME \A m \in Members : /\ reservedPoints(m)' = reservedPoints(m)
                                /\ earned[m] <= earned'[m]
      PROVE  Accounts!Earn \/ Accounts!Pay
  <2>1. D = C
    BY <1>6
  <2>2. CASE executions' = executions
    <3>1. R = P
      BY <2>2, PaidKept DEF SerialInv
    <3> QED BY <1>3, <1>6, <2>1, <3>1
  <2>3. CASE executions' # executions
    <3>1. PICK e : NewExecution(e)
      BY <1>0, <2>3, PaymentsRecord
    <3>2. /\ e.member \in Members /\ reservedPoints(e.member) <= earned[e.member]
          /\ earned' = earned
      BY <1>0, <3>1, PaymentCovered
    <3>3. /\ e.points \in Nat \ {0}
          /\ \A m \in Members : PaidPoints(m)' =
               IF m = e.member THEN PaidPoints(m) + e.points ELSE PaidPoints(m)
      <4>1. Inv
        BY DEF SerialInv
      <4>2. ASSUME NEW m \in Members
            PROVE  /\ e.points \in Nat \ {0}
                   /\ PaidPoints(m)' =
                        IF m = e.member THEN PaidPoints(m) + e.points ELSE PaidPoints(m)
        BY <3>1, <4>1, <4>2, PaidGrows
      <4> QED BY <3>2, <4>2
    <3>4. \A m \in Members :
            \/ R[m] = P[m]
            \/ P[m] < R[m] /\ R[m] <= C[m] /\ C[m] <= earned[m]
      <4> TAKE m \in Members
      <4>1. CASE m # e.member
        BY <3>3, <4>1
      <4>2. CASE m = e.member
        <5>1. PaidPoints(m) < PaidPoints(m)'
          BY <1>1, <3>3, <4>2
        <5>2. PaidPoints(m)' <= reservedPoints(m) /\ reservedPoints(m) <= earned[m]
          BY <1>1, <1>6, <3>2, <4>2
        <5> QED BY <5>1, <5>2
      <4> QED BY <4>1, <4>2
    <3> QED BY <1>2, <2>1, <3>2, <3>4 DEF Accounts!Pay
  <2> QED BY <2>2, <2>3
<1> HIDE DEF C, D, P, R
<1> QED BY <1>0, <1>4, <1>5, <1>6, ReservedNext DEF Accounts!Next

\* The serial invariant holds before any handler runs ...
LEMMA InitSerial == Init => SerialInv
<1> SUFFICES ASSUME Init PROVE SerialInv
  OBVIOUS
<1>1. /\ executions = {}
      /\ \A m \in Members, c \in Cycles : assignment[m][c].status = "NONE"
      /\ \A q \in Requests : req[q].op = "IDLE"
  BY DEF Init, NoAssignment, Idle
<1> QED BY <1>1, InitInv DEF SerialInv, ExecutedIsPaid, Executed, AssignmentsCovered, SerialJob

\* ... and every step of the only handler keeps it.
LEMMA SerialNext ==
  ASSUME OneHandler, SerialInv, [Next]_vars PROVE SerialInv'
<1>1. Inv'
  BY NextInv DEF SerialInv
<1>2. TypeOK /\ TypeOK'
  BY <1>1 DEF SerialInv, Inv
<1>3. (\A q \in Requests : SerialJob(req[q]))'
  BY <1>2, SerialJobsNext DEF SerialInv
<1>4. ExecutedIsPaid'
  BY ExecutedNext DEF SerialInv
<1>5. AssignmentsCovered'
  BY <1>2, CoveredNext
<1> QED BY <1>1, <1>3, <1>4, <1>5 DEF SerialInv

\* Every account starts with nothing earned here and nothing paid.
LEMMA InitAccount == Init => Accounts!Init
<1> SUFFICES ASSUME Init PROVE Accounts!Init
  OBVIOUS
<1>1. TypeOK
  BY InitTypeOK
<1>2. \A m \in Members : reservedPoints(m) \in Nat
  BY <1>1, BalanceTypes
<1>3. \A m \in Members : PaidPoints(m) = 0
  <2> TAKE m \in Members
  <2> DEFINE ga == [c \in Cycles |-> PaidAssignment(m, c)]
             gr == [i \in Redemptions |-> PaidRedemption(m, i)]
  <2>1. /\ \A c \in Cycles : ga[c] = 0
        /\ \A i \in Redemptions : gr[i] = 0
    BY DEF Init, PaidAssignment, PaidRedemption, Executed
  <2>2. PaidPoints(m) = SumTo(ga, NumCycles) + SumTo(gr, NumRedemptions)
    BY DEF PaidPoints
  <2> HIDE DEF ga, gr
  <2>3. SumTo(ga, NumCycles) = 0 /\ SumTo(gr, NumRedemptions) = 0
    BY <2>1, SumZero, PayoutAssumption DEF Cycles, Redemptions
  <2> QED BY <2>2, <2>3
<1>4. earned = [m \in Members |-> 0]
  BY DEF Init
<1> QED BY <1>2, <1>3, <1>4 DEF Accounts!Init

\* With one handler at a time, what a handler has read (a spendable balance, a
\* PENDING or an open status) is still true when it commits.
THEOREM SerialInvariance ==
  ASSUME OneHandler PROVE Spec => []SerialInv
<1>1. SerialInv /\ [Next]_vars => SerialInv'
  BY SerialNext
<1> QED BY <1>1, InitSerial, PTL DEF Spec

\* With one handler at a time the redemption and payout routes, over any number
\* of members and rows, implement Account: points are committed only against
\* earnings, released only while unpaid, and paid only out of a commitment that
\* earnings cover, whatever a legacy balance left reserved beforehand.
THEOREM SerialAccounts ==
  ASSUME OneHandler PROVE Spec => KeepsAccounts
<1>1. SerialInv /\ SerialInv' /\ [Next]_vars => [Accounts!Next]_(Accounts!vars)
  <2> SUFFICES ASSUME SerialInv, SerialInv', [Next]_vars
               PROVE  [Accounts!Next]_(Accounts!vars)
    OBVIOUS
  <2> QED BY AccountStep DEF SerialInv
<1> QED BY <1>1, InitAccount, SerialInvariance, PTL DEF Spec, KeepsAccounts, Accounts!Spec

\* With one handler at a time a member is never paid, through redemptions and
\* assignments together, more points than the reward ledger credited.
THEOREM SerialNoOverspend ==
  ASSUME OneHandler PROVE Spec => []NoOverspend
<1>1. Init => NoOverspend
  <2> SUFFICES ASSUME Init PROVE NoOverspend
    OBVIOUS
  <2>1. Accounts!Init
    BY InitAccount
  <2>2. \A m \in Members : earned[m] = 0 /\ PaidPoints(m) = 0
    <3>1. [m \in Members |-> PaidPoints(m)] = [m \in Members |-> 0]
      BY <2>1 DEF Accounts!Init
    <3>2. \A m \in Members : PaidPoints(m) = [n \in Members |-> PaidPoints(n)][m]
      OBVIOUS
    <3> QED BY <3>1, <3>2 DEF Init
  <2> QED BY <2>2 DEF NoOverspend
<1>2. SerialInv /\ SerialInv' /\ NoOverspend /\ [Next]_vars => NoOverspend'
  <2> SUFFICES ASSUME SerialInv, SerialInv', NoOverspend, [Next]_vars,
                      NEW m \in Members
               PROVE  PaidPoints(m)' <= earned'[m]
    BY DEF NoOverspend
  <2>1. TypeOK /\ TypeOK' /\ JobsInv
    BY DEF SerialInv, Inv
  <2>2. CASE executions' = executions
    <3>1. PaidPoints(m)' = PaidPoints(m)
      BY <2>2, PaidKept DEF SerialInv
    <3>2. earned[m] <= earned'[m]
      BY <2>1, ReservedNext DEF TypeOK
    <3>3. PaidPoints(m) \in Nat /\ earned[m] \in Nat /\ earned'[m] \in Nat
      BY <2>1, PaidTypes DEF TypeOK
    <3> QED BY <3>1, <3>2, <3>3 DEF NoOverspend
  <2>3. CASE executions' # executions
    <3>1. PICK e : NewExecution(e)
      BY <2>1, <2>3, PaymentsRecord
    <3>2. /\ e.member \in Members /\ reservedPoints(e.member) <= earned[e.member]
          /\ earned' = earned /\ reservedPoints(m)' = reservedPoints(m)
      BY <2>1, <3>1, PaymentCovered
    <3>3. PaidPoints(m)' = IF m = e.member THEN PaidPoints(m) + e.points ELSE PaidPoints(m)
      BY <3>1, PaidGrows DEF SerialInv
    <3>4. PaidPoints(m)' <= reservedPoints(m)'
      BY <2>1, PaidIsReservedNext DEF SerialInv
    <3>5. /\ PaidPoints(m)' \in Nat /\ earned[m] \in Nat
          /\ reservedPoints(m) \in Nat
      BY <2>1, BalanceTypes, BalancesNext DEF TypeOK
    <3> QED BY <3>2, <3>3, <3>4, <3>5 DEF NoOverspend
  <2> QED BY <2>2, <2>3
<1> QED BY <1>1, <1>2, SerialInvariance, PTL DEF Spec
===============================================================================
