-------------------------------- MODULE Payout --------------------------------
(***************************************************************************)
(* Money-out: the payout authority, the execution authority and the route  *)
(* handlers that reserve, approve, reject and pay points.                  *)
(*                                                                         *)
(* PostgreSQL runs every transaction at READ COMMITTED and the handlers    *)
(* take no locks, so a handler whose write depends on an earlier read is   *)
(* two or more steps here: a read step that parks what it saw in a slot of *)
(* req, and a commit step that writes from the parked values.  Between the *)
(* two, any other handler may commit.  What a conditional updateMany or a  *)
(* unique index re-checks at commit time is a guard of the commit step.    *)
(* A handler whose only reads are of immutable columns, or whose stale     *)
(* reads cannot change its effect, is one step.  A handler that stops (an  *)
(* early return, a refusal, a rollback, its process dying) frees its slot. *)
(* Each API process reads the payout switch once, when it starts; several  *)
(* may be up, an old one finishing its requests beside the new one.        *)
(***************************************************************************)
EXTENDS PointSums, FiniteSets

CONSTANTS
  Members,          \* beneficiaries
  Batches,          \* ids of payout batches
  Requests,         \* slots: how many handlers may be in flight at once
  References,       \* payment references
  Terms,            \* payout configuration rows: threshold and rate
  NoTerms, NoBatch, \* null columns
  NumRedemptions,   \* redemption rows a member may file (bound)
  NumCycles,        \* payout cycles (bound)
  PriorRedemptions, \* redemption rows per member that may predate the cutover
  PriorCycles,      \* how many cycles may predate the payout authority
  MinimumPoints,    \* [Terms -> Nat], PayoutConfiguration.minimumPoints
  ConversionRate,   \* [Terms -> Nat], pointConversionRate in units of 10^-4
  CarryoverCredit,  \* [Members -> Nat], floor(legacy balance * approved ratio)
  RequestSizes,     \* point counts a member may ask for
  Grants,           \* points one reward ledger entry may carry
  MaxEarned         \* bound on a member's earned points

ASSUME PayoutAssumption ==
  /\ NumRedemptions \in Nat /\ NumCycles \in Nat
  /\ PriorRedemptions \in 0..NumRedemptions /\ PriorCycles \in 0..NumCycles
  /\ NoTerms \notin Terms /\ NoBatch \notin Batches
  /\ MinimumPoints \in [Terms -> Nat \ {0}]
  /\ ConversionRate \in [Terms -> Nat]
  /\ CarryoverCredit \in [Members -> Nat]
  /\ RequestSizes \subseteq Nat \ {0}
  /\ Grants \subseteq Nat \ {0}

VARIABLES
  earned,      \* sum of a member's RewardLedgerEntry points
  redemption,  \* RewardRedemption rows, by member and ordinal
  assignment,  \* PayoutAssignment rows, by beneficiary and cycle
  batch,       \* PayoutBatch.status
  cycle,       \* PayoutCycle rows: snapshotted terms and their provenance
  active,      \* the newest active PayoutConfiguration
  carryover,   \* LegacyBalanceCarryover.status
  executions,  \* PayoutExecution rows
  settings,    \* values of PAYOUT_EXECUTION_ENABLED that API processes now up hold
  req          \* what each handler in flight has read

vars == <<earned, redemption, assignment, batch, cycle, active, carryover,
          executions, settings, req>>

Cycles == 1..NumCycles
Redemptions == 1..NumRedemptions

-------------------------------------------------------------------------------
(* Rows and statuses *)

\* Mutant: a paid assignment stops reserving its points.
MutantPaidReleases == {"PENDING", "ELIGIBLE", "APPROVED", "PROCESSING", "HELD"}

RESERVING_PAYOUT_STATUSES ==
  {"PENDING", "ELIGIBLE", "APPROVED", "PROCESSING", "PAID", "HELD"}
RESERVING_REDEMPTION_STATUSES == {"PENDING", "APPROVED", "PAID"}
PAYABLE_ASSIGNMENT_STATUSES == {"APPROVED", "PROCESSING"}
FinalStatuses == {"PAID", "REJECTED"}

NoRedemption == [status |-> "NONE", points |-> 0, prior |-> FALSE]
NoAssignment == [status |-> "NONE", points |-> 0, amount |-> 0, batch |-> NoBatch]
NoCycle == [terms |-> NoTerms, sourced |-> FALSE]

RedemptionRow == [status : {"NONE", "PENDING", "APPROVED", "REJECTED", "PAID"},
                  points : Nat, prior : BOOLEAN]
AssignmentRow == [status : {"NONE", "ELIGIBLE", "APPROVED", "PROCESSING",
                            "HELD", "REJECTED", "PAID"},
                  points : Nat, amount : Nat, batch : Batches \cup {NoBatch}]
CycleRow == [terms : Terms \cup {NoTerms}, sourced : BOOLEAN]
ExecutionRow == [kind : {"ASSIGNMENT", "REDEMPTION"}, member : Members, target : Nat,
                 points : Nat, amount : Nat, reference : References]

\* A redemption row that predates the payout authority.
PriorRow == [status : {"PENDING", "APPROVED", "PAID"}, points : RequestSizes,
             prior : {TRUE}]

\* What a handler in flight carries between its steps.
Idle == [op |-> "IDLE"]
RedeemJob == [op : {"REDEEM"}, member : Members, points : RequestSizes]
ApproveJob == [op : {"APPROVE"}, member : Members, id : Redemptions, valued : BOOLEAN]
RejectJob == [op : {"REJECT"}, member : Members, id : Redemptions]
PayJob == [op : {"PAY"}, member : Members, id : Redemptions, amount : Nat,
           reference : References]
BatchJob == [op : {"BATCH"}, cycle : Cycles, points : [Members -> Nat]]
SetJob == [op : {"SET"}, member : Members, cycle : Cycles,
           status : {"PROCESSING", "HELD", "REJECTED"}]
Job == {Idle} \cup RedeemJob \cup ApproveJob \cup RejectJob \cup PayJob
         \cup BatchJob \cup SetJob

-------------------------------------------------------------------------------
(* Balances and valuation *)

AssignmentHold(m, c) ==
  IF assignment[m][c].status \in RESERVING_PAYOUT_STATUSES
    THEN assignment[m][c].points ELSE 0

RedemptionHold(m, i) ==
  IF redemption[m][i].status \in RESERVING_REDEMPTION_STATUSES
    THEN redemption[m][i].points ELSE 0

\* Mutant: the original defect, a reservation query that counts assignments only.
MutantAssignmentsOnly(m) ==
  SumTo([c \in Cycles |-> AssignmentHold(m, c)], NumCycles)

reservedPoints(m) == SumTo([c \in Cycles |-> AssignmentHold(m, c)], NumCycles)
                   + SumTo([i \in Redemptions |-> RedemptionHold(m, i)], NumRedemptions)

\* Math.max(confirmedPoints - reservedPoints, 0).
Spendable(confirmed, reserved) ==
  IF confirmed > reserved THEN confirmed - reserved ELSE 0

eligiblePoints(m) == Spendable(earned[m], reservedPoints(m))

\* The balance a redemption is re-valued against: its own row is excluded.
eligibleWithout(m, i) == Spendable(earned[m], reservedPoints(m) - RedemptionHold(m, i))

\* points * rate rounded half up to two decimals.
Amount(points, t) == (points * ConversionRate[t] + 50) \div 100

\* valuePayout(...).meetsThreshold; it throws when no configuration is active.
meetsThreshold(points, available) ==
  /\ active # NoTerms
  /\ points <= available
  /\ points >= MinimumPoints[active]

\* valueEligibleBeneficiaries under a cycle's terms, for the members asked for.
EligibleUnder(t, asked) ==
  {m \in asked : eligiblePoints(m) >= MinimumPoints[t] /\ Amount(eligiblePoints(m), t) > 0}

isUnreconciledLegacyClaim(m, i) == redemption[m][i].prior /\ carryover[m] = "PENDING"

Executed(kind, m, target) ==
  \E e \in executions : e.kind = kind /\ e.member = m /\ e.target = target

\* Mutant: no unique index on the payment's target.
MutantReferenceIndexOnly(e) == \A f \in executions : f.reference # e.reference

\* The unique indexes on PayoutExecution: one row per target and per reference.
IndexesAllow(e) ==
  /\ ~Executed(e.kind, e.member, e.target)
  /\ \A f \in executions : f.reference # e.reference

-------------------------------------------------------------------------------
Init ==
  /\ earned = [m \in Members |-> 0]
  /\ redemption \in [Members -> [Redemptions -> {NoRedemption} \cup PriorRow]]
  /\ \A m \in Members, i \in Redemptions :
       i > PriorRedemptions => redemption[m][i] = NoRedemption
  /\ assignment = [m \in Members |-> [c \in Cycles |-> NoAssignment]]
  /\ batch = [b \in Batches |-> "NONE"]
  /\ cycle \in [Cycles -> [terms : Terms, sourced : {FALSE}] \cup {NoCycle}]
  /\ \E n \in 0..PriorCycles : \A c \in Cycles : c > n <=> cycle[c] = NoCycle
  /\ active = NoTerms
  /\ carryover \in [Members -> {"NONE", "PENDING"}]
  /\ executions = {}
  /\ settings \in SUBSET BOOLEAN \ {{}}
  /\ req = [q \in Requests |-> Idle]

Free(q) == req[q] = Idle
Begin(q, job) == Free(q) /\ req' = [req EXCEPT ![q] = job]
Finish(q) == req' = [req EXCEPT ![q] = Idle]

(* One more reward ledger entry: a verified referral, a milestone, a task.
   The rules that decide who earns what belong to the rewards component. *)
Earn(q, m, points) ==
  /\ Free(q)
  /\ earned[m] + points <= MaxEarned
  /\ earned' = [earned EXCEPT ![m] = @ + points]
  /\ UNCHANGED <<redemption, assignment, batch, cycle, active, carryover,
                 executions, settings, req>>

(* Reconciling a preserved legacy balance claims the carryover only while it
   is still pending and credits the converted points in the same transaction. *)
ReconcileCarryover(q, m) ==
  /\ Free(q)
  /\ carryover[m] = "PENDING"
  /\ carryover' = [carryover EXCEPT ![m] = "CONFIRMED"]
  /\ earned' = [earned EXCEPT ![m] = @ + CarryoverCredit[m]]
  /\ UNCHANGED <<redemption, assignment, batch, cycle, active, executions,
                 settings, req>>

(* A new configuration retires the active one. *)
CreateConfiguration(q, t) ==
  /\ Free(q)
  /\ active' = t
  /\ UNCHANGED <<earned, redemption, assignment, batch, cycle, carryover,
                 executions, settings, req>>

(* A cycle snapshots the active terms and records where they came from. *)
CreateCycle(q, c) ==
  /\ Free(q)
  /\ active # NoTerms
  /\ cycle[c] = NoCycle
  /\ \A d \in Cycles : d < c => cycle[d] # NoCycle
  /\ cycle' = [cycle EXCEPT ![c] = [terms |-> active, sourced |-> TRUE]]
  /\ UNCHANGED <<earned, redemption, assignment, batch, active, carryover,
                 executions, settings, req>>

-------------------------------------------------------------------------------
(* Redemptions *)

(* POST /redemptions values the request (a preview, then again inside the
   transaction; the preview only returns early) ... *)
RedeemValue(q, m, points) ==
  /\ meetsThreshold(points, eligiblePoints(m))
  /\ Begin(q, [op |-> "REDEEM", member |-> m, points |-> points])
  /\ UNCHANGED <<earned, redemption, assignment, batch, cycle, active, carryover,
                 executions, settings>>

(* ... and inserts the row. *)
RedeemInsert(q) ==
  \E i \in Redemptions :
    /\ req[q].op = "REDEEM"
    /\ redemption[req[q].member][i].status = "NONE"
    /\ \A k \in Redemptions : k < i => redemption[req[q].member][k].status # "NONE"
    /\ redemption' = [redemption EXCEPT ![req[q].member][i] =
         [status |-> "PENDING", points |-> req[q].points, prior |-> FALSE]]
    /\ Finish(q)
    /\ UNCHANGED <<earned, assignment, batch, cycle, active, carryover,
                   executions, settings>>

(* PATCH /redemptions/:id/approve reads the row before its transaction, ... *)
ApproveRead(q, m, i) ==
  /\ redemption[m][i].status = "PENDING"
  /\ Begin(q, [op |-> "APPROVE", member |-> m, id |-> i, valued |-> FALSE])
  /\ UNCHANGED <<earned, redemption, assignment, batch, cycle, active, carryover,
                 executions, settings>>

(* ... checks inside it that earnings cover every reservation, ... *)
Approvable(m, i) ==
  /\ reservedPoints(m) <= earned[m]
  /\ meetsThreshold(redemption[m][i].points, eligibleWithout(m, i))

ApproveValue(q) ==
  /\ req[q].op = "APPROVE" /\ ~req[q].valued
  /\ req' = [req EXCEPT ![q] = IF Approvable(@.member, @.id)
                                 THEN [@ EXCEPT !.valued = TRUE] ELSE Idle]
  /\ UNCHANGED <<earned, redemption, assignment, batch, cycle, active, carryover,
                 executions, settings>>

(* ... and updates the row by id, whatever its status is by then. *)
ApproveWrite(q) ==
  /\ req[q].op = "APPROVE" /\ req[q].valued
  /\ redemption' = [redemption EXCEPT ![req[q].member][req[q].id].status = "APPROVED"]
  /\ Finish(q)
  /\ UNCHANGED <<earned, assignment, batch, cycle, active, carryover,
                 executions, settings>>

(* PATCH /redemptions/:id/reject: read the status, then update by id. *)
RejectRead(q, m, i) ==
  /\ redemption[m][i].status = "PENDING"
  /\ Begin(q, [op |-> "REJECT", member |-> m, id |-> i])
  /\ UNCHANGED <<earned, redemption, assignment, batch, cycle, active, carryover,
                 executions, settings>>

RejectWrite(q) ==
  /\ req[q].op = "REJECT"
  /\ redemption' = [redemption EXCEPT ![req[q].member][req[q].id].status = "REJECTED"]
  /\ Finish(q)
  /\ UNCHANGED <<earned, assignment, batch, cycle, active, carryover,
                 executions, settings>>

\* Mutant: execution that re-values but does not ask where the claim came from.
MutantLegacyUnchecked(m, i) ==
  meetsThreshold(redemption[m][i].points, eligibleWithout(m, i))

\* The legacy-claim check and the re-valuation at execution.
PayableRedemption(m, i) ==
  /\ ~isUnreconciledLegacyClaim(m, i)
  /\ meetsThreshold(redemption[m][i].points, eligibleWithout(m, i))

\* Mutant: the valuation of a payment without assertPayoutExecutionEnabled.
MutantUnswitched(q, m, i, ref) ==
  /\ \A e \in executions : e.reference # ref
  /\ redemption[m][i].status # "NONE"
  /\ PayableRedemption(m, i)
  /\ Begin(q, [op |-> "PAY", member |-> m, id |-> i, reference |-> ref,
               amount |-> Amount(redemption[m][i].points, active)])
  /\ UNCHANGED <<earned, redemption, assignment, batch, cycle, active, carryover,
                 executions, settings>>

(* PATCH /redemptions/:id/paid -> executePayout -> executeRedemption: the
   switch, the reference lookup and the valuation ... *)
PayRedemptionValue(q, m, i, ref) ==
  /\ TRUE \in settings
  /\ \A e \in executions : e.reference # ref
  /\ redemption[m][i].status # "NONE"
  /\ PayableRedemption(m, i)
  /\ Begin(q, [op |-> "PAY", member |-> m, id |-> i, reference |-> ref,
               amount |-> Amount(redemption[m][i].points, active)])
  /\ UNCHANGED <<earned, redemption, assignment, batch, cycle, active, carryover,
                 executions, settings>>

RedemptionExecution(job) ==
  [kind |-> "REDEMPTION", member |-> job.member, target |-> job.id,
   points |-> redemption[job.member][job.id].points,
   amount |-> job.amount, reference |-> job.reference]

RedemptionClaim(m, i) == redemption[m][i].status = "APPROVED"

(* ... then the conditional claim and the execution record, both or neither. *)
PayRedemption(q) ==
  /\ req[q].op = "PAY"
  /\ RedemptionClaim(req[q].member, req[q].id)
  /\ IndexesAllow(RedemptionExecution(req[q]))
  /\ redemption' = [redemption EXCEPT ![req[q].member][req[q].id].status = "PAID"]
  /\ executions' = executions \cup {RedemptionExecution(req[q])}
  /\ Finish(q)
  /\ UNCHANGED <<earned, assignment, batch, cycle, active, carryover, settings>>

\* Mutant: a refusal by the index that leaves the claim committed.
MutantClaimOutlivesRefusal(q) ==
  /\ req[q].op = "PAY"
  /\ ~IndexesAllow(RedemptionExecution(req[q]))
  /\ redemption' = [redemption EXCEPT ![req[q].member][req[q].id].status = "PAID"]
  /\ Finish(q)
  /\ UNCHANGED <<earned, assignment, batch, cycle, active, carryover,
                 executions, settings>>

(* A claim of zero rows or a unique violation rolls the transaction back. *)
PayRedemptionRefused(q) ==
  /\ req[q].op = "PAY"
  /\ ~(RedemptionClaim(req[q].member, req[q].id)
        /\ IndexesAllow(RedemptionExecution(req[q])))
  /\ Finish(q)
  /\ UNCHANGED <<earned, redemption, assignment, batch, cycle, active, carryover,
                 executions, settings>>

-------------------------------------------------------------------------------
(* Cycles, batches and assignments *)

(* POST /payout/cycles/:id/batches values every member asked for ... *)
BatchValue(q, c, asked) ==
  /\ cycle[c] # NoCycle
  /\ EligibleUnder(cycle[c].terms, asked) # {}
  /\ Begin(q, [op |-> "BATCH", cycle |-> c, points |->
       [m \in Members |-> IF m \in EligibleUnder(cycle[c].terms, asked)
                            THEN eligiblePoints(m) ELSE 0]])
  /\ UNCHANGED <<earned, redemption, assignment, batch, cycle, active, carryover,
                 executions, settings>>

\* Mutant: the amount priced by today's configuration, not the cycle's snapshot.
MutantRepriced(m, c, points, b) ==
  IF points > 0 /\ assignment[m][c].status = "NONE" /\ active # NoTerms
    THEN [status |-> "ELIGIBLE", points |-> points,
          amount |-> Amount(points, active), batch |-> b]
    ELSE assignment[m][c]

\* Mutant: the row left at the column's default status.
MutantDefaultStatus(m, c, points, b) ==
  IF points > 0 /\ assignment[m][c].status = "NONE"
    THEN [status |-> "PENDING", points |-> points,
          amount |-> Amount(points, cycle[c].terms), batch |-> b]
    ELSE assignment[m][c]

\* createMany with skipDuplicates under the (cycle, beneficiary) unique index.
Assigned(m, c, points, b) ==
  IF points > 0 /\ assignment[m][c].status = "NONE"
    THEN [status |-> "ELIGIBLE", points |-> points,
          amount |-> Amount(points, cycle[c].terms), batch |-> b]
    ELSE assignment[m][c]

(* ... and inserts the batch with one assignment per valued member. *)
BatchInsert(q, b) ==
  /\ req[q].op = "BATCH"
  /\ batch[b] = "NONE"
  /\ batch' = [batch EXCEPT ![b] = "ELIGIBLE"]
  /\ assignment' = [m \in Members |-> [assignment[m] EXCEPT ![req[q].cycle] =
       Assigned(m, req[q].cycle, req[q].points[m], b)]]
  /\ Finish(q)
  /\ UNCHANGED <<earned, redemption, cycle, active, carryover, executions, settings>>

(* Approval moves the batch's waiting assignments, by a conditional update. *)
ApproveBatch(q, b) ==
  /\ Free(q)
  /\ batch[b] = "ELIGIBLE"
  /\ batch' = [batch EXCEPT ![b] = "APPROVED"]
  /\ assignment' = [m \in Members |-> [c \in Cycles |->
       IF assignment[m][c].batch = b /\ assignment[m][c].status = "ELIGIBLE"
         THEN [assignment[m][c] EXCEPT !.status = "APPROVED"]
         ELSE assignment[m][c]]]
  /\ UNCHANGED <<earned, redemption, cycle, active, carryover, executions,
                 settings, req>>

\* Mutants: the FINALIZED check, or the PROCESSING check, left out.
MutantNeverFinal(current, next) ==
  /\ current # "NONE"
  /\ next = "PROCESSING" => current = "APPROVED"
MutantAnyToProcessing(current, next) == current \notin FinalStatuses \cup {"NONE"}

(* PATCH /payout/assignments/:id/status, the non-paying branch: the status is
   read and judged, ... *)
MayBecome(current, next) ==
  /\ current \notin FinalStatuses \cup {"NONE"}
  /\ next = "PROCESSING" => current = "APPROVED"

SetRead(q, m, c, status) ==
  /\ MayBecome(assignment[m][c].status, status)
  /\ Begin(q, [op |-> "SET", member |-> m, cycle |-> c, status |-> status])
  /\ UNCHANGED <<earned, redemption, assignment, batch, cycle, active, carryover,
                 executions, settings>>

(* ... then the row is updated by id, whatever its status is by then. *)
SetWrite(q) ==
  /\ req[q].op = "SET"
  /\ assignment' = [assignment EXCEPT ![req[q].member][req[q].cycle].status =
                      req[q].status]
  /\ Finish(q)
  /\ UNCHANGED <<earned, redemption, batch, cycle, active, carryover, executions,
                 settings>>

AssignmentExecution(m, c, ref) ==
  [kind |-> "ASSIGNMENT", member |-> m, target |-> c,
   points |-> assignment[m][c].points, amount |-> assignment[m][c].amount,
   reference |-> ref]

AssignmentClaim(m, c) == assignment[m][c].status \in PAYABLE_ASSIGNMENT_STATUSES

(* The paying branch -> executeAssignment.  Everything it reads before its
   conditional claim (points, amount, the cycle's provenance) is immutable and
   its process is up until it ends, so it is one step.  It does not look at the
   member's balance again. *)
PayAssignment(q, m, c, ref) ==
  /\ Free(q)
  /\ TRUE \in settings
  /\ cycle[c].sourced
  /\ assignment[m][c].amount > 0
  /\ AssignmentClaim(m, c)
  /\ IndexesAllow(AssignmentExecution(m, c, ref))
  /\ assignment' = [assignment EXCEPT ![m][c].status = "PAID"]
  /\ executions' = executions \cup {AssignmentExecution(m, c, ref)}
  /\ UNCHANGED <<earned, redemption, batch, cycle, active, carryover, settings, req>>

(* A redeploy or a new instance starts processes with the switch set to v. *)
Deploy(v) ==
  /\ settings' = settings \cup {v}
  /\ UNCHANGED <<earned, redemption, assignment, batch, cycle, active, carryover,
                 executions, req>>

(* The last process with that setting exits.  SIGTERM lets requests in flight
   finish first, so no payment is left that such a process had let through;
   one that was killed has Lost its handlers before. *)
Drained(v) ==
  /\ v \in settings /\ settings # {v}
  /\ v => \A q \in Requests : req[q].op # "PAY"
  /\ settings' = settings \ {v}
  /\ UNCHANGED <<earned, redemption, assignment, batch, cycle, active, carryover,
                 executions, req>>

(* A handler dies with its process, or its transaction is rolled back. *)
Lost(q) ==
  /\ ~Free(q)
  /\ Finish(q)
  /\ UNCHANGED <<earned, redemption, assignment, batch, cycle, active, carryover,
                 executions, settings>>

Operations ==
  \/ \E v \in BOOLEAN : Deploy(v) \/ Drained(v)
  \/ \E q \in Requests : Lost(q)

Ledger(q) ==
  \/ \E m \in Members, points \in Grants : Earn(q, m, points)
  \/ \E m \in Members : ReconcileCarryover(q, m)
  \/ \E t \in Terms : CreateConfiguration(q, t)

RedemptionRoutes(q) ==
  \/ \E m \in Members, points \in RequestSizes : RedeemValue(q, m, points)
  \/ RedeemInsert(q)
  \/ \E m \in Members, i \in Redemptions : ApproveRead(q, m, i)
  \/ ApproveValue(q)
  \/ ApproveWrite(q)
  \/ \E m \in Members, i \in Redemptions : RejectRead(q, m, i)
  \/ RejectWrite(q)
  \/ \E m \in Members, i \in Redemptions, ref \in References :
       PayRedemptionValue(q, m, i, ref)
  \/ PayRedemption(q)
  \/ PayRedemptionRefused(q)

PayoutRoutes(q) ==
  \/ \E c \in Cycles : CreateCycle(q, c)
  \/ \E c \in Cycles, asked \in SUBSET Members : BatchValue(q, c, asked)
  \/ \E b \in Batches : BatchInsert(q, b)
  \/ \E b \in Batches : ApproveBatch(q, b)
  \/ \E m \in Members, c \in Cycles, s \in {"PROCESSING", "HELD", "REJECTED"} :
       SetRead(q, m, c, s)
  \/ SetWrite(q)
  \/ \E m \in Members, c \in Cycles, ref \in References : PayAssignment(q, m, c, ref)

Next ==
  \/ \E q \in Requests : Ledger(q) \/ RedemptionRoutes(q) \/ PayoutRoutes(q)
  \/ Operations

Spec == Init /\ [][Next]_vars

-------------------------------------------------------------------------------
(* Properties that hold whatever the interleaving *)

\* Every variable keeps its shape.
TypeOK ==
  /\ earned \in [Members -> Nat]
  /\ redemption \in [Members -> [Redemptions -> RedemptionRow]]
  /\ assignment \in [Members -> [Cycles -> AssignmentRow]]
  /\ batch \in [Batches -> {"NONE", "ELIGIBLE", "APPROVED"}]
  /\ cycle \in [Cycles -> CycleRow]
  /\ active \in Terms \cup {NoTerms}
  /\ carryover \in [Members -> {"NONE", "PENDING", "CONFIRMED"}]
  /\ executions \subseteq ExecutionRow
  /\ settings \subseteq BOOLEAN
  /\ req \in [Requests -> Job]

\* A reservation is paid at most once and a payment reference identifies one
\* payment, even when a stale write has moved a paid row back to a payable
\* status: executePayout's "a double submit pays once".
PaidAtMostOnce ==
  \A e, f \in executions :
    \/ e.reference = f.reference
    \/ e.kind = f.kind /\ e.member = f.member /\ e.target = f.target
    => e = f

\* What was paid is what the row reserved, priced from server-side terms: an
\* assignment at its cycle's snapshot, a redemption at some configuration's
\* rate and never below its threshold (payout-execution.ts, "valued from
\* server-side terms, never from a stored or supplied amount").
AmountIsServerDerived ==
  \A e \in executions :
    \/ /\ e.kind = "ASSIGNMENT"
       /\ cycle[e.target].sourced
       /\ e.points = assignment[e.member][e.target].points
       /\ e.points >= MinimumPoints[cycle[e.target].terms]
       /\ e.amount = Amount(e.points, cycle[e.target].terms) /\ e.amount > 0
    \/ /\ e.kind = "REDEMPTION"
       /\ e.points = redemption[e.member][e.target].points
       /\ \E t \in Terms : /\ e.points >= MinimumPoints[t]
                           /\ e.amount = Amount(e.points, t)

\* A claim on a legacy balance is never paid while that balance is still
\* waiting for an approved ratio (isUnreconciledLegacyClaim).
LegacyNeverPaid ==
  \A e \in executions :
    e.kind = "REDEMPTION" => ~isUnreconciledLegacyClaim(e.member, e.target)

\* Whatever order officers and approvers act in, an assignment that can still be
\* paid, or was, sits in a batch a Super Admin approved.
OnlyApprovedBatchesPay ==
  \A m \in Members, c \in Cycles :
    assignment[m][c].status \in PAYABLE_ASSIGNMENT_STATUSES \cup {"PAID"}
      => batch[assignment[m][c].batch] = "APPROVED"

\* A row says PAID only with its execution record beside it; rows paid before
\* the record existed are the one exception ("all three commit or none do").
PaidIsRecorded ==
  /\ \A m \in Members, c \in Cycles :
       assignment[m][c].status = "PAID" => Executed("ASSIGNMENT", m, c)
  /\ \A m \in Members, i \in Redemptions :
       redemption[m][i].status = "PAID"
         => Executed("REDEMPTION", m, i) \/ redemption[m][i].prior

\* Once the last API process started with the switch on has drained or died, no
\* payment commits, not even one valued before: the switch stops a payment only
\* through the process that lets it in.  (A payment in flight when an operator
\* turns the switch off does commit, in the old process.)
KillSwitchHolds == [][executions' # executions => TRUE \in settings]_vars

-------------------------------------------------------------------------------
(* Properties that hold when handlers run one at a time *)

PaidAssignment(m, c) ==
  IF Executed("ASSIGNMENT", m, c) THEN assignment[m][c].points ELSE 0
PaidRedemption(m, i) ==
  IF Executed("REDEMPTION", m, i) THEN redemption[m][i].points ELSE 0

\* Points a member's recorded payments discharged.
PaidPoints(m) == SumTo([c \in Cycles |-> PaidAssignment(m, c)], NumCycles)
               + SumTo([i \in Redemptions |-> PaidRedemption(m, i)], NumRedemptions)

\* "A member cannot spend the same points through both money-out paths", nor
\* twice through one: payments never exceed what was earned.
NoOverspend == \A m \in Members : PaidPoints(m) <= earned[m]

\* "Finalized payout assignments cannot be changed."
FinalizedAssignmentsStay ==
  [][\A m \in Members, c \in Cycles :
       assignment[m][c].status \in FinalStatuses
         => assignment'[m][c].status = assignment[m][c].status]_vars

\* Handlers that run one at a time keep each member's account: what the
\* reservations hold is the account's committed points, what the execution
\* records discharged is its paid points.
Accounts == INSTANCE Account WITH
  committed <- [m \in Members |-> reservedPoints(m)],
  paid <- [m \in Members |-> PaidPoints(m)]
KeepsAccounts == Accounts!Spec
===============================================================================
