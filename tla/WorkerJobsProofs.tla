--------------------------- MODULE WorkerJobsProofs ---------------------------
(***************************************************************************)
(* Proofs about WorkerJobs, for any number of jobs and runners, whatever   *)
(* crashes and losses, as long as no live runner outlasts its lock or the  *)
(* stale-processing threshold.                                             *)
(*                                                                         *)
(* A runner that executes a job remembers only that its claim succeeded.   *)
(* What keeps everyone else away is the row: it is PROCESSING, and while a *)
(* runner lives it does not go stale, so maintenance leaves it alone and   *)
(* no other claim finds it claimable.                                      *)
(***************************************************************************)
EXTENDS WorkerJobs, TLAPS

\* A job in execution is held by its row: nobody may claim or recover it.
HeldByRow ==
  \A r \in Runners, j \in Jobs :
    Executing(r, j) => row[j].status = "PROCESSING" /\ ~row[j].stale

Inv == TypeOK /\ HeldByRow /\ OneRunner

-------------------------------------------------------------------------------
(* Types *)

LEMMA InitInv == Init => Inv
BY WorkerAssumption DEF WorkerAssumption, Init, Inv, TypeOK, HeldByRow, OneRunner, Row, Run,
   Idle, Executing, Settled

\* A runner's step to a later stage keeps the slot's type.
LEMMA StageStep ==
  ASSUME TypeOK, NEW r \in Runners, run[r].stage # "IDLE",
         NEW s \in {"DELIVERED", "CLAIMED", "WORKING", "RETURNING"},
         run' = [run EXCEPT ![r].stage = s]
  PROVE  run' \in [Runners -> Run] /\ run[r].job \in Jobs
BY DEF TypeOK, Run

\* A row keeps its type when one of its fields is written.
LEMMA RowWrites ==
  ASSUME NEW w \in Row, NEW s \in {"PENDING", "PROCESSING", "FAILED"} \cup Settled,
         NEW b \in BOOLEAN
  PROVE  /\ [w EXCEPT !.status = s] \in Row
         /\ [w EXCEPT !.due = b] \in Row
         /\ [w EXCEPT !.stale = b] \in Row
BY DEF Row

\* What a successful claim makes of the rows.
LEMMA ClaimedRow ==
  ASSUME row \in [Jobs -> Row], NEW j \in Jobs,
         row' = [row EXCEPT ![j].status = "PROCESSING", ![j].attempts = @ + 1,
                            ![j].stale = FALSE]
  PROVE  /\ row' \in [Jobs -> Row]
         /\ row'[j].status = "PROCESSING" /\ ~row'[j].stale
         /\ \A i \in Jobs \ {j} : row'[i] = row[i]
<1> DEFINE x == [row EXCEPT ![j].status = "PROCESSING"]
           y == [x EXCEPT ![j].attempts = x[j].attempts + 1]
<1>1. row' = [y EXCEPT ![j].stale = FALSE]
  OBVIOUS
<1>2. /\ x \in [Jobs -> Row] /\ x[j].status = "PROCESSING"
      /\ \A i \in Jobs \ {j} : x[i] = row[i]
  BY DEF Row
<1> HIDE DEF x
<1>3. x[j].attempts + 1 \in Nat
  BY <1>2 DEF Row
<1>4. /\ y \in [Jobs -> Row] /\ y[j].status = "PROCESSING"
      /\ \A i \in Jobs \ {j} : y[i] = row[i]
  BY <1>2, <1>3 DEF Row
<1> HIDE DEF y
<1> QED BY <1>1, <1>4 DEF Row

LEMMA NextTypeOK == TypeOK /\ [Next]_vars => TypeOK'
<1> SUFFICES ASSUME TypeOK, [Next]_vars PROVE TypeOK'
  OBVIOUS
<1> USE WorkerAssumption DEF WorkerAssumption
<1>1. CASE SweepRead
  BY <1>1 DEF SweepRead, TypeOK
<1>2. CASE sweepStuckJobs
  <2>1. ASSUME NEW j \in Jobs
        PROVE  [row[j] EXCEPT !.status = "PENDING", !.stale = FALSE] \in Row
    <3>1. row[j] \in Row
      BY DEF TypeOK
    <3> QED BY <3>1 DEF Row
  <2>2. row' \in [Jobs -> Row]
    BY <1>2, <2>1 DEF sweepStuckJobs, TypeOK
  <2> QED BY <1>2, <2>2 DEF sweepStuckJobs, TypeOK
<1>3. CASE LoseRedis
  BY <1>3 DEF LoseRedis, TypeOK
<1>4. ASSUME NEW j \in Jobs, enqueueBackgroundJob(j) PROVE TypeOK'
  BY <1>4 DEF enqueueBackgroundJob, TypeOK, Row
<1>5. ASSUME NEW j \in Jobs, QueueAdd(j) \/ Stall(j) \/ Evict(j) PROVE TypeOK'
  BY <1>5 DEF QueueAdd, Stall, Evict, TypeOK
<1>6. ASSUME NEW j \in Jobs, BackoffElapses(j) \/ GoStale(j) PROVE TypeOK'
  <2>1. row \in [Jobs -> Row] /\ row[j] \in Row
    BY DEF TypeOK
  <2>2. [row[j] EXCEPT !.due = TRUE] \in Row /\ [row[j] EXCEPT !.stale = TRUE] \in Row
    BY <2>1, RowWrites
  <2>3. row' \in [Jobs -> Row]
    BY <1>6, <2>1, <2>2 DEF BackoffElapses, GoStale
  <2> QED BY <1>6, <2>3 DEF BackoffElapses, GoStale, TypeOK
<1>7. ASSUME NEW r \in Runners, NEW j \in Jobs, Deliver(r, j) PROVE TypeOK'
  <2>1. [stage |-> "DELIVERED", job |-> j, attempts |-> 0] \in Run
    BY DEF Run
  <2>2. entry' \in [Jobs -> {"NONE", "WAITING", "KEPT"} \cup Runners]
    BY <1>7 DEF Deliver, TypeOK
  <2> QED BY <1>7, <2>1, <2>2 DEF Deliver, TypeOK
<1>8. ASSUME NEW r \in Runners, Claim(r) PROVE TypeOK'
  <2>1. run' \in [Runners -> Run] /\ run[r].job \in Jobs
    BY <1>8, StageStep DEF Claim
  <2>2. row' \in [Jobs -> Row]
    BY <1>8, <2>1, ClaimedRow DEF Claim, TypeOK
  <2> QED BY <1>8, <2>1, <2>2 DEF Claim, TypeOK
<1>9. ASSUME NEW r \in Runners, ReadRecord(r) PROVE TypeOK'
  <2>1. run[r].job \in Jobs
    BY <1>9 DEF ReadRecord, TypeOK, Run
  <2>2. row[run[r].job].attempts \in Nat
    BY <2>1 DEF TypeOK, Row
  <2>3. [run[r] EXCEPT !.stage = "WORKING", !.attempts = row[run[r].job].attempts] \in Run
    BY <1>9, <2>1, <2>2 DEF ReadRecord, TypeOK, Run
  <2> QED BY <1>9, <2>3 DEF ReadRecord, TypeOK
<1>10. ASSUME NEW r \in Runners, Complete(r) \/ Fail(r) PROVE TypeOK'
  <2>1. run' \in [Runners -> Run] /\ run[r].job \in Jobs
    BY <1>10, StageStep DEF Complete, Fail
  <2>2. row' \in [Jobs -> Row]
    <3>1. row \in [Jobs -> Row] /\ row[run[r].job] \in Row
      BY <2>1 DEF TypeOK
    <3>2. CASE Complete(r)
      <4>1. [row[run[r].job] EXCEPT !.status = "COMPLETED"] \in Row
        BY <3>1, RowWrites DEF Settled
      <4> QED BY <3>1, <3>2, <4>1 DEF Complete
    <3>3. CASE Fail(r)
      <4> DEFINE s == IF exhausted(run[r].attempts) THEN "DEAD_LETTER" ELSE "FAILED"
                 w == [row[run[r].job] EXCEPT !.due = FALSE]
      <4>1. w \in Row
        BY <3>1, RowWrites
      <4>2. s \in {"PENDING", "PROCESSING", "FAILED"} \cup Settled
        BY DEF Settled
      <4>3. row' = [row EXCEPT ![run[r].job] = [w EXCEPT !.status = s]]
        BY <3>3 DEF Fail
      <4> HIDE DEF s, w
      <4>4. [w EXCEPT !.status = s] \in Row
        BY <4>1, <4>2, RowWrites
      <4> QED BY <3>1, <4>3, <4>4
    <3> QED BY <1>10, <3>2, <3>3
  <2> QED BY <1>10, <2>1, <2>2 DEF Complete, Fail, TypeOK
<1>11. ASSUME NEW r \in Runners, StatementFails(r) PROVE TypeOK'
  <2>1. run' \in [Runners -> Run]
    BY <1>11, StageStep DEF StatementFails
  <2> QED BY <1>11, <2>1 DEF StatementFails, TypeOK
<1>12. ASSUME NEW r \in Runners, Acknowledge(r) \/ Crash(r) PROVE TypeOK'
  <2>1. Idle \in Run
    BY DEF Idle, Run
  <2> QED BY <1>12, <2>1 DEF Acknowledge, Crash, TypeOK
<1>13. CASE UNCHANGED vars
  BY <1>13 DEF vars, TypeOK
<1> QED
  BY <1>1, <1>2, <1>3, <1>4, <1>5, <1>6, <1>7, <1>8, <1>9, <1>10, <1>11, <1>12, <1>13
     DEF Next, Handler

-------------------------------------------------------------------------------
(* Who executes what *)

\* Only a claim starts an execution: of a row that was claimable, which it holds.
LEMMA OnlyClaimsStart ==
  ASSUME TypeOK, [Next]_vars, NEW r \in Runners, NEW j \in Jobs,
         Executing(r, j)', ~Executing(r, j)
  PROVE  /\ row[j].status \in Claimable
         /\ row'[j].status = "PROCESSING" /\ ~row'[j].stale
         /\ \A s \in Runners \ {r} : run'[s] = run[s]
<1>1. ASSUME NEW s \in Runners, Claim(s)
      PROVE  /\ row[j].status \in Claimable
             /\ row'[j].status = "PROCESSING" /\ ~row'[j].stale
             /\ \A t \in Runners \ {r} : run'[t] = run[t]
  <2>1. /\ \A t \in Runners \ {s} : run'[t] = run[t]
        /\ run[s].job \in Jobs /\ row[run[s].job] \in Row
        /\ run'[s].job = run[s].job
    BY <1>1 DEF Claim, TypeOK, Run
  <2>2. s = r
    BY <2>1 DEF Executing
  <2>3. run[s].job = j /\ run[s].stage = "DELIVERED"
    BY <1>1, <2>1, <2>2 DEF Executing, Claim
  <2>4. row[j].status \in Claimable
    <3>1. run'[r].stage # "RETURNING"
      BY <2>3 DEF Executing
    <3>2. run' # [run EXCEPT ![r].stage = "RETURNING"]
      BY <3>1 DEF TypeOK, Run
    <3> QED BY <1>1, <2>2, <2>3, <3>2 DEF Claim
  <2>5. row' = [row EXCEPT ![j].status = "PROCESSING", ![j].attempts = @ + 1,
                           ![j].stale = FALSE]
    BY <1>1, <2>3, <2>4 DEF Claim
  <2>6. row'[j].status = "PROCESSING" /\ ~row'[j].stale
    BY <2>5, ClaimedRow DEF TypeOK
  <2> QED BY <2>1, <2>2, <2>4, <2>6
<1>2. ASSUME UNCHANGED run PROVE FALSE
  BY <1>2 DEF Executing
<1>3. ASSUME NEW s \in Runners, NEW i \in Jobs, Deliver(s, i) PROVE FALSE
  BY <1>3 DEF Deliver, Executing, TypeOK
<1>4. ASSUME NEW s \in Runners, ReadRecord(s) PROVE FALSE
  BY <1>4 DEF ReadRecord, Executing, TypeOK, Run
<1>5. ASSUME NEW s \in Runners, Complete(s) \/ Fail(s) \/ StatementFails(s) PROVE FALSE
  BY <1>5 DEF Complete, Fail, StatementFails, Executing, TypeOK, Run
<1>6. ASSUME NEW s \in Runners, Acknowledge(s) \/ Crash(s) PROVE FALSE
  BY <1>6 DEF Acknowledge, Crash, Idle, Executing, TypeOK
<1> QED
  BY <1>1, <1>2, <1>3, <1>4, <1>5, <1>6 DEF Next, Handler, SweepRead, sweepStuckJobs,
     LoseRedis, enqueueBackgroundJob, QueueAdd, BackoffElapses, GoStale, Stall, Evict, vars

\* A held row is let go only by the runner that executes it, which stops executing.
LEMMA OnlyHolderWrites ==
  ASSUME ~Overrun, TypeOK, HeldByRow, OneRunner, [Next]_vars,
         NEW r \in Runners, NEW j \in Jobs, Executing(r, j)
  PROVE  \/ row'[j].status = "PROCESSING" /\ ~row'[j].stale
         \/ ~Executing(r, j)'
<1>0. /\ row[j].status = "PROCESSING" /\ ~row[j].stale /\ row[j] \in Row
      /\ row \in [Jobs -> Row] /\ run \in [Runners -> Run]
      /\ \A s \in Runners : Executing(s, j) => s = r
  BY DEF HeldByRow, OneRunner, TypeOK
<1> DEFINE Held == row'[j].status = "PROCESSING" /\ ~row'[j].stale
<1>1. CASE sweepStuckJobs
  BY <1>0, <1>1 DEF sweepStuckJobs, Abandoned
<1>2. ASSUME NEW i \in Jobs, enqueueBackgroundJob(i) \/ BackoffElapses(i) PROVE Held
  BY <1>0, <1>2 DEF enqueueBackgroundJob, BackoffElapses, Row
<1>3. ASSUME NEW i \in Jobs, GoStale(i) PROVE Held
  <2>1. i # j
    BY <1>3 DEF GoStale, Running, Executing
  <2> QED BY <1>0, <1>3, <2>1 DEF GoStale
<1>4. ASSUME NEW s \in Runners, Claim(s) PROVE Held
  <2>1. CASE run[s].job = j
    BY <1>0, <1>4, <2>1 DEF Claim, Claimable
  <2>2. CASE run[s].job # j
    BY <1>0, <1>4, <2>2 DEF Claim
  <2> QED BY <2>1, <2>2
<1>5. ASSUME NEW s \in Runners, Complete(s) \/ Fail(s) PROVE Held \/ ~Executing(r, j)'
  <2>1. CASE run[s].job = j
    <3>1. s = r
      BY <1>0, <1>5, <2>1 DEF Complete, Fail, Executing
    <3>2. run' = [run EXCEPT ![r].stage = "RETURNING"]
      BY <1>5, <3>1 DEF Complete, Fail
    <3>3. run[r] \in Run
      BY <1>0
    <3>4. run'[r].stage = "RETURNING"
      BY <1>0, <3>2, <3>3 DEF Run
    <3> QED BY <3>4 DEF Executing
  <2>2. CASE run[s].job # j
    BY <1>0, <1>5, <2>2 DEF Complete, Fail
  <2> QED BY <2>1, <2>2
<1>6. ASSUME UNCHANGED row PROVE Held
  BY <1>0, <1>6
<1> QED
  BY <1>1, <1>2, <1>3, <1>4, <1>5, <1>6 DEF Next, Handler, SweepRead, LoseRedis, QueueAdd,
     Stall, Evict, Deliver, ReadRecord, StatementFails, Acknowledge, Crash, vars, sweepStuckJobs

LEMMA NextHeldByRow ==
  ASSUME ~Overrun, TypeOK, HeldByRow, OneRunner, [Next]_vars PROVE HeldByRow'
<1> SUFFICES ASSUME NEW r \in Runners, NEW j \in Jobs, Executing(r, j)'
             PROVE  row'[j].status = "PROCESSING" /\ ~row'[j].stale
  BY DEF HeldByRow
<1>1. CASE Executing(r, j)
  BY <1>1, OnlyHolderWrites
<1>2. CASE ~Executing(r, j)
  BY <1>2, OnlyClaimsStart
<1> QED BY <1>1, <1>2

LEMMA NextOneRunner ==
  ASSUME TypeOK, HeldByRow, OneRunner, [Next]_vars PROVE OneRunner'
<1> SUFFICES ASSUME NEW j \in Jobs, NEW r \in Runners, NEW s \in Runners,
                    Executing(r, j)', Executing(s, j)', r # s
             PROVE  FALSE
  BY DEF OneRunner
<1>1. ASSUME NEW p \in Runners, NEW q \in Runners, p # q, Executing(p, j)', Executing(q, j)',
             ~Executing(p, j)
      PROVE  FALSE
  <2>1. row[j].status \in Claimable /\ run'[q] = run[q]
    BY <1>1, OnlyClaimsStart
  <2>2. Executing(q, j)
    BY <1>1, <2>1 DEF Executing
  <2> QED BY <2>1, <2>2 DEF HeldByRow, Claimable
<1>2. CASE Executing(r, j) /\ Executing(s, j)
  BY <1>2 DEF OneRunner
<1> QED BY <1>1, <1>2

LEMMA NextInv == ASSUME ~Overrun PROVE Inv /\ [Next]_vars => Inv'
BY NextTypeOK, NextHeldByRow, NextOneRunner DEF Inv

-------------------------------------------------------------------------------
\* Every variable keeps its shape.
THEOREM TypeCorrect == Spec => []TypeOK
<1>1. Init => TypeOK
  BY InitInv DEF Inv
<1> QED BY <1>1, NextTypeOK, PTL DEF Spec

\* If no live runner outlasts its lock or the threshold, a job that is delivered
\* again, by a stall, a recovery or an emptied Redis, still has one runner.
THEOREM RunsAlone == ASSUME ~Overrun PROVE Spec => []OneRunner
<1>1. Inv => OneRunner
  BY DEF Inv
<1> QED BY InitInv, NextInv, <1>1, PTL DEF Spec

\* Under the same assumption, no late outcome, claim or recovery touches the
\* status of a row that has settled.
THEOREM SettledForGood == ASSUME ~Overrun PROVE Spec => SettledStays
<1>1. ASSUME Inv, [Next]_vars, NEW j \in Jobs, row[j].status \in Settled
      PROVE  row'[j].status = row[j].status
  <2> USE <1>1
  <2>0. row \in [Jobs -> Row] /\ row[j] \in Row /\ run \in [Runners -> Run]
    BY DEF Inv, TypeOK
  <2>1. CASE sweepStuckJobs
    BY <2>0, <2>1 DEF sweepStuckJobs, Abandoned, Settled
  <2>2. ASSUME NEW i \in Jobs, enqueueBackgroundJob(i) \/ GoStale(i)
        PROVE  row'[j].status = row[j].status
    BY <2>0, <2>2 DEF enqueueBackgroundJob, GoStale, Settled
  <2>3. ASSUME NEW i \in Jobs, BackoffElapses(i) PROVE row'[j].status = row[j].status
    BY <2>0, <2>3 DEF BackoffElapses, Row
  <2>4. ASSUME NEW r \in Runners, Claim(r) PROVE row'[j].status = row[j].status
    BY <2>0, <2>4 DEF Claim, Claimable, Settled
  <2>5. ASSUME NEW r \in Runners, Complete(r) \/ Fail(r)
        PROVE  row'[j].status = row[j].status
    <3>1. run[r].job # j
      BY <2>5 DEF Complete, Fail, Executing, Inv, HeldByRow, Settled
    <3> QED BY <2>0, <2>5, <3>1 DEF Complete, Fail
  <2>6. ASSUME UNCHANGED row PROVE row'[j].status = row[j].status
    BY <2>6
  <2> QED
    BY <2>1, <2>2, <2>3, <2>4, <2>5, <2>6 DEF Next, Handler, SweepRead, LoseRedis, QueueAdd,
       Stall, Evict, Deliver, ReadRecord, StatementFails, Acknowledge, Crash, vars
<1>2. Inv /\ [Next]_vars => [\A j \in Jobs : row[j].status \in Settled
                               => row'[j].status = row[j].status]_vars
  BY <1>1
<1> QED BY InitInv, NextInv, <1>2, PTL DEF Spec, SettledStays
===============================================================================
