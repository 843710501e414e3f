------------------------------ MODULE WorkerJobs ------------------------------
(***************************************************************************)
(* The background worker: durable BackgroundJob rows in PostgreSQL, swept  *)
(* into a BullMQ queue and executed by concurrent runners.                 *)
(*                                                                         *)
(* A job exists twice: as a row, which is authoritative, and as a queue    *)
(* entry keyed by the row's id, which only transports it.  A runner's      *)
(* handler is one step per statement it awaits, so runners, sweeps and     *)
(* crashes interleave between them.                                        *)
(*                                                                         *)
(* BullMQ is modelled by what the code relies on: adding an id that still  *)
(* exists does nothing; an entry stays, finished, until removeOnComplete / *)
(* removeOnFail evict it; an entry whose runner's lock expires is given    *)
(* out once more, then failed.                                             *)
(***************************************************************************)
EXTENDS Integers

CONSTANTS
  Jobs, Runners,
  NoJob,
  MaxAttempts,           \* BackgroundJob.maxAttempts
  WORKER_MAX_ATTEMPTS,   \* the sweep's own limit
  WorkFails,             \* whether a job's work may throw
  Overrun,               \* whether a live runner may outlast its lock or the
                         \* stale-processing threshold
  MaxCrashes,            \* runs lost to a crash or a failed statement (bound)
  MaxRedisLosses         \* times Redis comes back empty (bound)

ASSUME WorkerAssumption ==
  /\ NoJob \notin Jobs
  /\ Runners \cap {"NONE", "WAITING", "KEPT"} = {}
  /\ MaxAttempts \in Nat \ {0} /\ WORKER_MAX_ATTEMPTS \in Nat \ {0}
  /\ WorkFails \in BOOLEAN /\ Overrun \in BOOLEAN
  /\ MaxCrashes \in Nat /\ MaxRedisLosses \in Nat

VARIABLES
  row,       \* BackgroundJob: status, attempts, availableAt passed, startedAt stale
  entry,     \* the queue entry under the row's id; a runner when it is active
  stalled,   \* entries already given out a second time
  sweeping,  \* rows a tick has read and not yet added to the queue
  run,       \* where each runner is in runBackgroundJob, and record.attempts
  crashes, losses

vars == <<row, entry, stalled, sweeping, run, crashes, losses>>

Settled == {"COMPLETED", "DEAD_LETTER"}

Row == [status : {"NONE", "PENDING", "PROCESSING", "FAILED"} \cup Settled,
        attempts : Nat, due : BOOLEAN, stale : BOOLEAN]
Run == [stage : {"IDLE"}, job : {NoJob}, attempts : {0}]
         \cup [stage : {"DELIVERED", "CLAIMED", "WORKING", "RETURNING"},
               job : Jobs, attempts : Nat]

Idle == [stage |-> "IDLE", job |-> NoJob, attempts |-> 0]

Init ==
  /\ row = [j \in Jobs |-> [status |-> "NONE", attempts |-> 0, due |-> FALSE,
                            stale |-> FALSE]]
  /\ entry = [j \in Jobs |-> "NONE"]
  /\ stalled = [j \in Jobs |-> FALSE]
  /\ sweeping = {}
  /\ run = [r \in Runners |-> Idle]
  /\ crashes = 0 /\ losses = 0

-------------------------------------------------------------------------------
(* The API and the tick *)

(* The API records work; a duplicate idempotency key schedules nothing. *)
enqueueBackgroundJob(j) ==
  /\ row[j].status = "NONE"
  /\ row' = [row EXCEPT ![j] = [status |-> "PENDING", attempts |-> 0, due |-> TRUE,
                                stale |-> FALSE]]
  /\ UNCHANGED <<entry, stalled, sweeping, run, crashes, losses>>

\* Mutant: a sweep that leaves failed rows to the queue's own retries.
MutantPendingOnly(j) ==
  row[j].status = "PENDING" /\ row[j].due /\ row[j].attempts < WORKER_MAX_ATTEMPTS

Due(j) ==
  /\ row[j].status \in {"PENDING", "FAILED"}
  /\ row[j].due
  /\ row[j].attempts < WORKER_MAX_ATTEMPTS

(* A tick reads the due rows, ... *)
SweepRead ==
  /\ sweeping' = sweeping \cup {j \in Jobs : Due(j)}
  /\ UNCHANGED <<row, entry, stalled, run, crashes, losses>>

(* ... then adds them one by one; an id the queue still knows is not added. *)
QueueAdd(j) ==
  /\ j \in sweeping
  /\ sweeping' = sweeping \ {j}
  /\ entry' = [entry EXCEPT ![j] = IF @ = "NONE" THEN "WAITING" ELSE @]
  /\ UNCHANGED <<row, stalled, run, crashes, losses>>

-------------------------------------------------------------------------------
(* runBackgroundJob *)

Deliver(r, j) ==
  /\ run[r] = Idle
  /\ entry[j] = "WAITING"
  /\ entry' = [entry EXCEPT ![j] = r]
  /\ run' = [run EXCEPT ![r] = [stage |-> "DELIVERED", job |-> j, attempts |-> 0]]
  /\ UNCHANGED <<row, stalled, sweeping, crashes, losses>>

\* Mutant: a claim that takes over a row in progress.
MutantClaimsProcessing == {"PENDING", "FAILED", "PROCESSING"}

Claimable == {"PENDING", "FAILED"}

(* The conditional update: a row that is not claimable is skipped. *)
Claim(r) ==
  LET j == run[r].job IN
  /\ run[r].stage = "DELIVERED"
  /\ \/ /\ row[j].status \in Claimable
        /\ row' = [row EXCEPT ![j].status = "PROCESSING", ![j].attempts = @ + 1,
                              ![j].stale = FALSE]
        /\ run' = [run EXCEPT ![r].stage = "CLAIMED"]
     \/ /\ row[j].status \notin Claimable
        /\ run' = [run EXCEPT ![r].stage = "RETURNING"]
        /\ UNCHANGED row
  /\ UNCHANGED <<entry, stalled, sweeping, crashes, losses>>

(* The record is read back after the claim; the work starts with its attempts. *)
ReadRecord(r) ==
  /\ run[r].stage = "CLAIMED"
  /\ run' = [run EXCEPT ![r] = [@ EXCEPT !.stage = "WORKING",
                                !.attempts = row[run[r].job].attempts]]
  /\ UNCHANGED <<row, entry, stalled, sweeping, crashes, losses>>

\* Mutant: an outcome outside the column's enum.
MutantUnknownStatus(r) ==
  /\ run[r].stage = "WORKING"
  /\ row' = [row EXCEPT ![run[r].job].status = "DONE"]
  /\ run' = [run EXCEPT ![r].stage = "RETURNING"]
  /\ UNCHANGED <<entry, stalled, sweeping, crashes, losses>>

(* The work succeeded: the row is updated by id. *)
Complete(r) ==
  /\ run[r].stage = "WORKING"
  /\ row' = [row EXCEPT ![run[r].job].status = "COMPLETED"]
  /\ run' = [run EXCEPT ![r].stage = "RETURNING"]
  /\ UNCHANGED <<entry, stalled, sweeping, crashes, losses>>

exhausted(attempts) == attempts >= MaxAttempts

(* The work threw: retry after a backoff, or dead-letter; by id again. *)
Fail(r) ==
  /\ WorkFails
  /\ run[r].stage = "WORKING"
  /\ row' = [row EXCEPT ![run[r].job] = [@ EXCEPT !.due = FALSE,
       !.status = IF exhausted(run[r].attempts) THEN "DEAD_LETTER" ELSE "FAILED"]]
  /\ run' = [run EXCEPT ![r].stage = "RETURNING"]
  /\ UNCHANGED <<entry, stalled, sweeping, crashes, losses>>

(* The database refuses a statement: the handler throws, the row stays. *)
StatementFails(r) ==
  /\ crashes < MaxCrashes /\ crashes' = crashes + 1
  /\ run[r].stage \in {"DELIVERED", "CLAIMED", "WORKING"}
  /\ run' = [run EXCEPT ![r].stage = "RETURNING"]
  /\ UNCHANGED <<row, entry, stalled, sweeping, losses>>

(* BullMQ keeps the finished entry, unless the runner no longer holds it. *)
Acknowledge(r) ==
  /\ run[r].stage = "RETURNING"
  /\ entry' = [entry EXCEPT ![run[r].job] = IF @ = r THEN "KEPT" ELSE @]
  /\ run' = [run EXCEPT ![r] = Idle]
  /\ UNCHANGED <<row, stalled, sweeping, crashes, losses>>

(* A process dies at any point; its entry stays active, its row as it was. *)
Crash(r) ==
  /\ crashes < MaxCrashes /\ crashes' = crashes + 1
  /\ run[r] # Idle
  /\ run' = [run EXCEPT ![r] = Idle]
  /\ UNCHANGED <<row, entry, stalled, sweeping, losses>>

-------------------------------------------------------------------------------
(* Time, maintenance and the queue *)

Running(j) == \E r \in Runners : run[r].job = j

(* availableAt passes, whatever the row's status by then. *)
BackoffElapses(j) ==
  /\ row[j].status # "NONE" /\ ~row[j].due
  /\ row' = [row EXCEPT ![j].due = TRUE]
  /\ UNCHANGED <<entry, stalled, sweeping, run, crashes, losses>>

(* startedAt falls behind the cutoff. *)
GoStale(j) ==
  /\ row[j].status = "PROCESSING" /\ ~row[j].stale
  /\ Overrun \/ ~Running(j)
  /\ row' = [row EXCEPT ![j].stale = TRUE]
  /\ UNCHANGED <<entry, stalled, sweeping, run, crashes, losses>>

\* Mutants: recovery that does not look at startedAt, or compares the wrong way.
MutantRecoverAll(j) == row[j].status = "PROCESSING"

Abandoned(j) == row[j].status = "PROCESSING" /\ row[j].stale

(* The recurring maintenance job: abandoned rows go back to PENDING. *)
sweepStuckJobs ==
  /\ \E j \in Jobs : Abandoned(j)
  /\ row' = [j \in Jobs |-> IF Abandoned(j)
       THEN [row[j] EXCEPT !.status = "PENDING", !.stale = FALSE] ELSE row[j]]
  /\ UNCHANGED <<entry, stalled, sweeping, run, crashes, losses>>

(* An active entry whose lock expired is given out again, once. *)
Stall(j) ==
  /\ entry[j] \in Runners
  /\ Overrun \/ run[entry[j]].job # j
  /\ entry' = [entry EXCEPT ![j] = IF stalled[j] THEN "KEPT" ELSE "WAITING"]
  /\ stalled' = [stalled EXCEPT ![j] = TRUE]
  /\ UNCHANGED <<row, sweeping, run, crashes, losses>>

(* 500 later entries of its queue finished the same way, completed or failed.
   Nothing makes them: the entry may stay for good. *)
Evict(j) ==
  /\ entry[j] = "KEPT"
  /\ entry' = [entry EXCEPT ![j] = "NONE"]
  /\ stalled' = [stalled EXCEPT ![j] = FALSE]
  /\ UNCHANGED <<row, sweeping, run, crashes, losses>>

LoseRedis ==
  /\ losses < MaxRedisLosses /\ losses' = losses + 1
  /\ entry' = [j \in Jobs |-> "NONE"]
  /\ stalled' = [j \in Jobs |-> FALSE]
  /\ UNCHANGED <<row, sweeping, run, crashes>>

-------------------------------------------------------------------------------
Handler(r) == Claim(r) \/ ReadRecord(r) \/ Complete(r) \/ Fail(r) \/ Acknowledge(r)

Next ==
  \/ SweepRead
  \/ sweepStuckJobs
  \/ LoseRedis
  \/ \E j \in Jobs : \/ enqueueBackgroundJob(j) \/ QueueAdd(j) \/ BackoffElapses(j)
                     \/ GoStale(j) \/ Stall(j) \/ Evict(j)
  \/ \E r \in Runners, j \in Jobs : Deliver(r, j)
  \/ \E r \in Runners : Handler(r) \/ StatementFails(r) \/ Crash(r)

Spec == Init /\ [][Next]_vars

\* The poll timer fires, the awaited calls return, clocks advance, BullMQ looks
\* for stalled entries, and it serves waiting entries in order: none is passed
\* over for ever while runners keep becoming free.
Fairness ==
  /\ WF_vars(SweepRead)
  /\ WF_vars(sweepStuckJobs)
  /\ \A j \in Jobs : /\ WF_vars(QueueAdd(j)) /\ WF_vars(BackoffElapses(j))
                     /\ WF_vars(GoStale(j)) /\ WF_vars(Stall(j))
                     /\ SF_vars(\E r \in Runners : Deliver(r, j))
  /\ \A r \in Runners : WF_vars(Handler(r))

FairSpec == Spec /\ Fairness

-------------------------------------------------------------------------------
(* Properties *)

\* Every variable keeps its shape.
TypeOK ==
  /\ row \in [Jobs -> Row]
  /\ entry \in [Jobs -> {"NONE", "WAITING", "KEPT"} \cup Runners]
  /\ stalled \in [Jobs -> BOOLEAN]
  /\ sweeping \subseteq Jobs
  /\ run \in [Runners -> Run]
  /\ crashes \in 0..MaxCrashes /\ losses \in 0..MaxRedisLosses

Executing(r, j) == run[r].job = j /\ run[r].stage \in {"CLAIMED", "WORKING"}

\* "If the same job is delivered twice, a duplicate sweep, a retry after a
\* crash, only one runner proceeds": no two runners execute a row at once.
OneRunner ==
  \A j \in Jobs, r, s \in Runners : Executing(r, j) /\ Executing(s, j) => r = s

\* A settled row stays as it settled: a completed job is neither failed nor run
\* again by a late delivery, and a dead letter waits for an operator.
SettledStays ==
  [][\A j \in Jobs : row[j].status \in Settled
       => row'[j].status = row[j].status]_vars

\* Interrupted on its last attempt: no sweep selects the row again.
Stranded(j) == row[j].status = "PENDING" /\ row[j].attempts >= WORKER_MAX_ATTEMPTS

\* The row is to run again, but the queue still knows its id from an earlier run
\* (a failure, or a delivery that was skipped), so no sweep can add it.
Blocked(j) == entry[j] = "KEPT" /\ row[j].status \notin Settled


===============================================================================
