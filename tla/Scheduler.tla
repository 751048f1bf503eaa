----------------------------- MODULE Scheduler -----------------------------
(***************************************************************************)
(* The scheduler queue: SchedulerService of labos/workers/scheduler.py and *)
(* the two endpoints of labos/api/app.py that call and commit it.          *)
(*                                                                         *)
(* As in Governance, a request loads (and checks) rows, and later writes   *)
(* and commits in one transaction; other sessions take steps in between.   *)
(* run_next marks the job dispatched, runs it and records the outcome      *)
(* inside that one transaction, so the state "dispatched" is never         *)
(* committed, and a crash leaves the job queued as it was.  What running a *)
(* job creates (a lab, or a run) is counted; whether it succeeds depends   *)
(* on the profile, the lab and the disk, and is left open.                 *)
(***************************************************************************)
EXTENDS Lifecycle, Naturals, FiniteSets

CONSTANTS
  Jobs,           \* job ids a request may draw (uuid4: never drawn twice)
  Requesters,     \* values of requester_id
  Sessions,       \* concurrent requests the server handles
  MaxPending,     \* max_pending_jobs_per_requester
  MaxAttempts,    \* the most that max_attempts may ask for
  Horizon,        \* bound: the last moment of the clock
  MaxDispatches,  \* bound: dispatches of one job that are explored
  None            \* the requester of a row that does not exist

ASSUME SchedulerAssumption ==
  /\ IsFiniteSet(Jobs)
  /\ IsFiniteSet(Sessions)
  /\ MaxPending \in Nat \ {0}
  /\ MaxAttempts \in Nat \ {0}
  /\ Horizon \in Nat
  /\ MaxDispatches \in Nat
  /\ None \notin Requesters

VARIABLES
  job,         \* SchedulerJobRow, by id
  now,         \* utc_now()
  dispatches,  \* scheduler_job.dispatched events, by job
  made,        \* labs or runs that running the job has created
  sess         \* what each session has loaded

vars == <<job, now, dispatches, made, sess>>

Pending == {"queued", "dispatched"}

\* created_at is the rank of the insertion; last_error and result: whether the
\* nullable columns hold a value.
JobRow ==
  [state: SchedulerJobState \cup {"none"}, requester_id: Requesters \cup {None},
   scheduled_for: Nat, created_at: Nat, attempt_count: Nat, max_attempts: Nat,
   last_error: BOOLEAN, result: BOOLEAN]

Idle == [pc |-> "idle"]

SessionState ==
  {Idle}
    \cup [pc: {"enqueue.counted"}, job: Jobs, requester_id: Requesters,
          scheduled_for: Nat, max_attempts: 1..MaxAttempts]
    \cup [pc: {"dispatch.loaded"}, job: Jobs, old: JobRow]

TypeOK ==
  /\ job \in [Jobs -> JobRow]
  /\ now \in Nat
  /\ dispatches \in [Jobs -> Nat]
  /\ made \in [Jobs -> Nat]
  /\ sess \in [Sessions -> SessionState]

NoRow ==
  [state |-> "none", requester_id |-> None, scheduled_for |-> 0,
   created_at |-> 0, attempt_count |-> 0, max_attempts |-> 0,
   last_error |-> FALSE, result |-> FALSE]

Init ==
  /\ job = [j \in Jobs |-> NoRow]
  /\ now = 0
  /\ dispatches = [j \in Jobs |-> 0]
  /\ made = [j \in Jobs |-> 0]
  /\ sess = [s \in Sessions |-> Idle]

Load(s, record) == sess[s] = Idle /\ sess' = [sess EXCEPT ![s] = record]

Finish(s) == sess' = [sess EXCEPT ![s] = Idle]

\* SQLAlchemy writes a column only when its new value differs from the one the
\* session loaded.
Net(current, loaded, new) == IF new = loaded THEN current ELSE new

-----------------------------------------------------------------------------
(* POST /scheduler/jobs: enqueue *)

PendingJobs(r) == {j \in Jobs : job[j].requester_id = r /\ job[j].state \in Pending}

\* Mutant: the quota is compared with <=.
QuotaOffByOne(r) == Cardinality(PendingJobs(r)) <= MaxPending

QuotaLeft(r) == Cardinality(PendingJobs(r)) < MaxPending

FreshJob(j) ==
  /\ job[j].state = "none"
  /\ \A t \in Sessions : sess[t].pc = "enqueue.counted" => sess[t].job # j

BeginEnqueue(s, j, requester, scheduledFor, maxAttempts) ==
  /\ FreshJob(j)
  /\ QuotaLeft(requester)
  /\ Load(s, [pc |-> "enqueue.counted", job |-> j, requester_id |-> requester,
              scheduled_for |-> scheduledFor, max_attempts |-> maxAttempts])
  /\ UNCHANGED <<job, now, dispatches, made>>

CommitEnqueue(s) ==
  /\ sess[s].pc = "enqueue.counted"
  /\ job' = [job EXCEPT ![sess[s].job] =
              [state |-> "queued", requester_id |-> sess[s].requester_id,
               scheduled_for |-> sess[s].scheduled_for,
               created_at |-> Cardinality({i \in Jobs : job[i].state # "none"}),
               attempt_count |-> 0, max_attempts |-> sess[s].max_attempts,
               last_error |-> FALSE, result |-> FALSE]]
  /\ Finish(s)
  /\ UNCHANGED <<now, dispatches, made>>

-----------------------------------------------------------------------------
(* POST /scheduler/jobs/dispatch-next: run_next *)

Due == {j \in Jobs : job[j].state = "queued" /\ job[j].scheduled_for <= now}

\* The order of list_jobs and run_next.
Before(i, j) ==
  \/ job[i].scheduled_for < job[j].scheduled_for
  \/ /\ job[i].scheduled_for = job[j].scheduled_for
     /\ job[i].created_at < job[j].created_at

\* .first(): nothing marks or locks the row that it loads.
BeginDispatch(s) ==
  \E j \in Due :
    /\ \A i \in Due \ {j} : Before(j, i)
    /\ dispatches[j] < MaxDispatches
    /\ Load(s, [pc |-> "dispatch.loaded", job |-> j, old |-> job[j]])
    /\ UNCHANGED <<job, now, dispatches, made>>

\* Mutant: the attempt is not counted.
AttemptNotCounted(s) == sess[s].old.attempt_count

\* What both outcomes write: the count is one more than was loaded.
Attempt(s) == sess[s].old.attempt_count + 1

DispatchSucceeds(s) ==
  LET j == sess[s].job
  IN /\ sess[s].pc = "dispatch.loaded"
     /\ job' = [job EXCEPT
          ![j].state = "succeeded",
          ![j].attempt_count = Attempt(s),
          ![j].last_error = Net(@, sess[s].old.last_error, FALSE),
          ![j].result = TRUE]
     /\ dispatches' = [dispatches EXCEPT ![j] = @ + 1]
     /\ made' = [made EXCEPT ![j] = @ + 1]
     /\ Finish(s)
     /\ UNCHANGED now

\* Mutants: one attempt too many, the event's name, the job stays dispatched.
FailsTooLate(s) ==
  IF Attempt(s) > sess[s].old.max_attempts THEN "failed" ELSE "queued"

FailureRequeued(s) ==
  IF Attempt(s) >= sess[s].old.max_attempts THEN "failed" ELSE "requeued"

FailureStaysDispatched(s) ==
  IF Attempt(s) >= sess[s].old.max_attempts THEN "failed" ELSE "dispatched"

StateAfterFailure(s) ==
  IF Attempt(s) >= sess[s].old.max_attempts THEN "failed" ELSE "queued"

\* Mutant: no savepoint, so a failed attempt keeps what it created.
FailsWithoutRollback(s) ==
  LET j == sess[s].job
  IN /\ sess[s].pc = "dispatch.loaded"
     /\ job' = [job EXCEPT ![j].state = StateAfterFailure(s),
                           ![j].attempt_count = Attempt(s),
                           ![j].last_error = TRUE]
     /\ dispatches' = [dispatches EXCEPT ![j] = @ + 1]
     /\ made' = [made EXCEPT ![j] = @ + 1]
     /\ Finish(s)
     /\ UNCHANGED now

\* The savepoint is rolled back: what the attempt had created is gone.
DispatchFails(s) ==
  LET j == sess[s].job
  IN /\ sess[s].pc = "dispatch.loaded"
     /\ job' = [job EXCEPT
          ![j].state = StateAfterFailure(s),
          ![j].attempt_count = Attempt(s),
          ![j].last_error = TRUE]
     /\ dispatches' = [dispatches EXCEPT ![j] = @ + 1]
     /\ Finish(s)
     /\ UNCHANGED <<now, made>>

-----------------------------------------------------------------------------

Tick ==
  /\ now < Horizon
  /\ now' = now + 1
  /\ UNCHANGED <<job, dispatches, made, sess>>

\* An exception, a database error or a crash before the commit.
Abort(s) ==
  /\ sess[s] # Idle
  /\ Finish(s)
  /\ UNCHANGED <<job, now, dispatches, made>>

Dispatched(s) == DispatchSucceeds(s) \/ DispatchFails(s)

Next ==
  \/ \E s \in Sessions :
       \/ \E j \in Jobs, r \in Requesters, at \in 0..Horizon, n \in 1..MaxAttempts :
            BeginEnqueue(s, j, r, at, n)
       \/ CommitEnqueue(s)
       \/ BeginDispatch(s)
       \/ Dispatched(s)
       \/ Abort(s)
  \/ Tick

Spec == Init /\ [][Next]_vars

\* Operators keep calling dispatch-next (there is no daemon), not every call
\* is lost, requests come to an end, and time goes on.
Fairness ==
  /\ SF_vars(\E s \in Sessions : BeginDispatch(s))
  /\ SF_vars(\E s \in Sessions : Dispatched(s))
  /\ \A s \in Sessions : WF_vars(CommitEnqueue(s) \/ Dispatched(s))
  /\ WF_vars(Tick)

FairSpec == Spec /\ Fairness

-----------------------------------------------------------------------------
(* However many sessions *)

\* A job never records more attempts than it asked for, and one that gave up
\* used them all: a failure is judged by the count in a row that may be stale
\* by the time it is written.
AttemptsBounded ==
  \A j \in Jobs :
    /\ job[j].attempt_count <= job[j].max_attempts
    /\ job[j].state = "queued" => job[j].attempt_count < job[j].max_attempts
    /\ job[j].state = "failed" => /\ job[j].attempt_count = job[j].max_attempts
                                  /\ job[j].last_error

\* A job that succeeded has created what it names as its result, and a result
\* is never lost to a later attempt.
ResultsAreReal ==
  \A j \in Jobs :
    /\ job[j].state = "succeeded" => job[j].result
    /\ job[j].result <=> made[j] > 0

\* Requests that race past the quota check overshoot the quota by no more than
\* the number of other requests in flight.
QuotaOvershootBounded ==
  \A r \in Requesters :
    Cardinality(PendingJobs(r)) <= MaxPending + Cardinality(Sessions) - 1

\* What a session that dispatches may rely on of the row it loaded: it had an
\* attempt left, and max_attempts has not changed.
HoldsRunnableJob(s) ==
  sess[s].pc = "dispatch.loaded" =>
    /\ sess[s].old.attempt_count < sess[s].old.max_attempts
    /\ sess[s].old.max_attempts = job[sess[s].job].max_attempts
    /\ job[sess[s].job].state # "none"

Enqueueing(s) == sess[s].pc = "enqueue.counted"

OwnsNewJob(s) ==
  Enqueueing(s) =>
    /\ job[sess[s].job].state = "none"
    /\ \A t \in Sessions : Enqueueing(t) /\ sess[t].job = sess[s].job => t = s

NothingMadeBefore == \A j \in Jobs : job[j].state = "none" => made[j] = 0

\* Inductive, with AttemptsBounded and ResultsAreReal among its parts.
IndInv ==
  /\ TypeOK
  /\ \A s \in Sessions : HoldsRunnableJob(s) /\ OwnsNewJob(s)
  /\ NothingMadeBefore
  /\ AttemptsBounded
  /\ ResultsAreReal


\* The jobs of a requester that are pending, or that a request in flight may
\* make pending: one it is about to insert, or one it may put back in the queue
\* after another dispatcher has finished it.
Claimed(r) ==
  PendingJobs(r)
    \cup {j \in Jobs : \E s \in Sessions :
            \/ Enqueueing(s) /\ sess[s].job = j /\ sess[s].requester_id = r
            \/ /\ sess[s].pc = "dispatch.loaded" /\ sess[s].job = j
               /\ job[j].requester_id = r}

\* Inductive, with IndInv, and stronger than QuotaOvershootBounded.
ClaimsBounded ==
  \A r \in Requesters :
    Cardinality(Claimed(r)) <= MaxPending + Cardinality(Sessions) - 1

-----------------------------------------------------------------------------
(* As long as requests are served one at a time *)

\* The row accounts for what happened: every dispatch is counted, crashed ones
\* left no trace, and a job makes one lab or run at the most, when it succeeds.
JobAccounting ==
  \A j \in Jobs :
    /\ dispatches[j] = job[j].attempt_count
    /\ made[j] = IF job[j].state = "succeeded" THEN 1 ELSE 0

\* One request at a time.
Serial == \A s, t \in Sessions : s = t

\* Inductive for one session, together with IndInv: the row that a dispatcher
\* has loaded is the row in the database.
SerialInv ==
  /\ JobAccounting
  /\ \A j \in Jobs : job[j].state = "none" => job[j].attempt_count = 0
  /\ \A s \in Sessions :
       sess[s].pc = "dispatch.loaded" =>
         sess[s].old = job[sess[s].job] /\ sess[s].old.state = "queued"

\* A job is never dispatched more often than its max_attempts.
DispatchesBounded ==
  \A j \in Jobs : dispatches[j] <= job[j].max_attempts

Finished == {"succeeded", "failed"}

\* Every queued job is run until it succeeds or has used its attempts: neither
\* a job that keeps failing at the head of the queue nor lost calls starve it.
QueuedJobsFinish ==
  \A j \in Jobs : job[j].state = "queued" ~> job[j].state \in Finished
=============================================================================
