-------------------------- MODULE SchedulerProofs --------------------------
(***************************************************************************)
(* For any number of jobs, requesters and concurrent requests: no job      *)
(* records more attempts than it may have, and results are real.           *)
(***************************************************************************)
EXTENDS Scheduler, TLAPS, FiniteSetTheorems

\* created_at, the rank of the insertion, is a natural number.
LEMMA RankIsNat == Cardinality({i \in Jobs : job[i].state # "none"}) \in Nat
  <1>1. IsFiniteSet({i \in Jobs : job[i].state # "none"})
    BY SchedulerAssumption, FS_Subset
  <1> QED  BY <1>1, FS_CardinalityType

\* What the record a session holds looks like at each of its steps.
LEMMA SessionShape ==
  ASSUME TypeOK, NEW s \in Sessions
  PROVE  /\ sess[s].pc \in {"idle", "enqueue.counted", "dispatch.loaded"}
         /\ sess[s] = Idle => sess[s].pc = "idle"
         /\ sess[s].pc = "enqueue.counted" =>
              sess[s] \in [pc: {"enqueue.counted"}, job: Jobs,
                           requester_id: Requesters, scheduled_for: Nat,
                           max_attempts: 1..MaxAttempts]
         /\ sess[s].pc = "dispatch.loaded" =>
              sess[s] \in [pc: {"dispatch.loaded"}, job: Jobs, old: JobRow]
  BY DEF TypeOK, SessionState, Idle

\* The queue is empty and nothing is in flight at first.
LEMMA IndInvInit == Init => IndInv
  <1> SUFFICES ASSUME Init PROVE IndInv
    OBVIOUS
  <1>1. NoRow \in JobRow
    BY DEF NoRow, JobRow
  <1>2. TypeOK
    BY <1>1 DEF Init, TypeOK, SessionState
  <1>3. \A s \in Sessions : HoldsRunnableJob(s) /\ OwnsNewJob(s)
    BY DEF Init, Idle, HoldsRunnableJob, OwnsNewJob, Enqueueing
  <1>4. NothingMadeBefore /\ AttemptsBounded /\ ResultsAreReal
    BY DEF Init, NoRow, NothingMadeBefore, AttemptsBounded, ResultsAreReal
  <1> QED  BY <1>2, <1>3, <1>4 DEF IndInv

\* A commit leaves a well-typed row behind and the session idle.
LEMMA FinishType ==
  ASSUME TypeOK, NEW s \in Sessions, Finish(s)
  PROVE  /\ sess' \in [Sessions -> SessionState]
         /\ sess'[s] = Idle
         /\ \A t \in Sessions \ {s} : sess'[t] = sess[t]
  BY DEF TypeOK, Finish, SessionState

\* Enqueueing: the new row asks for at least one attempt and has made none.
LEMMA EnqueueStep ==
  ASSUME IndInv, NEW s \in Sessions, CommitEnqueue(s)
  PROVE  IndInv'
  <1> DEFINE j == sess[s].job
  <1>a. /\ TypeOK /\ HoldsRunnableJob(s) /\ OwnsNewJob(s)
        /\ sess[s].pc = "enqueue.counted" /\ Finish(s)
        /\ UNCHANGED <<now, dispatches, made>>
    BY DEF IndInv, CommitEnqueue
  <1>b. /\ j \in Jobs /\ sess[s].requester_id \in Requesters
        /\ sess[s].scheduled_for \in Nat /\ sess[s].max_attempts \in 1..MaxAttempts
    BY <1>a, SessionShape
  <1>c. /\ job' \in [Jobs -> JobRow]
        /\ \A i \in Jobs \ {j} : job'[i] = job[i]
        /\ job'[j].state = "queued"
        /\ job'[j].attempt_count = 0
        /\ job'[j].max_attempts = sess[s].max_attempts
        /\ job'[j].result = FALSE
    <2> DEFINE rank == Cardinality({i \in Jobs : job[i].state # "none"})
               row == [state |-> "queued", requester_id |-> sess[s].requester_id,
                       scheduled_for |-> sess[s].scheduled_for,
                       created_at |-> rank, attempt_count |-> 0,
                       max_attempts |-> sess[s].max_attempts,
                       last_error |-> FALSE, result |-> FALSE]
    <2>1. rank \in Nat
      BY RankIsNat
    <2>2. job' = [job EXCEPT ![j] = row]
      BY DEF CommitEnqueue
    <2> HIDE DEF rank
    <2>3. row \in JobRow
      BY <1>b, <2>1, SchedulerAssumption DEF JobRow, SchedulerJobState
    <2>4. job \in [Jobs -> JobRow]
      BY <1>a DEF TypeOK
    <2> QED  BY <1>b, <2>2, <2>3, <2>4
  <1>d. /\ sess' \in [Sessions -> SessionState] /\ sess'[s] = Idle
        /\ \A t \in Sessions \ {s} : sess'[t] = sess[t]
    BY <1>a, FinishType
  <1>1. TypeOK'
    BY <1>a, <1>c, <1>d DEF TypeOK
  <1>2. \A t \in Sessions : HoldsRunnableJob(t)'
    <2> TAKE t \in Sessions
    <2>1. CASE t = s
      BY <1>d, <2>1 DEF HoldsRunnableJob, Idle
    <2>2. CASE t # s
      <3>1. sess'[t] = sess[t] /\ HoldsRunnableJob(t)
        BY <1>d, <2>2 DEF IndInv
      <3>2. sess[t].pc = "dispatch.loaded" => sess[t].job \in Jobs \ {j}
        BY <1>a, <3>1, SessionShape DEF OwnsNewJob, Enqueueing, HoldsRunnableJob
      <3> QED  BY <1>c, <3>1, <3>2 DEF HoldsRunnableJob
    <2> QED  BY <2>1, <2>2
  <1>3. \A t \in Sessions : OwnsNewJob(t)'
    <2> SUFFICES ASSUME NEW t \in Sessions, sess'[t].pc = "enqueue.counted"
                 PROVE  OwnsNewJob(t)'
      BY DEF OwnsNewJob, Enqueueing
    <2>1. t # s /\ sess'[t] = sess[t] /\ OwnsNewJob(t) /\ OwnsNewJob(s)
      BY <1>d DEF IndInv, Idle
    <2>2. sess[t].job \in Jobs \ {j}
      BY <1>a, <2>1, SessionShape DEF OwnsNewJob, Enqueueing
    <2>3. \A u \in Sessions : sess'[u].pc = "enqueue.counted" => sess'[u] = sess[u]
      BY <1>d DEF Idle
    <2> QED  BY <1>c, <2>1, <2>2, <2>3 DEF OwnsNewJob, Enqueueing
  <1>4. NothingMadeBefore' /\ ResultsAreReal'
    <2>1. made[j] = 0 /\ NothingMadeBefore /\ ResultsAreReal
      BY <1>a, <1>b DEF IndInv, NothingMadeBefore, OwnsNewJob, Enqueueing
    <2>2. NothingMadeBefore'
      BY <1>a, <1>c, <2>1 DEF NothingMadeBefore
    <2>3. ResultsAreReal'
      BY <1>a, <1>c, <2>1 DEF ResultsAreReal
    <2> QED  BY <2>2, <2>3
  <1>5. AttemptsBounded'
    BY <1>b, <1>c, SchedulerAssumption DEF IndInv, AttemptsBounded
  <1> QED  BY <1>1, <1>2, <1>3, <1>4, <1>5 DEF IndInv

\* What both outcomes of a dispatch write, from the row the session loaded.
LEMMA DispatchEffect ==
  ASSUME IndInv, NEW s \in Sessions, Dispatched(s)
  PROVE  LET j == sess[s].job IN
         /\ sess[s].pc = "dispatch.loaded" /\ j \in Jobs /\ Finish(s)
         /\ UNCHANGED now
         /\ job' \in [Jobs -> JobRow]
         /\ dispatches' \in [Jobs -> Nat] /\ made' \in [Jobs -> Nat]
         /\ \A i \in Jobs \ {j} : job'[i] = job[i] /\ made'[i] = made[i]
         /\ job'[j].state \in {"queued", "succeeded", "failed"}
         /\ job'[j].max_attempts = job[j].max_attempts
         /\ job'[j].requester_id = job[j].requester_id
         /\ job'[j].attempt_count <= job'[j].max_attempts
         /\ job'[j].state = "queued" =>
              job'[j].attempt_count < job'[j].max_attempts
         /\ job'[j].state = "failed" =>
              job'[j].attempt_count = job'[j].max_attempts /\ job'[j].last_error
         /\ job'[j].state = "succeeded" => job'[j].result
         /\ job'[j].result <=> made'[j] > 0
  <1> DEFINE j == sess[s].job
  <1>a. /\ TypeOK /\ HoldsRunnableJob(s) /\ sess[s].pc = "dispatch.loaded"
        /\ ResultsAreReal
    BY DEF IndInv, Dispatched, DispatchSucceeds, DispatchFails
  <1>b. j \in Jobs /\ sess[s].old \in JobRow
    BY <1>a, SessionShape
  <1>c. /\ job \in [Jobs -> JobRow] /\ job[j] \in JobRow
        /\ dispatches \in [Jobs -> Nat] /\ made \in [Jobs -> Nat]
    BY <1>a, <1>b DEF TypeOK
  <1>d. /\ Attempt(s) \in Nat
        /\ Attempt(s) <= job[j].max_attempts
        /\ sess[s].old.max_attempts = job[j].max_attempts
        /\ job[j].max_attempts \in Nat
    BY <1>a, <1>b, <1>c DEF Attempt, HoldsRunnableJob, JobRow
  <1>e. /\ job[j].result <=> made[j] > 0
        /\ made[j] \in Nat
    BY <1>a, <1>b, <1>c DEF ResultsAreReal
  <1>1. CASE DispatchSucceeds(s)
    <2>1. job' = [job EXCEPT ![j] = [job[j] EXCEPT
                    !.state = "succeeded", !.attempt_count = Attempt(s),
                    !.last_error = Net(job[j].last_error, sess[s].old.last_error, FALSE),
                    !.result = TRUE]]
      BY <1>1, <1>b, <1>c DEF DispatchSucceeds
    <2>2. Net(job[j].last_error, sess[s].old.last_error, FALSE) \in BOOLEAN
      BY <1>b, <1>c DEF Net, JobRow
    <2>3. job'[j] \in JobRow /\ job' \in [Jobs -> JobRow]
      BY <1>b, <1>c, <1>d, <2>1, <2>2 DEF JobRow, SchedulerJobState
    <2>4. /\ \A i \in Jobs \ {j} : job'[i] = job[i]
          /\ job'[j].state = "succeeded" /\ job'[j].result = TRUE
          /\ job'[j].attempt_count = Attempt(s)
          /\ job'[j].max_attempts = job[j].max_attempts
          /\ job'[j].requester_id = job[j].requester_id
      BY <1>b, <1>c, <2>1 DEF JobRow
    <2>5. /\ made' = [made EXCEPT ![j] = made[j] + 1]
          /\ dispatches' = [dispatches EXCEPT ![j] = dispatches[j] + 1]
          /\ Finish(s) /\ UNCHANGED now
      BY <1>1 DEF DispatchSucceeds
    <2> QED  BY <1>a, <1>b, <1>c, <1>d, <1>e, <2>3, <2>4, <2>5
  <1>2. CASE DispatchFails(s)
    <2>1. job' = [job EXCEPT ![j] = [job[j] EXCEPT
                    !.state = StateAfterFailure(s), !.attempt_count = Attempt(s),
                    !.last_error = TRUE]]
      BY <1>2, <1>b, <1>c DEF DispatchFails
    <2>2. StateAfterFailure(s) \in {"queued", "failed"}
      BY DEF StateAfterFailure
    <2>3. job'[j] \in JobRow /\ job' \in [Jobs -> JobRow]
      BY <1>b, <1>c, <1>d, <2>1, <2>2 DEF JobRow, SchedulerJobState
    <2>4. /\ \A i \in Jobs \ {j} : job'[i] = job[i]
          /\ job'[j].state = StateAfterFailure(s) /\ job'[j].result = job[j].result
          /\ job'[j].attempt_count = Attempt(s) /\ job'[j].last_error = TRUE
          /\ job'[j].max_attempts = job[j].max_attempts
          /\ job'[j].requester_id = job[j].requester_id
      BY <1>b, <1>c, <2>1 DEF JobRow
    <2>5. /\ dispatches' = [dispatches EXCEPT ![j] = dispatches[j] + 1]
          /\ Finish(s) /\ UNCHANGED <<now, made>>
      BY <1>2 DEF DispatchFails
    <2>6. /\ StateAfterFailure(s) = "queued" => Attempt(s) < job[j].max_attempts
          /\ StateAfterFailure(s) = "failed" => Attempt(s) = job[j].max_attempts
      BY <1>d DEF StateAfterFailure
    <2> QED  BY <1>a, <1>b, <1>c, <1>d, <1>e, <2>2, <2>3, <2>4, <2>5, <2>6
  <1> QED  BY <1>1, <1>2 DEF Dispatched

\* Dispatching: a stale count is still below the limit, and a result that an
\* earlier dispatch recorded is kept.
LEMMA DispatchStep ==
  ASSUME IndInv, NEW s \in Sessions, Dispatched(s)
  PROVE  IndInv'
  <1> DEFINE j == sess[s].job
  <1>a. /\ sess[s].pc = "dispatch.loaded" /\ j \in Jobs /\ Finish(s)
        /\ UNCHANGED now
        /\ job' \in [Jobs -> JobRow]
        /\ dispatches' \in [Jobs -> Nat] /\ made' \in [Jobs -> Nat]
        /\ \A i \in Jobs \ {j} : job'[i] = job[i] /\ made'[i] = made[i]
        /\ job'[j].state \in {"queued", "succeeded", "failed"}
        /\ job'[j].max_attempts = job[j].max_attempts
    BY DispatchEffect
  <1>b. TypeOK /\ HoldsRunnableJob(s)
    BY DEF IndInv
  <1>c. /\ sess' \in [Sessions -> SessionState] /\ sess'[s] = Idle
        /\ \A t \in Sessions \ {s} : sess'[t] = sess[t]
    BY <1>a, <1>b, FinishType
  <1>d. /\ job[j].state # "none"
        /\ \A i \in Jobs : job'[i].max_attempts = job[i].max_attempts
        /\ \A i \in Jobs : job'[i].state = "none" <=> job[i].state = "none"
    BY <1>a, <1>b DEF HoldsRunnableJob
  <1>1. TypeOK'
    BY <1>a, <1>b, <1>c DEF TypeOK
  <1>2. \A t \in Sessions : HoldsRunnableJob(t)' /\ OwnsNewJob(t)'
    <2> TAKE t \in Sessions
    <2>1. HoldsRunnableJob(t) /\ OwnsNewJob(t)
      BY DEF IndInv
    <2>2. sess'[t].pc # "idle" => t # s /\ sess'[t] = sess[t] /\ sess[t].job \in Jobs
      BY <1>b, <1>c, SessionShape DEF Idle
    <2>3. \A u \in Sessions : sess'[u].pc # "idle" => sess'[u] = sess[u]
      BY <1>c DEF Idle
    <2>4. HoldsRunnableJob(t)'
      BY <1>d, <2>1, <2>2 DEF HoldsRunnableJob
    <2>5. OwnsNewJob(t)'
      BY <1>d, <2>1, <2>2, <2>3 DEF OwnsNewJob, Enqueueing
    <2> QED  BY <2>4, <2>5
  <1>3. NothingMadeBefore'
    BY <1>a, <1>d DEF IndInv, NothingMadeBefore
  <1>4. AttemptsBounded'
    BY <1>a, DispatchEffect DEF IndInv, AttemptsBounded
  <1>5. ResultsAreReal'
    BY <1>a, DispatchEffect DEF IndInv, ResultsAreReal
  <1> QED  BY <1>1, <1>2, <1>3, <1>4, <1>5 DEF IndInv

\* Steps that leave the rows alone: loading, giving up, and the clock.
LEMMA LoadStep ==
  ASSUME IndInv, NEW s \in Sessions, UNCHANGED <<job, now, dispatches, made>>,
         NEW record \in SessionState, sess' = [sess EXCEPT ![s] = record],
         record.pc = "dispatch.loaded" =>
           /\ record.job \in Jobs /\ record.old = job[record.job]
           /\ job[record.job].state = "queued",
         record.pc = "enqueue.counted" => FreshJob(record.job)
  PROVE  IndInv'
  <1>a. /\ TypeOK /\ sess'[s] = record
        /\ \A t \in Sessions \ {s} : sess'[t] = sess[t]
    BY DEF IndInv, TypeOK
  <1>1. TypeOK'
    BY <1>a DEF TypeOK
  <1>2. \A t \in Sessions : HoldsRunnableJob(t)'
    BY <1>a DEF IndInv, HoldsRunnableJob, AttemptsBounded
  <1>3. \A t \in Sessions : OwnsNewJob(t)'
    BY <1>a DEF IndInv, OwnsNewJob, Enqueueing, FreshJob
  <1>4. NothingMadeBefore' /\ AttemptsBounded' /\ ResultsAreReal'
    BY DEF IndInv, NothingMadeBefore, AttemptsBounded, ResultsAreReal
  <1> QED  BY <1>1, <1>2, <1>3, <1>4 DEF IndInv

\* Every step preserves the invariant.
LEMMA IndInvStep == IndInv /\ [Next]_vars => IndInv'
  <1> SUFFICES ASSUME IndInv, [Next]_vars PROVE IndInv'
    OBVIOUS
  <1>a. TypeOK
    BY DEF IndInv
  <1>1. ASSUME NEW s \in Sessions, NEW j \in Jobs, NEW r \in Requesters,
               NEW at \in 0..Horizon, NEW n \in 1..MaxAttempts,
               BeginEnqueue(s, j, r, at, n)
        PROVE  IndInv'
    <2> DEFINE record == [pc |-> "enqueue.counted", job |-> j, requester_id |-> r,
                          scheduled_for |-> at, max_attempts |-> n]
    <2>1. at \in Nat
      BY SchedulerAssumption
    <2>2. record \in SessionState
      BY <2>1 DEF SessionState
    <2>3. /\ sess' = [sess EXCEPT ![s] = record] /\ FreshJob(j)
          /\ UNCHANGED <<job, now, dispatches, made>>
      BY <1>1 DEF BeginEnqueue, Load
    <2> QED  BY <2>2, <2>3, LoadStep
  <1>2. ASSUME NEW s \in Sessions, BeginDispatch(s) PROVE IndInv'
    <2>1. PICK j \in Due :
                 /\ Load(s, [pc |-> "dispatch.loaded", job |-> j, old |-> job[j]])
                 /\ UNCHANGED <<job, now, dispatches, made>>
      BY <1>2 DEF BeginDispatch
    <2> DEFINE record == [pc |-> "dispatch.loaded", job |-> j, old |-> job[j]]
    <2>2. j \in Jobs /\ job[j].state = "queued" /\ job[j] \in JobRow
      BY <1>a DEF Due, TypeOK
    <2>3. record \in SessionState
      BY <2>2 DEF SessionState
    <2>4. sess' = [sess EXCEPT ![s] = record]
      BY <2>1 DEF Load
    <2> QED  BY <2>1, <2>2, <2>3, <2>4, LoadStep
  <1>3. ASSUME NEW s \in Sessions, Abort(s) PROVE IndInv'
    <2>1. Idle \in SessionState /\ Idle.pc = "idle"
      BY DEF SessionState, Idle
    <2> QED  BY <1>3, <2>1, LoadStep DEF Abort, Finish
  <1>4. CASE Tick
    <2>1. TypeOK'
      BY <1>4, <1>a DEF Tick, TypeOK
    <2>2. UNCHANGED <<job, made, sess>>
      BY <1>4 DEF Tick
    <2> QED  BY <2>1, <2>2
             DEF IndInv, HoldsRunnableJob, OwnsNewJob, Enqueueing,
                 NothingMadeBefore, AttemptsBounded, ResultsAreReal
  <1>5. CASE UNCHANGED vars
    BY <1>5 DEF vars, IndInv, TypeOK, HoldsRunnableJob, OwnsNewJob, Enqueueing,
                NothingMadeBefore, AttemptsBounded, ResultsAreReal
  <1> QED  BY <1>1, <1>2, <1>3, <1>4, <1>5, EnqueueStep, DispatchStep DEF Next

-----------------------------------------------------------------------------
(* The quota *)

\* What a requester has pending or in flight is finite, and a part of it has
\* no more elements than the whole.
LEMMA ClaimsAreFinite ==
  ASSUME NEW r
  PROVE  /\ IsFiniteSet(PendingJobs(r)) /\ Cardinality(PendingJobs(r)) \in Nat
         /\ IsFiniteSet(Claimed(r)) /\ Cardinality(Claimed(r)) \in Nat
         /\ Cardinality(PendingJobs(r)) <= Cardinality(Claimed(r))
         /\ IsFiniteSet(Sessions) /\ Cardinality(Sessions) \in Nat
  <1>1. IsFiniteSet(Claimed(r))
    <2>1. Claimed(r) \in SUBSET Jobs
      BY DEF Claimed, PendingJobs
    <2> QED  BY <2>1, SchedulerAssumption, FS_Subset
  <1>2. PendingJobs(r) \in SUBSET Claimed(r)
    BY DEF Claimed
  <1>3. /\ IsFiniteSet(PendingJobs(r))
        /\ Cardinality(PendingJobs(r)) <= Cardinality(Claimed(r))
    BY <1>1, <1>2, FS_Subset
  <1> QED  BY <1>1, <1>3, SchedulerAssumption, FS_CardinalityType

\* The sessions in flight claim a job each, at the most.
LEMMA OneClaimEach ==
  ASSUME NEW H \in SUBSET Sessions, NEW f, DOMAIN f = H
  PROVE  LET T == {f[t] : t \in H}
         IN  IsFiniteSet(T) /\ Cardinality(T) <= Cardinality(Sessions)
  <1> DEFINE T == {f[t] : t \in H}
             g == [t \in H |-> f[t]]
  <1>1. g \in Surjection(H, T)
    BY DEF Surjection
  <1>2. IsFiniteSet(H) /\ Cardinality(H) <= Cardinality(Sessions)
    BY SchedulerAssumption, FS_Subset
  <1>3. IsFiniteSet(T) /\ Cardinality(T) <= Cardinality(H)
    <2> HIDE DEF g, T
    <2> QED  BY <1>1, <1>2, FS_Surjection
  <1>4. /\ Cardinality(T) \in Nat /\ Cardinality(H) \in Nat
        /\ Cardinality(Sessions) \in Nat
    <2> HIDE DEF T
    <2> QED  BY <1>2, <1>3, SchedulerAssumption, FS_CardinalityType
  <1> QED  BY <1>2, <1>3, <1>4

\* A request that passes the quota check claims one job more than what is
\* pending and what the other requests claim.
LEMMA EnqueueClaims ==
  ASSUME IndInv, NEW s \in Sessions, NEW j \in Jobs, NEW r0 \in Requesters,
         NEW at \in 0..Horizon, NEW n \in 1..MaxAttempts,
         BeginEnqueue(s, j, r0, at, n), NEW r \in Requesters
  PROVE  \/ Claimed(r)' \subseteq Claimed(r)
         \/ Cardinality(Claimed(r)') <= MaxPending + Cardinality(Sessions) - 1
  <1>a. /\ TypeOK /\ UNCHANGED job /\ sess[s] = Idle
        /\ sess' = [sess EXCEPT ![s] =
              [pc |-> "enqueue.counted", job |-> j, requester_id |-> r0,
               scheduled_for |-> at, max_attempts |-> n]]
        /\ QuotaLeft(r0)
    BY DEF IndInv, BeginEnqueue, Load
  <1>b. /\ \A t \in Sessions \ {s} : sess'[t] = sess[t]
        /\ sess'[s].pc = "enqueue.counted" /\ sess'[s].requester_id = r0
        /\ sess'[s].job = j
    BY <1>a DEF TypeOK
  <1>1. CASE r # r0
    BY <1>a, <1>b, <1>1 DEF Claimed, PendingJobs, Enqueueing
  <1>2. CASE r = r0
    <2> DEFINE H == {t \in Sessions : sess'[t].pc # "idle"}
               f == [t \in H |-> sess'[t].job]
               T == {f[t] : t \in H}
    <2>1. PendingJobs(r)' = PendingJobs(r)
      BY <1>a DEF PendingJobs
    <2>2. Claimed(r)' \subseteq PendingJobs(r) \cup T
      BY <2>1 DEF Claimed, Enqueueing
    <2>3. IsFiniteSet(T) /\ Cardinality(T) <= Cardinality(Sessions)
      <3>1. H \in SUBSET Sessions /\ DOMAIN f = H
        OBVIOUS
      <3> HIDE DEF H, f
      <3> QED  BY <3>1, OneClaimEach
    <2> HIDE DEF T
    <2>4. /\ IsFiniteSet(PendingJobs(r)) /\ Cardinality(PendingJobs(r)) \in Nat
          /\ Cardinality(Sessions) \in Nat
      BY ClaimsAreFinite
    <2>5. Cardinality(T) \in Nat
      BY <2>3, FS_CardinalityType
    <2>6. /\ IsFiniteSet(PendingJobs(r) \cup T)
          /\ Cardinality(PendingJobs(r) \cup T)
               <= Cardinality(PendingJobs(r)) + Cardinality(T)
      <3>1. /\ IsFiniteSet(PendingJobs(r) \cup T)
            /\ Cardinality(PendingJobs(r) \cup T) = Cardinality(PendingJobs(r))
                 + Cardinality(T) - Cardinality(PendingJobs(r) \cap T)
        BY <2>3, <2>4, FS_Union
      <3>2. Cardinality(PendingJobs(r) \cap T) \in Nat
        <4>1. PendingJobs(r) \cap T \in SUBSET T
          OBVIOUS
        <4>2. IsFiniteSet(PendingJobs(r) \cap T)
          BY <2>3, <4>1, FS_Subset
        <4> QED  BY <4>2, FS_CardinalityType
      <3> QED  BY <2>4, <2>5, <3>1, <3>2
    <2>7. /\ Cardinality(Claimed(r)') <= Cardinality(PendingJobs(r) \cup T)
          /\ Cardinality(Claimed(r)') \in Nat
      <3>1. Claimed(r)' \in SUBSET (PendingJobs(r) \cup T)
        BY <2>2
      <3>2. /\ IsFiniteSet(Claimed(r)')
            /\ Cardinality(Claimed(r)') <= Cardinality(PendingJobs(r) \cup T)
        BY <2>6, <3>1, FS_Subset
      <3> QED  BY <3>2, FS_CardinalityType
    <2>8. Cardinality(PendingJobs(r) \cup T) \in Nat
      BY <2>6, FS_CardinalityType
    <2>9. Cardinality(PendingJobs(r)) < MaxPending
      BY <1>a, <1>2 DEF QuotaLeft
    <2> QED  BY <2>3, <2>4, <2>5, <2>6, <2>7, <2>8, <2>9, SchedulerAssumption
  <1> QED  BY <1>1, <1>2

\* No other step adds to what a requester claims: what it makes pending was
\* claimed by the request in flight.
LEMMA OthersClaimNothing ==
  ASSUME IndInv, NEW r \in Requesters,
         \/ \E s \in Sessions : \/ CommitEnqueue(s) \/ BeginDispatch(s)
                                \/ Dispatched(s) \/ Abort(s)
         \/ Tick \/ UNCHANGED vars
  PROVE  Claimed(r)' \subseteq Claimed(r)
  <1>a. TypeOK
    BY DEF IndInv
  <1>1. ASSUME NEW s \in Sessions, CommitEnqueue(s)
        PROVE  Claimed(r)' \subseteq Claimed(r)
    <2>1. /\ Enqueueing(s) /\ sess[s].job \in Jobs /\ OwnsNewJob(s)
          /\ sess'[s] = Idle /\ \A t \in Sessions \ {s} : sess'[t] = sess[t]
      BY <1>a, <1>1, SessionShape, FinishType DEF CommitEnqueue, Enqueueing, IndInv
    <2>2. /\ \A i \in Jobs \ {sess[s].job} : job'[i] = job[i]
          /\ job'[sess[s].job].requester_id = sess[s].requester_id
      BY <1>a, <1>1, <2>1 DEF CommitEnqueue, TypeOK
    <2>3. \A t \in Sessions :
            sess'[t].pc = "dispatch.loaded" => sess'[t].job # sess[s].job
      BY <2>1 DEF IndInv, HoldsRunnableJob, OwnsNewJob, Idle
    <2> QED  BY <2>1, <2>2, <2>3 DEF Claimed, PendingJobs, Enqueueing, Idle
  <1>2. ASSUME NEW s \in Sessions, BeginDispatch(s)
        PROVE  Claimed(r)' \subseteq Claimed(r)
    <2>1. PICK j \in Due :
                 /\ Load(s, [pc |-> "dispatch.loaded", job |-> j, old |-> job[j]])
                 /\ UNCHANGED job
      BY <1>2 DEF BeginDispatch
    <2>2. /\ \A t \in Sessions \ {s} : sess'[t] = sess[t]
          /\ sess'[s].pc = "dispatch.loaded" /\ sess'[s].job = j
      BY <1>a, <2>1 DEF Load, TypeOK
    <2>3. j \in Jobs /\ job[j].state \in Pending
      BY DEF Due, Pending
    <2> QED  BY <2>1, <2>2, <2>3 DEF Claimed, PendingJobs, Enqueueing
  <1>3. ASSUME NEW s \in Sessions, Dispatched(s)
        PROVE  Claimed(r)' \subseteq Claimed(r)
    <2>1. /\ sess[s].pc = "dispatch.loaded" /\ sess[s].job \in Jobs
          /\ \A i \in Jobs \ {sess[s].job} : job'[i] = job[i]
          /\ job'[sess[s].job].requester_id = job[sess[s].job].requester_id
          /\ Finish(s)
      BY <1>3, DispatchEffect
    <2>2. sess'[s] = Idle /\ \A t \in Sessions \ {s} : sess'[t] = sess[t]
      BY <1>a, <2>1, FinishType
    <2> QED  BY <2>1, <2>2 DEF Claimed, PendingJobs, Enqueueing, Idle
  <1>4. ASSUME NEW s \in Sessions, Abort(s)
        PROVE  Claimed(r)' \subseteq Claimed(r)
    <2>1. sess'[s] = Idle /\ \A t \in Sessions \ {s} : sess'[t] = sess[t]
      BY <1>a, <1>4, FinishType DEF Abort
    <2> QED  BY <1>4, <2>1 DEF Abort, Claimed, PendingJobs, Enqueueing, Idle
  <1>5. CASE Tick \/ UNCHANGED vars
    BY <1>5 DEF Tick, vars, Claimed, PendingJobs, Enqueueing
  <1> QED  BY <1>1, <1>2, <1>3, <1>4, <1>5

\* Every step keeps the claims within the bound.
LEMMA ClaimsStep == IndInv /\ ClaimsBounded /\ [Next]_vars => ClaimsBounded'
  <1> SUFFICES ASSUME IndInv, ClaimsBounded, [Next]_vars, NEW r \in Requesters
               PROVE  Cardinality(Claimed(r)')
                        <= MaxPending + Cardinality(Sessions) - 1
    BY DEF ClaimsBounded
  <1>1. CASE Claimed(r)' \subseteq Claimed(r)
    <2>1. /\ IsFiniteSet(Claimed(r)) /\ Cardinality(Claimed(r)) \in Nat
          /\ Cardinality(Sessions) \in Nat
      BY ClaimsAreFinite
    <2>2. Claimed(r)' \in SUBSET Claimed(r)
      BY <1>1
    <2>3. /\ IsFiniteSet(Claimed(r)')
          /\ Cardinality(Claimed(r)') <= Cardinality(Claimed(r))
      BY <2>1, <2>2, FS_Subset
    <2>4. Cardinality(Claimed(r)') \in Nat
      BY <2>3, FS_CardinalityType
    <2> QED  BY <2>1, <2>3, <2>4, SchedulerAssumption DEF ClaimsBounded
  <1> QED  BY <1>1, EnqueueClaims, OthersClaimNothing DEF Next

-----------------------------------------------------------------------------
(* One request at a time *)

\* A dispatcher that nobody races with judges and counts by the current row.
LEMMA SerialStep ==
  ASSUME Serial, IndInv, SerialInv, [Next]_vars
  PROVE  SerialInv'
  <1>a. TypeOK /\ JobAccounting
    BY DEF IndInv, SerialInv
  <1>1. ASSUME NEW s \in Sessions, NEW j \in Jobs, NEW r \in Requesters,
               NEW at \in 0..Horizon, NEW n \in 1..MaxAttempts,
               BeginEnqueue(s, j, r, at, n)
        PROVE  SerialInv'
    <2>1. /\ UNCHANGED <<job, dispatches, made>>
          /\ sess'[s].pc = "enqueue.counted"
          /\ \A t \in Sessions : t = s
      BY <1>a, <1>1 DEF BeginEnqueue, Load, TypeOK, Serial
    <2> QED  BY <1>a, <2>1 DEF SerialInv, JobAccounting
  <1>2. ASSUME NEW s \in Sessions, CommitEnqueue(s) PROVE SerialInv'
    <2>1. /\ sess[s].job \in Jobs /\ job[sess[s].job].state = "none"
          /\ sess'[s] = Idle /\ \A t \in Sessions : t = s
      BY <1>a, <1>2, SessionShape, FinishType
      DEF CommitEnqueue, IndInv, OwnsNewJob, Enqueueing, Serial
    <2>2. /\ \A i \in Jobs \ {sess[s].job} : job'[i] = job[i]
          /\ job'[sess[s].job].state = "queued"
          /\ job'[sess[s].job].attempt_count = 0
          /\ UNCHANGED <<dispatches, made>>
      BY <1>a, <1>2, <2>1 DEF CommitEnqueue, TypeOK
    <2>3. dispatches[sess[s].job] = 0 /\ made[sess[s].job] = 0
      BY <1>a, <2>1 DEF JobAccounting, SerialInv
    <2> QED  BY <1>a, <2>1, <2>2, <2>3 DEF SerialInv, JobAccounting, Idle
  <1>3. ASSUME NEW s \in Sessions, BeginDispatch(s) PROVE SerialInv'
    <2>1. PICK j \in Due :
                 /\ Load(s, [pc |-> "dispatch.loaded", job |-> j, old |-> job[j]])
                 /\ UNCHANGED <<job, dispatches, made>>
      BY <1>3 DEF BeginDispatch
    <2>2. /\ sess'[s].job = j /\ sess'[s].old = job[j] /\ job[j].state = "queued"
          /\ \A t \in Sessions : t = s
      BY <1>a, <2>1 DEF Load, TypeOK, Due, Serial
    <2> QED  BY <1>a, <2>1, <2>2 DEF SerialInv, JobAccounting
  <1>4. ASSUME NEW s \in Sessions, Dispatched(s) PROVE SerialInv'
    <2> DEFINE j == sess[s].job
    <2>1. /\ sess[s].pc = "dispatch.loaded" /\ j \in Jobs /\ Finish(s)
          /\ sess[s].old = job[j] /\ job[j].state = "queued"
      BY <1>4, DispatchEffect DEF SerialInv
    <2>2. sess'[s] = Idle /\ \A t \in Sessions : t = s
      BY <1>a, <2>1, FinishType DEF Serial
    <2>3. job[j].attempt_count = dispatches[j] /\ made[j] = 0
      BY <1>a, <2>1 DEF JobAccounting
    <2>4. /\ \A i \in Jobs \ {j} : /\ job'[i] = job[i] /\ made'[i] = made[i]
                                  /\ dispatches'[i] = dispatches[i]
          /\ dispatches'[j] = dispatches[j] + 1
          /\ job'[j].attempt_count = Attempt(s)
          /\ job'[j].state \in {"queued", "failed", "succeeded"}
          /\ made'[j] = IF job'[j].state = "succeeded" THEN made[j] + 1 ELSE made[j]
      <3>1. CASE DispatchSucceeds(s)
        BY <1>a, <2>1, <3>1 DEF DispatchSucceeds, TypeOK, JobRow
      <3>2. CASE DispatchFails(s)
        BY <1>a, <2>1, <3>2 DEF DispatchFails, TypeOK, JobRow, StateAfterFailure
      <3> QED  BY <1>4, <3>1, <3>2 DEF Dispatched
    <2>5. Attempt(s) = dispatches[j] + 1
      BY <2>1, <2>3 DEF Attempt
    <2>6. JobAccounting'
      BY <1>a, <2>1, <2>3, <2>4, <2>5 DEF JobAccounting
    <2>7. \A i \in Jobs : job'[i].state = "none" => job'[i].attempt_count = 0
      BY <2>4 DEF SerialInv
    <2> QED  BY <2>2, <2>6, <2>7 DEF SerialInv, Idle
  <1>5. ASSUME NEW s \in Sessions, Abort(s) PROVE SerialInv'
    <2>1. sess'[s] = Idle /\ \A t \in Sessions : t = s
      BY <1>a, <1>5, FinishType DEF Abort, Serial
    <2> QED  BY <1>a, <1>5, <2>1 DEF Abort, SerialInv, JobAccounting, Idle
  <1>6. CASE Tick \/ UNCHANGED vars
    BY <1>6 DEF Tick, vars, SerialInv, JobAccounting
  <1> QED  BY <1>1, <1>2, <1>3, <1>4, <1>5, <1>6 DEF Next

-----------------------------------------------------------------------------

\* IndInv holds in every reachable state, however many dispatchers and clients
\* call SchedulerService at the same time.
THEOREM Inductive == Spec => []IndInv
  BY IndInvInit, IndInvStep, PTL DEF Spec

\* The rows of the queue keep their types.
THEOREM TypeCorrect == Spec => []TypeOK
  <1>1. IndInv => TypeOK
    BY DEF IndInv
  <1> QED  BY <1>1, Inductive, PTL

\* run_next never records more attempts than max_attempts, and gives up
\* exactly when they are used, even when dispatchers overwrite each other.
THEOREM AttemptsStayBounded == Spec => []AttemptsBounded
  <1>1. IndInv => AttemptsBounded
    BY DEF IndInv
  <1> QED  BY <1>1, Inductive, PTL

\* A result column names something that running the job created, and is kept.
THEOREM ResultsStayReal == Spec => []ResultsAreReal
  <1>1. IndInv => ResultsAreReal
    BY DEF IndInv
  <1> QED  BY <1>1, Inductive, PTL

\* However many requests race past the quota check of enqueue, and however many
\* dispatchers put finished jobs back, a requester has no more pending jobs
\* than the quota and the other requests in flight.
THEOREM OvershootIsBounded == Spec => []QuotaOvershootBounded
  <1>1. Init => ClaimsBounded
    <2> SUFFICES ASSUME Init, NEW r \in Requesters
                 PROVE  Cardinality(Claimed(r))
                          <= MaxPending + Cardinality(Sessions) - 1
      BY DEF ClaimsBounded
    <2>1. Claimed(r) = {}
      BY DEF Init, Claimed, PendingJobs, Pending, NoRow, Enqueueing, Idle
    <2>2. Cardinality(Claimed(r)) = 0
      BY <2>1, FS_EmptySet
    <2> QED  BY <2>2, ClaimsAreFinite, SchedulerAssumption
  <1>2. ClaimsBounded => QuotaOvershootBounded
    <2> SUFFICES ASSUME ClaimsBounded, NEW r \in Requesters
                 PROVE  Cardinality(PendingJobs(r))
                          <= MaxPending + Cardinality(Sessions) - 1
      BY DEF QuotaOvershootBounded
    <2> QED  BY ClaimsAreFinite, SchedulerAssumption DEF ClaimsBounded
  <1> QED  BY <1>1, <1>2, ClaimsStep, Inductive, PTL DEF Spec

\* Served one at a time, the queue satisfies SerialInv.
THEOREM SerialInductive == Serial => (Spec => []SerialInv)
  <1> SUFFICES ASSUME Serial PROVE Spec => []SerialInv
    OBVIOUS
  <1>1. Init => SerialInv
    BY DEF Init, NoRow, Idle, SerialInv, JobAccounting
  <1>2. IndInv /\ SerialInv /\ [Next]_vars => SerialInv'
    BY SerialStep
  <1> QED  BY <1>1, <1>2, Inductive, PTL DEF Spec

\* Served one at a time, run_next counts every dispatch and a job makes one lab
\* or run, when it succeeds.
THEOREM SerialAccounting == Serial => (Spec => []JobAccounting)
  <1> SUFFICES ASSUME Serial PROVE Spec => []JobAccounting
    OBVIOUS
  <1>1. SerialInv => JobAccounting
    BY DEF SerialInv
  <1> QED  BY <1>1, SerialInductive, PTL

\* Served one at a time, run_next dispatches no job more often than its
\* max_attempts; racing dispatchers do.
THEOREM SerialDispatchesBounded == Serial => (Spec => []DispatchesBounded)
  <1> SUFFICES ASSUME Serial PROVE Spec => []DispatchesBounded
    OBVIOUS
  <1>1. IndInv /\ SerialInv => DispatchesBounded
    BY DEF IndInv, AttemptsBounded, SerialInv, JobAccounting, DispatchesBounded
  <1> QED  BY <1>1, Inductive, SerialInductive, PTL
=============================================================================
