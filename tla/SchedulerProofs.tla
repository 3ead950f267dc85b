--------------------------- MODULE SchedulerProofs ---------------------------
(***************************************************************************)
(* Proofs about Scheduler, for every limit, queue and number of            *)
(* occurrences; and that what is proved of it, and in PagingProofs of      *)
(* Paging, holds of the two together in Fetching.                          *)
(***************************************************************************)
EXTENDS Fetching, TLAPS

\* With the first occurrence the executor starts all runners, and keeps them;
\* so whatever came past the executor has them to wait for.
RunnersStarted ==
  senders + limitModeQueue + running + finished > 0 =>
    limitModeFuncsRunning = limitModeMaxRunningJobs

\* The executor starts no more runners than the limit, and only a runner runs.
\* The counter that RescheduleMode looks at stays zero.
Runners ==
  /\ limitModeFuncsRunning <= limitModeMaxRunningJobs
  /\ running <= limitModeFuncsRunning
  /\ limitModeRunningJobs = 0

IInv == SchedulerTypeOK /\ Runners /\ RunnersStarted /\ NoneLost

\* The program starts with nothing running.
LEMMA InitIInv == InitScheduler => IInv
BY RunnersArePositive, QueueSizeIsPositive, MaxOccurrencesIsNat
   DEF InitScheduler, IInv, SchedulerTypeOK, Runners, RunnersStarted, NoneLost

\* No step of the timer, the executor, a goroutine or a runner breaks it.
LEMMA NextIInv == IInv /\ [NextScheduler]_schedulerVars => IInv'
<1> SUFFICES ASSUME IInv, [NextScheduler]_schedulerVars PROVE IInv'
  OBVIOUS
<1> USE RunnersArePositive, QueueSizeIsPositive, MaxOccurrencesIsNat
    DEF IInv, SchedulerTypeOK, Runners, RunnersStarted, NoneLost
<1>1. CASE runContinuous
  BY <1>1 DEF runContinuous
<1>2. CASE run
  BY <1>2 DEF run
<1>3. CASE enqueue
  BY <1>3 DEF enqueue
<1>4. CASE limitModeRunner
  BY <1>4 DEF limitModeRunner
<1>5. CASE runJob
  BY <1>5 DEF runJob
<1>6. CASE UNCHANGED schedulerVars
  BY <1>6 DEF schedulerVars
<1> QED
  BY <1>1, <1>2, <1>3, <1>4, <1>5, <1>6 DEF NextScheduler

\* Runs of one scheduler exclude each other up to its limit: the executor never
\* has more runners than that, and only they run.
THEOREM SchedulerRunsExclude == SchedulerSpec => []RunsExclude
<1>1. IInv => RunsExclude
  BY RunnersArePositive DEF IInv, SchedulerTypeOK, Runners, RunsExclude
<1> QED
  BY <1>1, InitIInv, NextIInv, PTL DEF SchedulerSpec

\* No occurrence is lost or made twice on its way, nor any skipped at the limit.
THEOREM SchedulerNoneLost == SchedulerSpec => []NoneLost
<1>1. IInv => NoneLost
  BY DEF IInv
<1> QED
  BY <1>1, InitIInv, NextIInv, PTL DEF SchedulerSpec

\* Whatever piles up before a slow run, something is always left that can be
\* done for an occurrence that has not had its run.
THEOREM SchedulerNeverStuck == SchedulerSpec => []NeverStuck
<1>1. IInv => NeverStuck
  <2> SUFFICES ASSUME IInv, occurred > finished, jobFunctions # 1, running = 0
               PROVE  \/ senders > 0 /\ limitModeQueue < QueueSize
                      \/ limitModeQueue > 0 /\ running < limitModeFuncsRunning
    BY DEF IInv, SchedulerTypeOK, NeverStuck
  <2>1. senders + limitModeQueue > 0 /\ senders \in Nat /\ limitModeQueue \in 0..QueueSize
    BY DEF IInv, SchedulerTypeOK, NoneLost
  <2>2. limitModeFuncsRunning > 0
    BY <2>1, RunnersArePositive DEF IInv, SchedulerTypeOK, RunnersStarted
  <2>3. CASE limitModeQueue > 0
    BY <2>2, <2>3
  <2>4. CASE limitModeQueue = 0
    BY <2>1, <2>4, QueueSizeIsPositive
  <2> QED BY <2>1, <2>3, <2>4, QueueSizeIsPositive
<1> QED
  BY <1>1, InitIInv, NextIInv, PTL DEF SchedulerSpec

-----------------------------------------------------------------------------
(* Scheduler and Paging together *)

\* A step of a job that fetches is one of its scheduler or leaves that alone.
THEOREM FetchingIsScheduled == FetchingSpec => SchedulerSpec
<1>1. InitFetching => InitScheduler
  BY DEF InitFetching
<1>2. [NextFetching]_fetchingVars => [NextScheduler]_schedulerVars
  BY DEF NextFetching, Schedule, StartRun, Fetch, EndRun, fetchingVars, NextScheduler
<1> QED
  BY <1>1, <1>2, PTL DEF FetchingSpec, SchedulerSpec

\* Of its loop, likewise: whenever and however often a run is started, the loop
\* is the one of Paging.
THEOREM FetchingIsPaging == FetchingSpec => Spec
<1>1. InitFetching => Init
  BY DEF InitFetching
<1>2. [NextFetching]_fetchingVars => [Next]_vars
  BY DEF NextFetching, Schedule, StartRun, Fetch, EndRun, fetchingVars, Next
<1> QED
  BY <1>1, <1>2, PTL DEF FetchingSpec, Spec
=============================================================================
