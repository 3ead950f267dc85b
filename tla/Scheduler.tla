------------------------------ MODULE Scheduler ------------------------------
(***************************************************************************)
(* One of the program's four schedulers (cmd/api/main.go): a job that is   *)
(* to run every so often, SetMaxConcurrentJobs(1, RescheduleMode), started *)
(* by the vendored gocron.  A timer hands each occurrence to the executor, *)
(* which has a goroutine put it in a queue, from which a limited number of *)
(* runners take it.  That a scheduler's runs exclude each other is what    *)
(* Onboarding and NodePlan take for granted of the jobs.  A run takes as   *)
(* long as it takes: its API calls have no time-out (see Fetching).        *)
(***************************************************************************)
EXTENDS Integers

CONSTANTS
  limitModeMaxRunningJobs,   \* 1 in the code
  QueueSize,                 \* 1000 in the code
  MaxOccurrences             \* bound: how often the timer goes off

ASSUME RunnersArePositive == limitModeMaxRunningJobs \in Nat \ {0}
ASSUME QueueSizeIsPositive == QueueSize \in Nat \ {0}
ASSUME MaxOccurrencesIsNat == MaxOccurrences \in Nat

VARIABLES
  occurred,                \* times the timer went off
  jobFunctions,            \* channel to the executor, of capacity 1
  limitModeFuncsRunning,   \* runners started
  senders,                 \* goroutines at the queue's entrance
  limitModeQueue,          \* length of the queue
  limitModeRunningJobs,    \* counted by nobody
  running,                 \* runners with a run under way
  finished                 \* runs

schedulerVars == <<occurred, jobFunctions, limitModeFuncsRunning, senders, limitModeQueue,
                   limitModeRunningJobs, running, finished>>

SchedulerTypeOK ==
  /\ occurred \in 0..MaxOccurrences /\ jobFunctions \in 0..1
  /\ limitModeFuncsRunning \in Nat /\ senders \in Nat
  /\ limitModeQueue \in 0..QueueSize /\ limitModeRunningJobs \in Nat
  /\ running \in Nat /\ finished \in Nat

InitScheduler ==
  /\ occurred = 0 /\ jobFunctions = 0 /\ limitModeFuncsRunning = 0 /\ senders = 0
  /\ limitModeQueue = 0 /\ limitModeRunningJobs = 0 /\ running = 0 /\ finished = 0

-----------------------------------------------------------------------------
(* Faulty variants of operations below, each a bug the code could have; they *)
(* are used only to see that the properties notice.                          *)

\* A runner for every occurrence: the runners are not counted.
runUncounted ==
  /\ jobFunctions = 1 /\ jobFunctions' = 0
  /\ limitModeFuncsRunning' = limitModeFuncsRunning + 1
  /\ senders' = senders + 1
  /\ UNCHANGED <<occurred, limitModeQueue, limitModeRunningJobs, running, finished>>

\* A full queue not waited for.
enqueueOrDrop ==
  /\ senders > 0 /\ senders' = senders - 1
  /\ limitModeQueue' = IF limitModeQueue < QueueSize THEN limitModeQueue + 1 ELSE limitModeQueue
  /\ UNCHANGED <<occurred, jobFunctions, limitModeFuncsRunning, limitModeRunningJobs, running, finished>>

-----------------------------------------------------------------------------
\* The timer goes off and the occurrence is handed over; the timer is set again
\* only when there is room for it.
runContinuous ==
  /\ occurred < MaxOccurrences /\ occurred' = occurred + 1
  /\ jobFunctions = 0 /\ jobFunctions' = 1
  /\ UNCHANGED <<limitModeFuncsRunning, senders, limitModeQueue, limitModeRunningJobs, running, finished>>

\* The executor takes it, starts what runners are missing, and a goroutine.
run ==
  /\ jobFunctions = 1 /\ jobFunctions' = 0
  /\ limitModeFuncsRunning' =
       IF limitModeFuncsRunning < limitModeMaxRunningJobs THEN limitModeMaxRunningJobs
                                                          ELSE limitModeFuncsRunning
  /\ senders' = senders + 1
  /\ UNCHANGED <<occurred, limitModeQueue, limitModeRunningJobs, running, finished>>

\* The goroutine puts it in the queue, when there is room, or, if the counted
\* runs are as many as may be, drops it.
enqueue ==
  /\ senders > 0 /\ senders' = senders - 1
  /\ LET admitted == limitModeRunningJobs < limitModeMaxRunningJobs IN
       /\ admitted => limitModeQueue < QueueSize
       /\ limitModeQueue' = IF admitted THEN limitModeQueue + 1 ELSE limitModeQueue
  /\ UNCHANGED <<occurred, jobFunctions, limitModeFuncsRunning, limitModeRunningJobs, running, finished>>

limitModeRunner ==
  /\ running < limitModeFuncsRunning /\ running' = running + 1
  /\ limitModeQueue > 0 /\ limitModeQueue' = limitModeQueue - 1
  /\ UNCHANGED <<occurred, jobFunctions, limitModeFuncsRunning, senders, limitModeRunningJobs, finished>>

\* The end of a run of the job.
runJob ==
  /\ running > 0 /\ running' = running - 1 /\ finished' = finished + 1
  /\ UNCHANGED <<occurred, jobFunctions, limitModeFuncsRunning, senders, limitModeQueue, limitModeRunningJobs>>

NextScheduler == runContinuous \/ run \/ enqueue \/ limitModeRunner \/ runJob

SchedulerSpec == InitScheduler /\ [][NextScheduler]_schedulerVars

\* Goroutines are scheduled fairly, and a run of the job ends.
FairSchedulerSpec ==
  /\ SchedulerSpec
  /\ WF_schedulerVars(run) /\ WF_schedulerVars(enqueue)
  /\ WF_schedulerVars(limitModeRunner) /\ WF_schedulerVars(runJob)

-----------------------------------------------------------------------------
(* Properties *)

\* Runs of the scheduler's job exclude each other although each occurrence has
\* a goroutine of its own and the executor looks at the runners it has started.
RunsExclude == running <= limitModeMaxRunningJobs

\* No occurrence is lost or made twice on its way through the channel, the
\* goroutine, the queue and the runner, those that come at the limit included:
\* what the code does where SkipsAtLimit says what its comment promises.
NoneLost == occurred = jobFunctions + senders + limitModeQueue + running + finished

\* What executor.go says of RescheduleMode: "if a limit on maximum concurrent
\* jobs is set and the limit is reached, a job will skip it's run and try again
\* on the next occurrence in the schedule".  Nothing is queued at the limit.
SkipsAtLimit ==
  [][running >= limitModeMaxRunningJobs => limitModeQueue' <= limitModeQueue]_schedulerVars

\* Nobody waits on everybody: an occurrence without its run is one that the
\* executor, a goroutine, a runner or a run under way can take a step for, also
\* when the queue is full and all who have something for it wait.
NeverStuck ==
  occurred > finished =>
    \/ jobFunctions = 1
    \/ senders > 0 /\ limitModeQueue < QueueSize
    \/ limitModeQueue > 0 /\ running < limitModeFuncsRunning
    \/ running > 0
=============================================================================
