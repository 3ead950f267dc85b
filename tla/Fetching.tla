------------------------------ MODULE Fetching ------------------------------
(***************************************************************************)
(* Scheduler and Paging in one process: the runs of a job that fetches a   *)
(* list, such as the grant job's runs.  A run does not end before its loop *)
(* does, and no other begins meanwhile, so what the API answers past the   *)
(* end of a list decides whether the job ever runs again.                  *)
(***************************************************************************)
EXTENDS Paging, Scheduler

fetchingVars == <<vars, schedulerVars>>

InitFetching == Init /\ InitScheduler

-----------------------------------------------------------------------------
\* A run begins, and comes to its loop unless the query before that fails.
StartRun == limitModeRunner /\ (Begin \/ UNCHANGED vars)

\* A run ends, after its loop if it came to it.
EndRun == runJob /\ IF pc = "idle" THEN UNCHANGED vars ELSE Return

Schedule == (runContinuous \/ run \/ enqueue) /\ UNCHANGED vars

Fetch == FetchPage /\ UNCHANGED schedulerVars

NextFetching ==
  \/ Schedule \/ StartRun \/ Fetch \/ EndRun
  \/ Change /\ UNCHANGED schedulerVars

FetchingSpec == InitFetching /\ [][NextFetching]_fetchingVars

\* Goroutines are scheduled fairly and the API answers.
FairFetching ==
  /\ FetchingSpec
  /\ WF_fetchingVars(run /\ UNCHANGED vars) /\ WF_fetchingVars(enqueue /\ UNCHANGED vars)
  /\ WF_fetchingVars(StartRun) /\ WF_fetchingVars(Fetch) /\ WF_fetchingVars(EndRun)

-----------------------------------------------------------------------------
(* Properties *)

\* Whatever piles up behind a run that takes long, every occurrence gets a run
\* of its own, if an empty page has no result.  (The comment in executor.go
\* would have those at the limit skipped: see SkipsAtLimit.)
EveryRunHappens ==
  \A n \in 1..MaxOccurrences : ~emptyLists /\ occurred >= n ~> finished >= n
=============================================================================
