---------------------------- MODULE MCScheduler ----------------------------
(* The instances of Scheduler that TLC checks: a ONCE job, a skip-ahead and *)
(* a backfilled CRON job, and one whose expression does not parse.          *)
EXTENDS Scheduler, TLC

CONSTANTS once, skip, fill, broken

Times    == once :> 2 @@ skip :> 1 @@ fill :> 1 @@ broken :> 1
Periods  == once :> 1 @@ skip :> 2 @@ fill :> 1 @@ broken :> 1
Caps     == once :> 1 @@ skip :> 1 @@ fill :> 2 @@ broken :> 1

TimesOf(jobs)   == [j \in jobs |-> Times[j]]
PeriodsOf(jobs) == [j \in jobs |-> Periods[j]]
CapsOf(jobs)    == [j \in jobs |-> Caps[j]]

FirstRuns == TimesOf(Jobs)
JobPeriods == PeriodsOf(Jobs)
JobCaps == CapsOf(Jobs)
=============================================================================
