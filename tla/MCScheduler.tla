----------------------------- MODULE MCScheduler -----------------------------
(* Instances of Scheduler for TLC.                                         *)
EXTENDS Scheduler

CONSTANTS p1, p2, w1, w2

\* The first day ends a year, the others are of the next.
MCYearEnd   == [d \in Days |-> IF d = 1 THEN 1 ELSE LastDay]
MCCalendars == {<<1, LastDay>>}
MCBackfill  == {<<"BACKFILL", LastDay>>}
=============================================================================
