---------------------------- MODULE MCScheduler ----------------------------
\* Instances of the scheduler for TLC.
EXTENDS Scheduler

CONSTANTS t1, j1, j2, a1, c1

OneTarget == {t1}
TwoJobs == {j1, j2}
OneAdder == {a1}
OneCall == {c1}

=============================================================================
