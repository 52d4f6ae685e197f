----------------------------- MODULE MCScheduler ----------------------------
\* The scheduler alone on the small host.
EXTENDS Scheduler, SmallHost
=============================================================================
