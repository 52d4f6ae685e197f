----------------------------- MODULE MCPromises -----------------------------
\* The scheduler, what its clients were shown, and the promises to every job and
\* worker, on the small host.
EXTENDS Clients, SchedulerRefinement, SmallHost
=============================================================================
