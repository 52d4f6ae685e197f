------------------------------ MODULE MCWorker ------------------------------
\* One worker whose payload forks up to two further processes.
EXTENDS Worker, TLC
CONSTANTS m1, m2
MCMember == {m1, m2}
=============================================================================
