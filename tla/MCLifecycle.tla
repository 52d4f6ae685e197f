----------------------------- MODULE MCLifecycle -----------------------------
\* A few daemons, one after another or at once, and their administrators.
EXTENDS Lifecycle, TLC
CONSTANTS p1, p2, a1, a2
MCProcess == {p1, p2}
MCAdmin == {a1, a2}
MCAlone == {a1}
=============================================================================
