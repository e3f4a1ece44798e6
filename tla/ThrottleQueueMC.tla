--------------------------- MODULE ThrottleQueueMC ---------------------------
EXTENDS ThrottleQueue
CONSTANTS r1, r2, r3
=============================================================================
