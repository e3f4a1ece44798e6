----------------------------- MODULE CdnStreamMC -----------------------------
EXTENDS CdnStream
CONSTANTS p1, p2
=============================================================================
