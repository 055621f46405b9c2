----------------------------- MODULE MCSweepJob -----------------------------
EXTENDS SweepJob
CONSTANTS a, b, c, d, e, mine, other
=============================================================================
