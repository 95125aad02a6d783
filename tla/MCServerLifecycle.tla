------------------------- MODULE MCServerLifecycle -------------------------
EXTENDS ServerLifecycle

CONSTANTS r1, r2, k1, k2
=============================================================================
