--------------------------- MODULE MCStressSpsc ---------------------------
EXTENDS StressSpsc

MCValue == 0 .. messages - 1
=============================================================================
