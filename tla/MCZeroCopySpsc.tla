--------------------------- MODULE MCZeroCopySpsc ---------------------------
EXTENDS ZeroCopySpsc
=============================================================================
