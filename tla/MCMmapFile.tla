---------------------------- MODULE MCMmapFile ----------------------------
EXTENDS MmapFile
=============================================================================
