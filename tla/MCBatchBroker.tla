--------------------------- MODULE MCBatchBroker ---------------------------
EXTENDS BatchBroker

CONSTANTS a, b

MCBatch == {<<>>, <<b, b, a>>}
=============================================================================
