-------------------------------- MODULE MCWal --------------------------------
EXTENDS Wal

Data == <<"data", 1>>

MCPayload == {<<>>, <<Zero, Data>>, <<Data, Data, Data>>}
=============================================================================
