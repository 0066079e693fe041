------------------------- MODULE MCPersistentBroker -------------------------
EXTENDS PersistentBroker
=============================================================================
