-------------------------- MODULE MCEngineSession --------------------------
EXTENDS EngineSession
=============================================================================
