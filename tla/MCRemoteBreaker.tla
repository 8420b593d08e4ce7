-------------------------- MODULE MCRemoteBreaker --------------------------
EXTENDS RemoteBreaker
=============================================================================
