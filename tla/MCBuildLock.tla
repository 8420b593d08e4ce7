---------------------------- MODULE MCBuildLock ----------------------------
EXTENDS BuildLock
=============================================================================
