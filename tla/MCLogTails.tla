----------------------------- MODULE MCLogTails -----------------------------
EXTENDS LogTails
OneTarget == {"core-server"}
=============================================================================
