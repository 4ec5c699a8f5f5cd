----------------------------- MODULE MCRedisPool -----------------------------
EXTENDS MFRedisPool, TLC
=============================================================================
