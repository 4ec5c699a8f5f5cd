----------------------------- MODULE MCSnowflake -----------------------------
EXTENDS MFSnowflake, TLC

Threads == Permutations(Thread)

\* The epoch of the instance lies after the clock's first value, so that the
\* difference to it is negative at first and wraps in its field.
EpochValue == 1
=============================================================================
