------------------------------ MODULE MCLuaCore ------------------------------
EXTENDS MFLuaCore, TLC

CONSTANTS s1, s2, c1, c2, c3

MCService == {s1, s2}
MCCoroutine == {c1, c2, c3}

\* Coroutines of a machine are alike, and so are services.
Alike == Permutations(MCService) \cup Permutations(MCCoroutine)
=============================================================================
