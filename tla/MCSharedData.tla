---------------------------- MODULE MCSharedData ----------------------------
EXTENDS MFSharedData, TLC

Symmetric ==
  Permutations(Name) \cup Permutations(Vm) \cup Permutations(Matrix)
    \cup Permutations(Key) \cup Permutations(Buffer)
=============================================================================
