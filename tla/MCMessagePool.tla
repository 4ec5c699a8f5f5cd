---------------------------- MODULE MCMessagePool ----------------------------
EXTENDS MFMessagePool, TLC

Symmetric == Permutations(Sender) \cup Permutations(Service)
=============================================================================
