----------------------------- MODULE MCHotReload -----------------------------
\* Model checking instance of MFHotReload.
EXTENDS MFHotReload, TLC

Symmetry == Permutations(Service) \cup Permutations(ServiceName)
=============================================================================
