-------------------------- MODULE MCCommandLifecycle --------------------------
EXTENDS CommandLifecycle, TLC

\* Handlers of one kind are interchangeable.
Symmetry == Permutations(Claimers) \cup Permutations(Patchers) \cup Permutations(Scanners)
=============================================================================
