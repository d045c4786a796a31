---------------------------- MODULE MCElmJournal ----------------------------
EXTENDS ElmJournal, TLC

Symmetry == Permutations(Loader) \cup Permutations(Module)
=============================================================================
