--------------------------- MODULE MCRefresher ---------------------------
EXTENDS Refresher, TLC
CONSTANTS c1, c2, c3, v1, v2, v3
Sym == Permutations(Callers) \cup Permutations({v1, v2})
CallerSym == Permutations(Callers)
==========================================================================
