----------------------------- MODULE MCTTLCache -----------------------------
\* Model values and symmetry for checking TTLCache.
EXTENDS TTLCache, TLC

CONSTANTS handler1, handler2, handler3, account, zones

ThreadAndKeySymmetry == Permutations(Threads) \cup Permutations(Keys)
============================================================================
