--------------------------- MODULE MCLockProtocol ---------------------------
EXTENDS LockProtocol, TLC
Symmetry == Permutations(Staff) \cup Permutations(Calls) \cup Permutations(Syncs)
              \cup Permutations(Tokens)
=============================================================================
