--------------------------- MODULE MCConfigLoader ---------------------------
(***************************************************************************)
(* ConfigLoader for TLC: two providers, the one of higher priority with a  *)
(* cache, as a file below Vault (README, priorities 20 and 30).            *)
(***************************************************************************)
EXTENDS ConfigLoader, TLC

CONSTANTS t1, t2, t3, c1, c2

TwoThreads == {t1, t2}
ThreeThreads == {t1, t2, t3}
VaultOnly == {2}
Symmetry == Permutations(Threads) \union Permutations(Callbacks)
=============================================================================
