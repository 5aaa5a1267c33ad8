---------------------------- MODULE MCTokenCache ----------------------------
(* Three tasks ask for the tokens of one installation.                      *)
EXTENDS TokenCache, TLC
CONSTANTS t1, t2, t3, i1
MCInstallation == {i1}
MCTask == {t1, t2, t3}
Symmetry == Permutations(MCTask)
=============================================================================
