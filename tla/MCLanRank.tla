------------------------------ MODULE MCLanRank ------------------------------
EXTENDS LanRank, TLC

EpSymmetry == Permutations(Ep)

=============================================================================
