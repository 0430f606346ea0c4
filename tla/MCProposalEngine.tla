-------------------------- MODULE MCProposalEngine -------------------------
EXTENDS ProposalEngine, TLC

CONSTANTS p, q
SomePaths == {p, q}
Symmetry == Permutations(SomePaths)
=============================================================================
