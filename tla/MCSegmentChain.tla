--------------------------- MODULE MCSegmentChain ---------------------------
EXTENDS SegmentChain, TLC

Symmetry == Permutations(Keys)

=============================================================================
