---------------------------- MODULE MCLocalWrite ----------------------------
EXTENDS LocalWrite, TLC

CONSTANTS a, b, s1, s2

\* Two versions that share a block, at different offsets.
Versions == {<<a>>, <<b, a>>}

SessionSymmetry == Permutations({s1, s2})
=============================================================================
