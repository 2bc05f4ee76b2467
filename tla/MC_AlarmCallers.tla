--------------------------- MODULE MC_AlarmCallers ---------------------------
EXTENDS AlarmCallers

CONSTANTS a, b, reader, poll

MCContents == {a, b}
MCCallers  == {reader, poll}
CallerSymmetry == Permutations(MCCallers)
=============================================================================
