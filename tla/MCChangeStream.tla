--------------------------- MODULE MCChangeStream ---------------------------
\* Small instances of ChangeStream for TLC.
EXTENDS ChangeStream

CONSTANTS w1, w2, a, b

MCWalks  == {w1, w2}
MCIds    == {a, b}
MCWalk   == {w1}
MCId     == {a}
=============================================================================
