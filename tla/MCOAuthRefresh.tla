--------------------------- MODULE MCOAuthRefresh ---------------------------
\* A small instance of OAuthRefresh for TLC.
EXTENDS OAuthRefresh

CONSTANTS t1, t2

MCThreads == {t1, t2}
=============================================================================
