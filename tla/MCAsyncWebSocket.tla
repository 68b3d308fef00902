-------------------------- MODULE MCAsyncWebSocket --------------------------
\* A small instance of AsyncWebSocket for TLC.
EXTENDS AsyncWebSocket, TLC

CONSTANTS a, b
MCTasks == {a, b}
Symmetric == Permutations(MCTasks)
=============================================================================
