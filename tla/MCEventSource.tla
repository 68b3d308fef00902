--------------------------- MODULE MCEventSource ---------------------------
\* A small instance of EventSource for TLC.
EXTENDS EventSource

MCUnsendable == {1}
=============================================================================
