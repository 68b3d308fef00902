\* Two requests over two sockets; or two subscriptions under two keys, and a table
\* of two codes that others may fill.
SPECIFICATION Spec
CONSTANTS
    MaxRequests = 2
    MaxChanges = 2
    MaxWire = 2
    MaxSockets = 2
    Closes = {1000, 1008, 1006}
    MaxPending = 2
    Strangers = {11}
    MaxCreates = 2
    MaxKeys = 2
INVARIANTS
    SocketIsRead
    SubscriptionsAreKept
CHECK_DEADLOCK FALSE
