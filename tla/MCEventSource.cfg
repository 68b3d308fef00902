\* Two changes, the first with an id that cannot be sent back; two faults.
SPECIFICATION FairSpec
CONSTANTS
    MaxChanges = 2
    MaxFaults = 2
    MaxWire = 14
    MaxChatter = 1
    Unsendable <- MCUnsendable
INVARIANTS
    
    EventsArriveWhole
    BackoffFits

    
CHECK_DEADLOCK FALSE
