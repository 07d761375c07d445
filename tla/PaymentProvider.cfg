\* Three parts, and listings and waits that may fail.
SPECIFICATION FairSpec
CONSTANTS
    p1 = p1
    p2 = p2
    p3 = p3
    Part <- ThreeParts
    Faults = {"rpc"}
INVARIANT
    OutcomeIsDefinite
PROPERTY
    CallReturns
CHECK_DEADLOCK FALSE
