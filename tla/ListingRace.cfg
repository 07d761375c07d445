\* Two listings that are answered before and after a part is fulfilled.
SPECIFICATION Spec
CONSTANTS
    p1 = p1
    p2 = p2
    p3 = p3
    Part <- ThreeParts
    Faults = {}
INVARIANT
    FailureMeansUnpaid
CHECK_DEADLOCK FALSE
