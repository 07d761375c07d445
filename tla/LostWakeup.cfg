\* lightningd goes away before main waits in join.
SPECIFICATION FairSpec
CONSTANTS
    r1 = r1
    r2 = r2
    r3 = r3
    subject = subject
    address = address
    list = list
    U16Max = 2000
    U32Max = 8000
    I64Max = 20000
    Subject = subject
    AddressLists = {list}
    Sent <- MCSent
    Hook <- Calls
    Unhandled <- MCUnhandled
    Needs <- MCNeeds
    Capacity = 1
    MaxHeight = 1
PROPERTY
    EndOfLoopEndsMain
CHECK_DEADLOCK FALSE
