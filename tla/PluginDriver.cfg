\* Two hook calls, a call without handler, and a channel with room for one.
SPECIFICATION FairSpec
CONSTANTS
    r1 = r1
    r2 = r2
    r3 = r3
    subject = subject
    address = address
    list = list
    U16Max = 2000
    U32Max = 8000
    I64Max = 20000
    Subject = subject
    AddressLists = {list}
    Sent <- MCSent
    Hook <- Calls
    Unhandled <- MCUnhandled
    Needs <- MCNeeds
    Capacity = 1
    MaxHeight = 2
INVARIANTS
    TypeOK
    HeightIsKnown
    OptionsNeverPanic
    ConfigurationIsSound
PROPERTIES
    HeightOnlyRises
    HeightCatchesUp
    HooksAreAnswered
    WaitingMainExits
CHECK_DEADLOCK FALSE
