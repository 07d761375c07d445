\* Every call may fail, not every HTLC announces enough, one gets too close to
\* its expiry, and the block watcher is late: the bookkeeping of the map of
\* payments and of the expiries holds up.
SPECIFICATION Spec
CONSTANTS
    h1 = h1
    h2 = h2
    h3 = h3
    i1 = i1
    i2 = i2
    NoPayment = NoPayment
    Invoice <- Invoices
    InvoiceAmount <- MCInvoiceAmount
    U64Max = 40
    U32Max = 20
    Millionths = 10
    MoneySupply = 16
    RoutingPolicy <- MCRoutingPolicy
    MinFinalCltv = 1
    Htlc <- Three
    Kind <- MixedKind
    Amount <- FullAmount
    Total <- LowTotal
    Expiry <- NearExpiry
    Info <- SameInfo
    CltvDelta = 3
    PolicyCltvDelta = 4
    SelfRouteHints = {TRUE}
    Faults = {"fetch", "write", "wait", "pay"}
    MaxLifecycles = 2
    MaxCrashes = 1
    MaxHeight = 2
INVARIANTS
    OneTaskPerPayment
    HeldIsTracked
    SendNeverBlocks
    TypeOK
    GapShrinksOnlyByLag
CHECK_DEADLOCK FALSE
