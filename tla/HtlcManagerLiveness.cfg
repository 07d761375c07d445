\* Liveness: two trampoline HTLCs and one that is answered at once, failing
\* writes, one crash, and as many lifecycles as two HTLCs offered twice need.
SPECIFICATION FairSpec
CONSTANTS
    h1 = h1
    h2 = h2
    h3 = h3
    i1 = i1
    i2 = i2
    NoPayment = NoPayment
    Invoice <- Invoices
    InvoiceAmount <- MCInvoiceAmount
    U64Max = 40
    U32Max = 20
    Millionths = 10
    MoneySupply = 16
    RoutingPolicy <- MCRoutingPolicy
    MinFinalCltv = 1
    Htlc <- Three
    Kind <- OtherKind
    Amount <- SplitAmount
    Total <- FullTotal
    Expiry <- FarExpiry
    Info <- SplitInfo
    CltvDelta = 2
    PolicyCltvDelta = 4
    SelfRouteHints = {FALSE}
    Faults = {"write"}
    MaxLifecycles = 4
    MaxCrashes = 1
    MaxHeight = 0
PROPERTIES
    EveryHtlcIsAnswered
    PaidIsClaimed
CHECK_DEADLOCK FALSE
