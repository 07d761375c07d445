\* The datastore cannot be read after a restart.
SPECIFICATION Spec
CONSTANTS
    h1 = h1
    h2 = h2
    h3 = h3
    i1 = i1
    i2 = i2
    NoPayment = NoPayment
    Invoice <- Invoices
    InvoiceAmount <- MCInvoiceAmount
    U64Max = 40
    U32Max = 20
    Millionths = 10
    MoneySupply = 16
    RoutingPolicy <- MCRoutingPolicy
    MinFinalCltv = 1
    Htlc <- Pair
    Kind <- AllTrampoline
    Amount <- SplitAmount
    Total <- FullTotal
    Expiry <- FarExpiry
    Info <- SplitInfo
    CltvDelta = 2
    PolicyCltvDelta = 4
    SelfRouteHints = {FALSE}
    Faults = {"fetch"}
    MaxLifecycles = 4
    MaxCrashes = 1
    MaxHeight = 0
INVARIANT
    BackingIsClaimable
CHECK_DEADLOCK FALSE
