\* The node is restarted with another value of the self-route-hint option.
SPECIFICATION Spec
CONSTANTS
    h1 = h1
    h2 = h2
    h3 = h3
    i1 = i1
    i2 = i2
    NoPayment = NoPayment
    Invoice <- Invoices
    InvoiceAmount <- MCInvoiceAmount
    U64Max = 40
    U32Max = 20
    Millionths = 10
    MoneySupply = 16
    RoutingPolicy <- MCRoutingPolicy
    MinFinalCltv = 1
    Htlc <- Last
    Kind <- SelfHintKind
    Amount <- SplitAmount
    Total <- FullTotal
    Expiry <- FarExpiry
    Info <- SplitInfo
    CltvDelta = 2
    PolicyCltvDelta = 4
    SelfRouteHints = {TRUE, FALSE}
    Faults = {}
    MaxLifecycles = 4
    MaxCrashes = 1
    MaxHeight = 0
INVARIANT
    BackingIsClaimable
CHECK_DEADLOCK FALSE
