\* Three HTLCs, one of them for another invoice, failing writes, a wait that
\* fails, and two crashes.
SPECIFICATION Spec
CONSTANTS
    h1 = h1
    h2 = h2
    h3 = h3
    i1 = i1
    i2 = i2
    NoPayment = NoPayment
    Invoice <- Invoices
    InvoiceAmount <- MCInvoiceAmount
    U64Max = 40
    U32Max = 20
    Millionths = 10
    MoneySupply = 16
    RoutingPolicy <- MCRoutingPolicy
    MinFinalCltv = 1
    Htlc <- Three
    Kind <- AllTrampoline
    Amount <- SplitAmount
    Total <- FullTotal
    Expiry <- FarExpiry
    Info <- SplitInfo
    CltvDelta = 2
    PolicyCltvDelta = 4
    SelfRouteHints = {FALSE}
    Faults = {"write", "wait"}
    MaxLifecycles = 4
    MaxCrashes = 2
    MaxHeight = 0
INVARIANTS
    OneTaskPerPayment
    HeldIsTracked
    SendNeverBlocks
    CompleteIsAnnounced
    PaysWhenSufficient
    BackingIsClaimable
    Solvent
    OutgoingIsRecorded
PROPERTIES
    PreimageIsKept
    PaysOnce
    ImplementsEscrow
CHECK_DEADLOCK FALSE
