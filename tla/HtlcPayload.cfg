\* Bytes of five values and integers of 1, 2 and 3 bytes, so that a u64 has
\* 125 values.  Nobody has more than 109 units, which is as much as the type
\* allows.  Invoices may ask for up to 124: at a rate of 2 the multiplication
\* overflows above 62, at rates 0 and 1 the last addition wraps above 121 and
\* 110.
SPECIFICATION Spec
CONSTANTS
    U64Max = 124
    Millionths = 10
    U32Max = 3
    MoneySupply = 109
    Policies <- MCPolicies
    Base = 5
    Widths <- MCWidths
    TlvPaymentMetadata = 1
    TlvTrampolineInvoice = 2
    TlvTrampolineAmount = 3
    ParseInvoice <- MCParseInvoice
    NoAmount = 1000
    Metadata <- MCMetadata
    Others <- MCOthers
    MaxBytes = 5
    Amounts = {1, 7, 60}
INVARIANTS
    RewrittenSaysTheSame
    CutStreamIsPrefix
    PrefixIsSkipped
    OnlyMetadataIsDropped
    AmountFits
    SufficientIsPaid
CHECK_DEADLOCK FALSE
