----------------------------- MODULE HtlcPayload -----------------------------
(***************************************************************************)
(* From the payload of an HTLC to the readiness of its payment: how        *)
(* check_htlc in src/src/htlc_manager.rs finds the invoice and its amount  *)
(* in the onion, what default_response makes of the payload of an HTLC     *)
(* that is none of the plugin's business, and the fee check over the       *)
(* amounts that arrive.  HtlcManager starts where this module ends: it     *)
(* knows the kind of an HTLC and the amount of its invoice.                *)
(*                                                                         *)
(* A signed invoice is a value that ParseInvoice knows; that its text is   *)
(* UTF-8, parses and has a valid signature is not taken apart.             *)
(***************************************************************************)
EXTENDS FeePolicy, Tlv

CONSTANTS
    TlvPaymentMetadata,     \* the literal 16
    TlvTrampolineInvoice,   \* the literal 33001
    TlvTrampolineAmount,    \* the literal 33003
    ParseInvoice,           \* [the valid invoices -> their amount or NoAmount]
    NoAmount,               \* the invoice leaves the amount to the payer
    Metadata,               \* the payment metadata HTLCs come with
    Others,                 \* the other entries of their payloads
    Amounts,                \* the amounts HTLCs come with
    Policies                \* the routing policies that may be configured

ASSUME HtlcPayloadAssumption ==
    /\ U64Max = Values[Widths[3]] - 1
    /\ NoAmount \notin Msat
    /\ \A invoice \in DOMAIN ParseInvoice :
           ParseInvoice[invoice] \in Msat \cup {NoAmount}
    /\ Amounts \subseteq Msat \ {0}
    /\ Policies \subseteq TrampolineRoutingPolicy
    /\ Metadata \subseteq Buffer
    /\ Others \in Seq(Entry) /\ Len(Others) = 2
    /\ \A i \in 1..2 : Others[i].typ # TlvPaymentMetadata

Extracted(outcome) == [outcome |-> outcome, amount |-> 0]

(* The amount in the metadata counts only if the invoice has none; if both *)
(* are there they have to agree.  An amount that cannot be read is none.   *)
AmountMsat(ofInvoice, ofTlv) ==
    IF ofInvoice = NoAmount
    THEN IF ofTlv = NoAmount THEN Extracted("invalid")
                             ELSE [outcome |-> "trampoline", amount |-> ofTlv]
    ELSE IF ofTlv \in {NoAmount, ofInvoice}
         THEN [outcome |-> "trampoline", amount |-> ofInvoice]
         ELSE Extracted("invalid")

(* What the entries of the metadata say.                                   *)
InfoInMetadata(entries) ==
    LET blob    == GetEntry(entries, TlvTrampolineInvoice)
        amount  == GetTu64(GetEntry(entries, TlvTrampolineAmount))
    IN  IF ~HasEntry(entries, TlvTrampolineInvoice) THEN Extracted("none")
        ELSE IF blob \notin DOMAIN ParseInvoice THEN Extracted("invalid")
        ELSE AmountMsat(ParseInvoice[blob],
                        IF HasEntry(entries, TlvTrampolineAmount)
                           /\ amount.status = "ok"
                        THEN amount.value ELSE NoAmount)

ExtractTrampolineInfo(payload) ==
    LET metadata == FromBytes(GetEntry(payload, TlvPaymentMetadata))
    IN  IF ~HasEntry(payload, TlvPaymentMetadata) THEN Extracted("none")
        ELSE IF metadata.status = "panic" THEN Extracted("panic")
        ELSE IF metadata.status = "err" THEN Extracted("none")
        ELSE InfoInMetadata(metadata.entries)

(* default_response reads the metadata as a stream with a length in front, *)
(* unlike extract_trampoline_info.                                         *)
Continue(payload) == [outcome |-> "continue", payload |-> payload]
Unmodified == "unmodified"

DefaultResponse(payload) ==
    LET metadata == TryFrom(GetEntry(payload, TlvPaymentMetadata))
    IN  IF ~HasEntry(payload, TlvPaymentMetadata) THEN Continue(Unmodified)
        ELSE IF metadata.status = "panic" THEN [outcome |-> "panic"]
        ELSE IF /\ metadata.status = "ok"
                /\ \/ HasEntry(metadata.entries, TlvTrampolineInvoice)
                   \/ HasEntry(metadata.entries, TlvTrampolineAmount)
        THEN Continue(ToBytes(RemoveEntry(payload, TlvPaymentMetadata)))
        ELSE Continue(Unmodified)

(* The length in front of a serialised stream, as lightningd writes it.    *)
Prefixed(bytes) == PutCompactSize(Len(bytes)) \o bytes

-----------------------------------------------------------------------------
VARIABLES
    metadata,   \* of the HTLC that is being handled
    stage,      \* what became of it
    policy,     \* params.routing_policy, as the plugin was started
    invoice,    \* amount_msat of the payment, once there is one
    received    \* amount_received_msat of the payment

vars == <<metadata, stage, policy, invoice, received>>

(* The metadata lies between the other entries of the payload.             *)
Payload == <<Others[1], [typ |-> TlvPaymentMetadata, value |-> metadata],
             Others[2]>>

Init ==
    /\ metadata \in Metadata
    /\ stage = "arrived"
    /\ policy \in Policies
    /\ invoice = 0
    /\ received = 0

(* The HTLC is for a trampoline payment: its amount is a u64.              *)
StartPayment ==
    /\ stage = "arrived"
    /\ LET info == ExtractTrampolineInfo(Payload)
       IN  /\ info.outcome = "trampoline"
           /\ info.amount \in Msat
           /\ invoice' = info.amount
    /\ stage' = "trampoline"
    /\ metadata' = <<>>
    /\ UNCHANGED <<policy, received>>

(* With a short channel id in its onion the HTLC is a forward, whatever its *)
(* payload says.                                                           *)
ContinueForward ==
    /\ stage = "arrived"
    /\ stage' = DefaultResponse(Payload).outcome
    /\ UNCHANGED <<metadata, policy, invoice, received>>

(* It is continued.  A read beyond the end is a panic in its task: the     *)
(* call stays without a response.                                          *)
ContinueHtlc ==
    /\ stage = "arrived"
    /\ ExtractTrampolineInfo(Payload).outcome \in {"none", "invalid"}
    /\ stage' = DefaultResponse(Payload).outcome
    /\ UNCHANGED <<metadata, policy, invoice, received>>

Panic ==
    /\ stage = "arrived"
    /\ ExtractTrampolineInfo(Payload).outcome = "panic"
    /\ stage' = "panic"
    /\ UNCHANGED <<metadata, policy, invoice, received>>

(* add_htlc of this HTLC and of those that follow.  The addition of the    *)
(* code is unchecked and wraps.  That HTLCs are not worth more than all    *)
(* the money there is is no check of the code but what the network allows: *)
(* an HTLC is a part of a channel's balance.                               *)
IsFunded(amount) == received + amount <= MoneySupply

Receive(amount) ==
    /\ stage = "trampoline"
    /\ IsFunded(amount)
    /\ received' = WrappingAdd(received, amount)
    /\ UNCHANGED <<metadata, stage, policy, invoice>>

Next ==
    \/ StartPayment
    \/ ContinueForward
    \/ ContinueHtlc
    \/ Panic
    \/ \E amount \in Amounts : Receive(amount)

Spec == Init /\ [][Next]_vars

-----------------------------------------------------------------------------
(* Properties                                                              *)

(* A stream that was read and is written again, as default_response does   *)
(* with the payload, says the same to whoever reads it next, also if it    *)
(* was not written in the shortest form or had a byte left over.           *)
RewrittenSaysTheSame ==
    LET stream == FromBytes(metadata)
    IN  stream.status = "ok" => FromBytes(ToBytes(stream.entries)) = stream

(* A stream that is cut short anywhere is refused, or loses entries at its *)
(* end: no entry is ever read with another value than the one written.     *)
CutStreamIsPrefix ==
    LET stream == FromBytes(metadata)
    IN  stream.status = "ok" =>
            \A k \in 0..Len(metadata) :
                LET cut == FromBytes(SubSeq(metadata, 1, k))
                IN  cut.status = "ok" => IsPrefix(cut.entries, stream.entries)

(* The length in front of a payload is skipped whole, however wide it is,  *)
(* and what follows is read as it would be without it.                     *)
PrefixIsSkipped == TryFrom(Prefixed(metadata)) = FromBytes(metadata)

(* Whatever the metadata is taken for, the payload that an HTLC is         *)
(* continued with has the other entries, in order and unchanged.           *)
OnlyMetadataIsDropped ==
    LET response == DefaultResponse(Payload)
    IN  response.outcome = "continue" =>
            \/ response.payload = Unmodified
            \/ FromBytes(response.payload) = Stream(Others)

(* The amount of a trampoline payment is one that 64 bits hold, whatever   *)
(* the length of the entry that carries it.                                *)
AmountFits ==
    LET info == ExtractTrampolineInfo(Payload)
    IN  info.outcome = "trampoline" => info.amount \in Msat

(* The check passes exactly when the sender pays the invoice and the fee,  *)
(* wherever the fee can be computed without overflow, for every rate and   *)
(* every amount that an invoice may ask for.  The last addition of the     *)
(* code wraps for an invoice close to 2^64, at rates that are so low that  *)
(* the checked multiplication does not refuse it before; but that much     *)
(* nobody has, and the first comparison refuses what falls short of it.    *)
SufficientIsPaid ==
    FeeSufficient(policy, received, invoice) <=>
        FeeFits(policy, invoice) /\ FeePaid(policy, received, invoice)
=============================================================================
