---------------------------- MODULE MCHtlcPayload ----------------------------
(***************************************************************************)
(* HtlcPayload with bytes of five values: 2, 3 and 4 are markers, and the  *)
(* type of the invoice is written behind one.  HTLCs come with every       *)
(* string of up to MaxBytes bytes and with every metadata of an invoice    *)
(* and an amount, in either order.  The routing policies have a base fee   *)
(* of 3 and the rates 0 and 1, at which the sum of an invoice and its fee  *)
(* can wrap, and 2, at which the multiplication overflows before.          *)
(***************************************************************************)
EXTENDS HtlcPayload

CONSTANT MaxBytes

MCWidths == <<1, 2, 3>>

MCParseInvoice == <<1>> :> 9 @@ <<0>> :> NoAmount

Entries(typ, values) == {[typ |-> typ, value |-> v] : v \in values}
WithInvoice == Entries(TlvTrampolineInvoice, {<<0>>, <<1>>, <<2>>})
WithAmount == Entries(TlvTrampolineAmount, BoundedSeq(Byte, 4))

MCMetadata ==
    BoundedSeq(Byte, MaxBytes)
    \cup {ToBytes(<<e, f>>) : e \in WithInvoice, f \in WithAmount}
    \cup {ToBytes(<<f, e>>) : e \in WithInvoice, f \in WithAmount}

MCPolicies == [fee_base_msat : {3}, fee_proportional_millionths : 0..2]

MCOthers == <<[typ |-> 0, value |-> <<3, 3>>], [typ |-> 7, value |-> <<>>]>>
=============================================================================
