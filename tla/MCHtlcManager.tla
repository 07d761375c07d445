---------------------------- MODULE MCHtlcManager ----------------------------
(***************************************************************************)
(* Values of the constants of HtlcManager for TLC.                         *)
(*                                                                         *)
(* The invoices ask for 3 units and the policy for a fee of 1.  In a Split *)
(* the payment needs both h1, which is enough for the invoice but not for  *)
(* the fee, and h2, and h3 pays 4 units for another invoice with the same  *)
(* payment hash.  In the Full set every HTLC is enough by itself, but h3   *)
(* may announce too small a total.                                         *)
(***************************************************************************)
EXTENDS HtlcManager

CONSTANTS h1, h2, h3, i1, i2

Last == {h3}
Pair == {h1, h2}
Three == {h1, h2, h3}
Invoices == {i1, i2}

MCRoutingPolicy == [fee_base_msat |-> 1, fee_proportional_millionths |-> 2]

MCInvoiceAmount == [i \in Invoice |-> 3]

SplitAmount == [h \in Htlc |-> IF h = h1 THEN 3
                               ELSE IF h = h2 THEN 1 ELSE 4]
SplitInfo   == [h \in Htlc |-> IF h = h3 THEN i2 ELSE i1]
FullAmount  == [h \in Htlc |-> 4]
SameInfo    == [h \in Htlc |-> i1]

(* Every HTLC announces a sufficient total, or h3 announces too little.    *)
FullTotal == [h \in Htlc |-> 4]
LowTotal  == [h \in Htlc |-> IF h = h3 THEN 3 ELSE 4]

(* This node is in the route hint of the invoice of h2 (Mixed) or of h3    *)
(* (SelfHint), or h3 is not for a trampoline payment (Other).              *)
AllTrampoline == [h \in Htlc |-> "trampoline"]
MixedKind == [h \in Htlc |-> IF h = h2 THEN "self_hint" ELSE "trampoline"]
OtherKind == [h \in Htlc |-> IF h = h3 THEN "other" ELSE "trampoline"]
SelfHintKind == [h \in Htlc |-> IF h = h3 THEN "self_hint" ELSE "trampoline"]

(* Expiries far enough away, and expiries at which the policy's delta      *)
(* holds at first and no longer after a block.                             *)
FarExpiry  == [h \in Htlc |-> 20]
NearExpiry == [h \in Htlc |-> IF h = h2 THEN 4 ELSE 7]
=============================================================================
