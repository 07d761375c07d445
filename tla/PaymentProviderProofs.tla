------------------------ MODULE PaymentProviderProofs ------------------------
(***************************************************************************)
(* What HtlcManager may rely on when a call of PayPaymentProvider returns, *)
(* for any number of parts and whichever listings and waits fail.          *)
(***************************************************************************)
EXTENDS PaymentProvider, TLAPS

ProviderTypeOK ==
    /\ parts \in [Part -> PartStatus]
    /\ pc \in ProviderStep
    /\ answered \subseteq Listing
    /\ listed_complete \in BOOLEAN
    /\ list_failed \in BOOLEAN
    /\ waiting \subseteq Part
    /\ result \in Result

(* Once the pending parts are listed, the call waits for every part that   *)
(* is outgoing: the pay command has returned, so there are no new ones.    *)
KnowsPending == "PENDING" \in answered /\ ~list_failed

ProviderInv ==
    /\ ProviderTypeOK
    /\ pc = "pay" => answered = {}
    /\ pc = "wait" => KnowsPending
    /\ pc \in {"list", "wait"} /\ KnowsPending =>
           PartsThatAre("pending") \subseteq waiting
    /\ listed_complete => IsPaid
    /\ pc # "done" => result = "none"
    /\ OutcomeIsDefinite

(* A call begins with nothing returned and nothing known.                  *)
LEMMA ProviderInit == Init => ProviderInv
BY DEF Init, ProviderInv, ProviderTypeOK, PartStatus, ProviderStep, Listing,
       Result, KnowsPending, OutcomeIsDefinite

(* A part that is sent or resolves only ever goes on.                      *)
LEMMA PartsGoOn ==
    ASSUME ProviderInv, NEW p \in Part, SendPart(p) \/ ResolvePart(p)
    PROVE  /\ parts' \in [Part -> PartStatus]
           /\ PartsThatAre("complete") \subseteq PartsThatAre("complete")'
           /\ pc # "pay" =>
                PartsThatAre("pending")' \subseteq PartsThatAre("pending")
<1>1. parts \in [Part -> PartStatus]
  BY DEF ProviderInv, ProviderTypeOK
<1>2. CASE SendPart(p)
  BY <1>1, <1>2 DEF SendPart, PartsThatAre, PartStatus
<1>3. CASE ResolvePart(p)
  BY <1>1, <1>3 DEF ResolvePart, PartsThatAre, PartStatus
<1>4. QED
  BY <1>2, <1>3

(* What lightningd does keeps the invariant.                               *)
LEMMA LightningdKeepsProviderInv ==
    ASSUME ProviderInv, NEW p \in Part, SendPart(p) \/ ResolvePart(p)
    PROVE  ProviderInv'
<1>1. /\ UNCHANGED <<call, pc, answered, listed_complete, list_failed,
                     waiting, result>>
      /\ SendPart(p) => pc = "pay"
  BY DEF SendPart, ResolvePart
<1>2. /\ parts' \in [Part -> PartStatus]
      /\ IsPaid => IsPaid'
      /\ pc # "pay" =>
            PartsThatAre("pending")' \subseteq PartsThatAre("pending")
  BY PartsGoOn DEF IsPaid
<1>3. ProviderTypeOK'
  BY <1>1, <1>2 DEF ProviderInv, ProviderTypeOK
<1>4. OutcomeIsDefinite'
  <2>1. pc = "pay" => result = "none"
    BY DEF ProviderInv
  <2>2. pc # "pay" /\ ~IsOutgoing => ~IsOutgoing'
    BY <1>2 DEF IsOutgoing
  <2>3. QED
    BY <1>1, <1>2, <2>1, <2>2 DEF ProviderInv, OutcomeIsDefinite
<1>5. QED
  BY <1>1, <1>2, <1>3, <1>4 DEF ProviderInv, KnowsPending

(* So do the steps of the call.                                            *)
LEMMA ProviderKeepsProviderInv ==
    ASSUME ProviderInv, Provider
    PROVE  ProviderInv'
<1>1. ProviderTypeOK
  BY DEF ProviderInv
<1>2. UNCHANGED parts
  BY DEF Provider, PayReturns, PayIsUnclear, JoinListings, ListSendpays,
         ListSendpaysFails, WaitSendpay, WaitSendpayFails
<1>3. UNCHANGED <<PartsThatAre("pending"), IsPaid, IsOutgoing>>
  BY <1>2 DEF PartsThatAre, IsPaid, IsOutgoing
<1> USE DEF ProviderStep, Result, Listing, Return, KnowsPending
<1>4. CASE PayReturns
  BY <1>1, <1>2, <1>3, <1>4
     DEF PayReturns, ProviderInv, ProviderTypeOK, OutcomeIsDefinite
<1>5. CASE PayIsUnclear
  BY <1>1, <1>2, <1>3, <1>5
     DEF PayIsUnclear, ProviderInv, ProviderTypeOK, OutcomeIsDefinite
<1>6. CASE JoinListings
  BY <1>1, <1>2, <1>3, <1>6
     DEF JoinListings, ProviderInv, ProviderTypeOK, OutcomeIsDefinite,
         IsOutgoing
<1>7. ASSUME NEW l \in Listing, ListSendpays(l) PROVE ProviderInv'
  <2>1. waiting' \subseteq Part /\ listed_complete' \in BOOLEAN
    BY <1>1, <1>7 DEF ListSendpays, ProviderTypeOK, PartsThatAre, IsPaid
  <2>2. listed_complete' => IsPaid'
    BY <1>3, <1>7 DEF ListSendpays, ProviderInv
  <2>3. KnowsPending' => PartsThatAre("pending")' \subseteq waiting'
    BY <1>3, <1>7 DEF ListSendpays, ProviderInv
  <2>4. QED
    BY <1>1, <1>2, <1>3, <1>7, <2>1, <2>2, <2>3
       DEF ListSendpays, ProviderInv, ProviderTypeOK, OutcomeIsDefinite
<1>8. ASSUME NEW l \in Listing, ListSendpaysFails(l) PROVE ProviderInv'
  BY <1>1, <1>2, <1>3, <1>8
     DEF ListSendpaysFails, ProviderInv, ProviderTypeOK, OutcomeIsDefinite
<1>9. ASSUME NEW p \in Part, WaitSendpay(p) PROVE ProviderInv'
  <2>1. CASE parts[p] = "complete"
    <3>1. IsPaid
      BY <2>1 DEF IsPaid, PartsThatAre
    <3>2. QED
      BY <1>1, <1>2, <1>3, <1>9, <2>1, <3>1
         DEF WaitSendpay, ProviderInv, ProviderTypeOK, OutcomeIsDefinite
  <2>2. CASE parts[p] = "failed"
    <3>1. p \notin PartsThatAre("pending")
      BY <2>2 DEF PartsThatAre
    <3>2. /\ waiting' = waiting \ {p}
          /\ PartsThatAre("pending")' \subseteq waiting'
          /\ UNCHANGED <<answered, listed_complete, list_failed>>
      BY <1>3, <1>9, <2>2, <3>1 DEF WaitSendpay, ProviderInv
    <3>3. CASE waiting' = {}
      <4>1. pc' = "done" /\ result' = "failed" /\ ~IsOutgoing'
        BY <1>9, <2>2, <3>2, <3>3 DEF WaitSendpay, NothingLeft, IsOutgoing
      <4>2. QED
        BY <1>1, <1>2, <1>3, <3>2, <4>1
           DEF ProviderInv, ProviderTypeOK, OutcomeIsDefinite
    <3>4. CASE waiting' # {}
      <4>1. UNCHANGED <<pc, result>>
        BY <1>9, <2>2, <3>2, <3>4 DEF WaitSendpay, NothingLeft
      <4>2. QED
        BY <1>1, <1>2, <1>3, <3>2, <4>1
           DEF ProviderInv, ProviderTypeOK, OutcomeIsDefinite
    <3>5. QED
      BY <3>3, <3>4
  <2>3. QED
    BY <1>9, <2>1, <2>2 DEF WaitSendpay
<1>10. ASSUME NEW p \in Part, WaitSendpayFails(p) PROVE ProviderInv'
  BY <1>1, <1>2, <1>3, <1>10
     DEF WaitSendpayFails, ProviderInv, ProviderTypeOK, OutcomeIsDefinite
<1>11. QED
  BY <1>4, <1>5, <1>6, <1>7, <1>8, <1>9, <1>10 DEF Provider

(* A preimage is returned only for a payment of which a part was paid, and *)
(* a failure only when no part is outgoing anymore.                        *)
THEOREM OutcomesAreDefinite == Spec => []OutcomeIsDefinite
<1>1. ASSUME ProviderInv, [Next]_vars PROVE ProviderInv'
  <2>1. CASE Provider
    BY <1>1, <2>1, ProviderKeepsProviderInv
  <2>2. CASE \E p \in Part : SendPart(p) \/ ResolvePart(p)
    BY <1>1, <2>2, LightningdKeepsProviderInv
  <2>3. CASE UNCHANGED vars
    BY <1>1, <2>3 DEF vars, ProviderInv, ProviderTypeOK, KnowsPending,
        PartsThatAre, IsPaid, IsOutgoing, OutcomeIsDefinite
  <2>4. QED
    BY <1>1, <2>1, <2>2, <2>3 DEF Next
<1>2. ProviderInv => OutcomeIsDefinite
  BY DEF ProviderInv
<1>3. QED
  BY ProviderInit, <1>1, <1>2, PTL DEF Spec
=============================================================================
