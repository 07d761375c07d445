------------------------------ MODULE HtlcEscrow ------------------------------
(***************************************************************************)
(* What the trampoline plugin promises, seen from the node's channels: it  *)
(* never pays out what it cannot claim.                                    *)
(*                                                                         *)
(* Incoming HTLCs with one payment hash are locked, and end settled (the   *)
(* node has their money) or refunded (the sender has).  The outgoing       *)
(* payment is sent against a set of locked HTLCs, its backing, whose sum   *)
(* covers what it may cost.  As long as it is outgoing or was paid, no     *)
(* HTLC of its backing is refunded; nothing is settled before it was paid; *)
(* and once it was paid it is not sent again.                              *)
(***************************************************************************)
EXTENDS Naturals, TLAPS

CONSTANT Htlc      \* the incoming HTLCs

VARIABLES fate,     \* [Htlc -> Fate]
          inflight, \* whether anything is outgoing
          paid,     \* whether the outgoing payment was paid
          backing   \* the HTLCs it was sent against

escrowVars == <<fate, inflight, paid, backing>>

Fate == {"open", "settled", "refunded"}

EscrowTypeOK ==
    /\ fate \in [Htlc -> Fate]
    /\ inflight \in BOOLEAN
    /\ paid \in BOOLEAN
    /\ backing \in SUBSET Htlc

EscrowInit ==
    /\ fate = [h \in Htlc |-> "open"]
    /\ inflight = FALSE
    /\ paid = FALSE
    /\ backing = {}

(* A part of the outgoing payment is sent: the first one chooses the       *)
(* backing, among the HTLCs that are still open, and the others keep it.   *)
Send(B) ==
    /\ ~paid
    /\ IF inflight THEN B = backing ELSE \A h \in B : fate[h] = "open"
    /\ inflight' = TRUE
    /\ backing' = B
    /\ UNCHANGED <<fate, paid>>

(* A part is fulfilled, and others may remain.                             *)
Fulfil ==
    /\ inflight
    /\ inflight' \in BOOLEAN
    /\ paid' = TRUE
    /\ UNCHANGED <<fate, backing>>

(* All remaining parts fail; if none was fulfilled the backing is free.    *)
GiveUp ==
    /\ inflight
    /\ inflight' = FALSE
    /\ backing' = IF paid THEN backing ELSE {}
    /\ UNCHANGED <<fate, paid>>

Settle(h) ==
    /\ fate[h] = "open"
    /\ paid
    /\ fate' = [fate EXCEPT ![h] = "settled"]
    /\ UNCHANGED <<inflight, paid, backing>>

Refund(h) ==
    /\ fate[h] = "open"
    /\ inflight \/ paid => h \notin backing
    /\ fate' = [fate EXCEPT ![h] = "refunded"]
    /\ UNCHANGED <<inflight, paid, backing>>

EscrowNext ==
    \/ \E B \in SUBSET Htlc : Send(B)
    \/ Fulfil
    \/ GiveUp
    \/ \E h \in Htlc : Settle(h) \/ Refund(h)

EscrowSpec == EscrowInit /\ [][EscrowNext]_escrowVars

-----------------------------------------------------------------------------
(* The promise as an invariant: no HTLC behind a payment that is outgoing  *)
(* or paid was given back, and none was taken without a payment.           *)
NoLoss ==
    /\ inflight \/ paid => \A h \in backing : fate[h] # "refunded"
    /\ \A h \in Htlc : fate[h] = "settled" => paid

(* The escrow keeps the promise: whatever its steps, no HTLC of the        *)
(* backing was given back and none was taken for nothing.                  *)
THEOREM EscrowLosesNothing == EscrowSpec => []NoLoss
<1> DEFINE Inv == EscrowTypeOK /\ NoLoss
<1>1. EscrowInit => Inv
  BY DEF EscrowInit, EscrowTypeOK, NoLoss, Fate
<1>2. Inv /\ [EscrowNext]_escrowVars => Inv'
  <2> SUFFICES ASSUME Inv, [EscrowNext]_escrowVars PROVE Inv'
    OBVIOUS
  <2> USE DEF EscrowTypeOK, NoLoss, Fate
  <2>1. ASSUME NEW B \in SUBSET Htlc, Send(B) PROVE Inv'
    BY <2>1 DEF Send
  <2>2. CASE Fulfil
    BY <2>2 DEF Fulfil
  <2>3. CASE GiveUp
    BY <2>3 DEF GiveUp
  <2>4. ASSUME NEW h \in Htlc, Settle(h) PROVE Inv'
    BY <2>4 DEF Settle
  <2>5. ASSUME NEW h \in Htlc, Refund(h) PROVE Inv'
    BY <2>5 DEF Refund
  <2>6. CASE UNCHANGED escrowVars
    BY <2>6 DEF escrowVars
  <2>7. QED
    BY <2>1, <2>2, <2>3, <2>4, <2>5, <2>6 DEF EscrowNext
<1>3. QED
  BY <1>1, <1>2, PTL DEF EscrowSpec
=============================================================================
