------------------------------ MODULE FeePolicy ------------------------------
(***************************************************************************)
(* The trampoline routing policy's fee check,                              *)
(* TrampolineRoutingPolicy::fee_sufficient in src/src/messages.rs.  It     *)
(* decides, for the total an HTLC announces and for the amount received so *)
(* far, whether the sender pays the invoice and the trampoline fee.        *)
(*                                                                         *)
(* The arithmetic of the code is 64 bits wide.  U64Max is the largest      *)
(* value of that type: the real one for a proof, a small one for TLC, so   *)
(* that the boundary is reached.                                           *)
(***************************************************************************)
EXTENDS Integers

CONSTANTS U64Max,             \* u64::MAX
          U32Max,             \* u32::MAX
          Millionths,         \* the literal 1_000_000
          MoneySupply         \* all the money there is, in msat

ASSUME FeePolicyAssumption ==
    /\ U64Max \in Nat
    /\ U32Max \in 0..U64Max
    /\ Millionths \in Nat \ {0}
    /\ MoneySupply \in Nat

(* An amount that HTLCs carry is one that somebody has, unlike the amount  *)
(* in an invoice or in an onion, which may be any u64.  Of the 64 bits the *)
(* money takes fewer than 61, 21 million bitcoins being 2.1 * 10^18 msat.  *)
(* The base fee (32 bits) and the rate part (2^64 / 10^6) are far smaller  *)
(* than what is left.                                                      *)
ASSUME MoneyAssumption ==
    MoneySupply + U32Max + U64Max \div Millionths <= U64Max

Msat == 0..U64Max

(* Any policy that the options can set, among them those without a fee.    *)
TrampolineRoutingPolicy ==
    [fee_base_msat : 0..U32Max, fee_proportional_millionths : 0..U32Max]

(* The addition of two u64 in a release build: it wraps.                   *)
WrappingAdd(a, b) == (a + b) % (U64Max + 1)

RatePart(policy, invoice) ==
    (invoice * policy.fee_proportional_millionths) \div Millionths

FeeMsat(policy, invoice) == policy.fee_base_msat + RatePart(policy, invoice)

(* The two checked operations of the code: when either overflows the fee   *)
(* is treated as not sufficient.                                           *)
FeeFits(policy, invoice) ==
    /\ invoice * policy.fee_proportional_millionths \in Msat
    /\ FeeMsat(policy, invoice) \in Msat

FeeSufficient_without_floor(policy, total, invoice) ==
    /\ FeeFits(policy, invoice)
    /\ total >= WrappingAdd(invoice, FeeMsat(policy, invoice))
FeeSufficient(policy, total, invoice) ==
    /\ total >= invoice
    /\ FeeFits(policy, invoice)
    /\ total >= WrappingAdd(invoice, FeeMsat(policy, invoice))

(* What the policy asks for, over the integers.                            *)
FeePaid(policy, total, invoice) == total >= invoice + FeeMsat(policy, invoice)
=============================================================================
