-------------------------- MODULE MCPaymentProvider --------------------------
(* PaymentProvider with three parts.                                       *)
EXTENDS PaymentProvider

CONSTANTS p1, p2, p3

ThreeParts == {p1, p2, p3}
=============================================================================
