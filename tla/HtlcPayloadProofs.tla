-------------------------- MODULE HtlcPayloadProofs --------------------------
(***************************************************************************)
(* Proofs about HtlcPayload for every number of values of a byte, every    *)
(* width of the integers, every stream and every amount: the fee check     *)
(* first, then what is written as a stream and read again.                 *)
(*                                                                         *)
(* The loops of the model are recursive functions.  That such a function   *)
(* exists is LoopExists, and a fact about all its turns is TurnInduction:  *)
(* both have a set for the property and need no induction schema.          *)
(***************************************************************************)
EXTENDS HtlcPayload, SequenceTheorems, WellFoundedInduction, TLAPS

-----------------------------------------------------------------------------
(* The fee check.                                                          *)

LEMMA Widths64 ==
    /\ U64Max \in Nat /\ U32Max \in Nat /\ MoneySupply \in Nat
    /\ Millionths \in Nat \ {0} /\ U64Max \div Millionths \in Nat
    /\ MoneySupply <= U64Max
<1>1. /\ U64Max \in Nat /\ U32Max \in Nat /\ MoneySupply \in Nat
      /\ Millionths \in Nat \ {0}
  BY FeePolicyAssumption
<1>2. U64Max \div Millionths \in Nat
  BY <1>1
<1>3. QED
  BY <1>1, <1>2, MoneyAssumption

(* MoneyAssumption is one about the code and the currency: the widths of   *)
(* the types, the literal of the code and 21 million bitcoins meet it.     *)
LEMMA RealMoney ==
    ASSUME NEW u64Max, u64Max = 18446744073709551615,
           NEW u32Max, u32Max = 4294967295,
           NEW millionths, millionths = 1000000,
           NEW moneySupply, moneySupply = 2100000000000000000
    PROVE  moneySupply + u32Max + u64Max \div millionths <= u64Max
OBVIOUS

(* The last addition of fee_sufficient is not checked.  When the two       *)
(* checked operations did not overflow, and the invoice asks for no more   *)
(* than somebody has, it does not wrap, at any rate and base fee.          *)
LEMMA FeeAdditionFits ==
    ASSUME NEW p \in TrampolineRoutingPolicy, NEW amount \in Nat,
           amount <= MoneySupply, FeeFits(p, amount)
    PROVE  WrappingAdd(amount, FeeMsat(p, amount)) = amount + FeeMsat(p, amount)
<1> DEFINE product == amount * p.fee_proportional_millionths
           rate == product \div Millionths
           fee == FeeMsat(p, amount)
<1>1. product \in Nat /\ product <= U64Max
  <2>1. product \in 0..U64Max
    BY DEF FeeFits, Msat
  <2> HIDE DEF product
  <2>2. QED
    BY Widths64, <2>1
<1>2. rate <= U64Max \div Millionths /\ rate \in Nat
  <2> HIDE DEF product
  <2>1. QED
    BY Widths64, <1>1
<1>3. fee = p.fee_base_msat + rate
  BY DEF FeeMsat, RatePart
<1>4. p.fee_base_msat \in 0..U32Max
  BY DEF TrampolineRoutingPolicy
<1> HIDE DEF product, rate, fee
<1>5. amount + fee \in 0..U64Max
  BY Widths64, MoneyAssumption, <1>2, <1>3, <1>4
<1>6. QED
  BY Widths64, <1>5 DEF WrappingAdd, fee

(* What was received is money that somebody has, and adding it up has not  *)
(* wrapped.                                                                *)
FeeInv ==
    /\ policy \in TrampolineRoutingPolicy
    /\ invoice \in Msat
    /\ received \in 0..MoneySupply

LEMMA FeeInvariant == Spec => []FeeInv
<1>1. Init => FeeInv
  BY Widths64, HtlcPayloadAssumption DEF Init, Msat, FeeInv
<1>2. ASSUME FeeInv, [Next]_vars PROVE FeeInv'
  <2>1. CASE StartPayment
    BY <1>2, <2>1 DEF StartPayment, FeeInv
  <2>2. CASE ContinueForward \/ ContinueHtlc \/ Panic \/ UNCHANGED vars
    BY <1>2, <2>2 DEF ContinueForward, ContinueHtlc, Panic, vars, FeeInv
  <2>3. ASSUME NEW amount \in Amounts, Receive(amount) PROVE FeeInv'
    <3>1. amount \in Nat
      BY HtlcPayloadAssumption, Widths64 DEF Msat
    <3>2. received + amount \in 0..MoneySupply
      BY <1>2, <2>3, <3>1, Widths64 DEF Receive, IsFunded, FeeInv
    <3>3. received' = received + amount
      BY <2>3, <3>2, Widths64 DEF Receive, WrappingAdd
    <3>4. QED
      BY <1>2, <2>3, <3>2, <3>3 DEF Receive, FeeInv
  <2>4. QED
    BY <1>2, <2>1, <2>2, <2>3 DEF Next
<1>3. FeeInv /\ [Next]_vars => FeeInv'
  BY <1>2
<1>4. QED
  BY <1>1, <1>3, PTL DEF Spec

(* For every policy the options allow, every invoice of 64 bits and every  *)
(* amount that may be received, fee_sufficient says yes exactly when the   *)
(* sender pays the invoice and the fee, and the fee fits 64 bits.          *)
THEOREM FeeCheckIsExact == Spec => []SufficientIsPaid
<1>1. ASSUME FeeInv PROVE SufficientIsPaid
  <2> DEFINE fee == FeeMsat(policy, invoice)
  <2>1. invoice \in Nat /\ received \in Nat /\ received <= MoneySupply
        /\ policy \in TrampolineRoutingPolicy
    BY <1>1, Widths64 DEF FeeInv, Msat
  <2>2. FeeFits(policy, invoice) => fee \in Nat
    BY Widths64 DEF FeeFits, Msat
  <2>3. /\ FeeFits(policy, invoice)
        /\ invoice <= MoneySupply
        => WrappingAdd(invoice, fee) = invoice + fee
    BY <2>1, FeeAdditionFits
  <2>4. FeeSufficient(policy, received, invoice) <=>
            /\ received >= invoice
            /\ FeeFits(policy, invoice)
            /\ received >= WrappingAdd(invoice, fee)
    BY DEF FeeSufficient
  <2>5. FeePaid(policy, received, invoice) <=> received >= invoice + fee
    BY DEF FeePaid
  <2> HIDE DEF fee
  <2>6. /\ received >= invoice => invoice <= MoneySupply
        /\ FeeFits(policy, invoice) /\ received >= invoice + fee =>
              received >= invoice
    BY <2>1, <2>2, Widths64
  <2>7. QED
    BY <2>3, <2>4, <2>5, <2>6 DEF SufficientIsPaid
<1>2. FeeInv => SufficientIsPaid
  BY <1>1
<1>3. QED
  BY <1>2, FeeInvariant, PTL

-----------------------------------------------------------------------------
(* Loops.                                                                  *)

(* Induction over the turns of a loop, with a set for the property.        *)
LEMMA TurnInduction ==
    ASSUME NEW n \in Nat, NEW T, 0 \in T,
           \A i \in 1..n : i - 1 \in T => i \in T
    PROVE  \A i \in 0..n : i \in T
<1> DEFINE Bad == {i \in 0..n : i \notin T}
           R == OpToRel(<, Nat)
<1>1. SUFFICES ASSUME Bad # {} PROVE FALSE
  OBVIOUS
<1>2. PICK i \in Bad : \A j \in Bad : ~(<<j, i>> \in R)
  <2>1. IsWellFoundedOn(R, Nat)
    BY NatLessThanWellFounded
  <2>2. Bad \subseteq Nat
    OBVIOUS
  <2> HIDE DEF Bad, R
  <2>3. QED
    BY <1>1, <2>1, <2>2, WFMin
<1>3. i \in 1..n
  OBVIOUS
<1>4. i - 1 \in Nat /\ i - 1 < i /\ i - 1 \in 0..n
  BY <1>3
<1>5. i - 1 \notin Bad
  <2>1. <<i - 1, i>> \in R
    BY <1>3, <1>4 DEF OpToRel
  <2>2. QED
    BY <1>2, <2>1
<1>6. QED
  BY <1>3, <1>4, <1>5

(* A loop of so many turns has a result: its recursive function exists.    *)
IsStep(step, n, D) == step \in [(1..n) \X D -> D]
IsLoop(f, n, D, first, step) ==
    /\ f \in [0..n -> D]
    /\ f[0] = first
    /\ \A i \in 1..n : f[i] = step[<<i, f[i - 1]>>]

LEMMA LoopExists ==
    ASSUME NEW n \in Nat, NEW D, NEW first \in D, NEW step,
           IsStep(step, n, D)
    PROVE  \E f : IsLoop(f, n, D, first, step)
<1> step \in [(1..n) \X D -> D]
  BY DEF IsStep
<1> DEFINE Loop(f, k) ==
               f[0] = first /\ \A i \in 1..k : f[i] = step[<<i, f[i - 1]>>]
           T == {k \in 0..n : \E f \in [0..k -> D] : Loop(f, k)}
<1>1. 0 \in T
  <2> DEFINE g == [i \in 0..0 |-> first]
  <2>1. g \in [0..0 -> D] /\ Loop(g, 0)
    OBVIOUS
  <2> HIDE DEF g
  <2>2. QED
    BY <2>1
<1>2. ASSUME NEW k \in 1..n, k - 1 \in T
      PROVE  k \in T
  <2>1. PICK f \in [0..(k - 1) -> D] : Loop(f, k - 1)
    BY <1>2
  <2> DEFINE g == [i \in 0..k |-> IF i = k THEN step[<<k, f[k - 1]>>]
                                     ELSE f[i]]
  <2>2. step[<<k, f[k - 1]>>] \in D
    OBVIOUS
  <2>3. g \in [0..k -> D]
    BY <2>2
  <2>4. g[0] = first
    BY <2>1
  <2>5. ASSUME NEW i \in 1..k PROVE g[i] = step[<<i, g[i - 1]>>]
    <3>1. CASE i = k
      <4>1. g[k] = step[<<k, f[k - 1]>>] /\ g[k - 1] = f[k - 1]
        OBVIOUS
      <4> HIDE DEF g
      <4>2. QED
        BY <3>1, <4>1
    <3>2. CASE i # k
      <4>1. i \in 1..(k - 1) /\ i - 1 # k /\ i - 1 \in 0..k
        BY <3>2
      <4>2. g[i] = f[i] /\ g[i - 1] = f[i - 1]
        BY <3>2, <4>1
      <4> HIDE DEF g
      <4>3. QED
        BY <2>1, <4>1, <4>2
    <3>3. QED
      BY <3>1, <3>2
  <2> HIDE DEF g
  <2>6. QED
    BY <2>3, <2>4, <2>5
<1> HIDE DEF T
<1>3. \A k \in 0..n : k \in T
  BY <1>1, <1>2, TurnInduction
<1>4. n \in T
  BY <1>3
<1>5. QED
  BY <1>4 DEF T, IsLoop
-----------------------------------------------------------------------------
(* Numbers of bytes.                                                       *)

(* The widths and the base are numbers, in order.                          *)
LEMMA WidthsType ==
    /\ Widths[1] \in Nat /\ Widths[2] \in Nat /\ Widths[3] \in Nat
    /\ 0 < Widths[1] /\ Widths[1] < Widths[2] /\ Widths[2] < Widths[3]
    /\ Base \in Nat /\ Base > 3
BY TlvAssumption

(* What the recursive function Values computes.                            *)
LEMMA ValuesDef ==
    /\ Values[0] = 1
    /\ \A w \in 1..Widths[3] : Values[w] = Base * Values[w - 1]
    /\ \A w \in 0..Widths[3] : Values[w] \in Nat \ {0}
<1> DEFINE n == Widths[3]
           D == Nat \ {0}
           step == [x \in (1..n) \X D |-> Base * x[2]]
           Eq(f) == f = [w \in 0..n |-> IF w = 0 THEN 1 ELSE Base * f[w - 1]]
<1>1. n \in Nat /\ Base \in D /\ 1 \in D
  BY WidthsType
<1>2. IsStep(step, n, D)
  BY <1>1 DEF IsStep
<1>3. PICK g : IsLoop(g, n, D, 1, step)
  <2> HIDE DEF step, n, D
  <2>1. QED
    BY <1>1, <1>2, LoopExists
<1>4. \A w \in 1..n : g[w] = Base * g[w - 1]
  <2> TAKE w \in 1..n
  <2>1. g[w - 1] \in D
    BY <1>1, <1>3 DEF IsLoop
  <2>2. QED
    BY <1>3, <2>1 DEF IsLoop
<1>5. Eq(g)
  <2> HIDE DEF step, n
  <2>1. QED
    BY <1>1, <1>3, <1>4 DEF IsLoop
<1>6. Values = CHOOSE f : Eq(f)
  BY DEF Values
<1>7. Eq(Values)
  <2> HIDE DEF Eq
  <2>1. QED
    BY <1>5, <1>6
<1>8. Values[0] = 1 /\ \A w \in 1..n : Values[w] = Base * Values[w - 1]
  <2> HIDE DEF n
  <2>1. QED
    BY <1>1, <1>7
<1>9. \A w \in 0..n : Values[w] \in D
  <2> DEFINE T == {w \in 0..n : Values[w] \in D}
  <2> HIDE DEF n
  <2>1. 0 \in T
    BY <1>1, <1>8
  <2>2. ASSUME NEW w \in 1..n, w - 1 \in T PROVE w \in T
    BY <1>1, <1>8, <2>2
  <2> HIDE DEF T
  <2>3. \A w \in 0..n : w \in T
    BY <1>1, <2>1, <2>2, TurnInduction
  <2>4. QED
    BY <2>3 DEF T
<1>10. QED
  BY <1>8, <1>9

(* More bytes have no fewer values.                                        *)
LEMMA ValuesGrow ==
    ASSUME NEW v \in 0..Widths[3], NEW w \in v..Widths[3]
    PROVE  Values[v] <= Values[w]
<1> DEFINE n == Widths[3]
           T == {i \in 0..(n - v) : Values[v] <= Values[v + i]}
<1>1. n \in Nat /\ n - v \in Nat /\ Base \in Nat /\ Base > 3
  BY WidthsType
<1> HIDE DEF n
<1>2. \A i \in 0..n : Values[i] \in Nat
  BY ValuesDef DEF n
<1>3. 0 \in T
  BY <1>1, <1>2 DEF n
<1>4. ASSUME NEW i \in 1..(n - v), i - 1 \in T PROVE i \in T
  <2> DEFINE before == Values[v + i - 1]
  <2>1. /\ v + i \in 1..n /\ v + i - 1 \in 0..n
        /\ v + (i - 1) = v + i - 1
    BY <1>1, <1>4 DEF n
  <2>2. Values[v + i] = Base * before
    BY <2>1, ValuesDef DEF n
  <2>3. before \in Nat /\ Values[v] <= before /\ Values[v] \in Nat
    BY <1>1, <1>2, <1>4, <2>1 DEF n
  <2> HIDE DEF before
  <2>4. before <= Base * before /\ Base * before \in Nat
    BY <1>1, <2>3
  <2>5. Values[v] <= Values[v + i]
    BY <2>2, <2>3, <2>4
  <2>6. QED
    BY <1>4, <2>5
<1> HIDE DEF T
<1>5. \A i \in 0..(n - v) : i \in T
  BY <1>1, <1>3, <1>4, TurnInduction
<1>6. w - v \in 0..(n - v) /\ v + (w - v) = w
  BY <1>1 DEF n
<1>7. QED
  BY <1>5, <1>6 DEF T

-----------------------------------------------------------------------------
(* Big endian integers.                                                    *)

(* What the loop of FromBigEndian computes.                                *)
LEMMA FromBigEndianLoop ==
    ASSUME NEW bytes \in Seq(Byte)
    PROVE  \E number :
               /\ number[0] = 0
               /\ \A i \in 1..Len(bytes) :
                      number[i] = number[i - 1] * Base + bytes[i]
               /\ \A i \in 0..Len(bytes) : number[i] \in Nat
               /\ FromBigEndian(bytes) = number[Len(bytes)]
<1> DEFINE n == Len(bytes)
           step == [x \in (1..n) \X Nat |-> x[2] * Base + bytes[x[1]]]
           Eq(f) == f = [i \in 0..n |->
                           IF i = 0 THEN 0 ELSE f[i - 1] * Base + bytes[i]]
           number == CHOOSE f : Eq(f)
<1>1. n \in Nat /\ Base \in Nat /\ 0 \in Nat
      /\ \A i \in 1..n : bytes[i] \in Nat
  BY WidthsType DEF Byte
<1>2. IsStep(step, n, Nat)
  <2> HIDE DEF n
  <2>1. \A a, b \in Nat : a * b \in Nat /\ a + b \in Nat
    OBVIOUS
  <2>2. \A x \in (1..n) \X Nat : x[1] \in 1..n /\ x[2] \in Nat
    OBVIOUS
  <2>3. \A x \in (1..n) \X Nat : x[2] * Base + bytes[x[1]] \in Nat
    <3> TAKE x \in (1..n) \X Nat
    <3>1. x[2] * Base \in Nat /\ bytes[x[1]] \in Nat
      BY <1>1, <2>1, <2>2
    <3>2. QED
      BY <2>1, <3>1
  <2>4. QED
    BY <2>3 DEF IsStep
<1>3. PICK g : IsLoop(g, n, Nat, 0, step)
  <2> HIDE DEF step, n
  <2>1. QED
    BY <1>1, <1>2, LoopExists
<1>4. \A i \in 1..n : g[i] = g[i - 1] * Base + bytes[i]
  <2> TAKE i \in 1..n
  <2>1. g[i - 1] \in Nat
    BY <1>1, <1>3 DEF IsLoop
  <2>2. QED
    BY <1>3, <2>1 DEF IsLoop
<1>5. Eq(g)
  <2> HIDE DEF step, n
  <2>1. QED
    BY <1>1, <1>3, <1>4 DEF IsLoop
<1>6. Eq(number)
  <2> HIDE DEF Eq
  <2>1. QED
    BY <1>5
<1>7. FromBigEndian(bytes) = number[n]
  BY DEF FromBigEndian
<1> HIDE DEF number, n
<1>8. number[0] = 0
      /\ \A i \in 1..n : number[i] = number[i - 1] * Base + bytes[i]
  BY <1>1, <1>6
<1>9. \A i \in 0..n : number[i] \in Nat
  <2> DEFINE T == {i \in 0..n : number[i] \in Nat}
  <2>1. 0 \in T
    BY <1>1, <1>8
  <2>2. ASSUME NEW i \in 1..n, i - 1 \in T PROVE i \in T
    <3>1. number[i - 1] \in Nat /\ bytes[i] \in Nat
      BY <1>1, <2>2
    <3>2. \A a, b \in Nat : a * b \in Nat
      OBVIOUS
    <3>3. number[i - 1] * Base \in Nat
      BY <1>1, <3>1, <3>2
    <3>4. QED
      BY <1>8, <3>1, <3>3
  <2> HIDE DEF T
  <2>3. \A i \in 0..n : i \in T
    BY <1>1, <2>1, <2>2, TurnInduction
  <2>4. QED
    BY <2>3 DEF T
<1>10. QED
  BY <1>7, <1>8, <1>9 DEF n

(* A number with another digit behind it, below the next power.            *)
LEMMA DigitFits ==
    ASSUME NEW a \in Nat, NEW v \in Nat, a < v,
           NEW b \in Nat, NEW c \in Nat, c < b
    PROVE  a * b + c < b * v
<1> DEFINE d == v - a - 1
<1>1. d \in Nat /\ v = a + 1 + d
  OBVIOUS
<1> HIDE DEF d
<1>2. b * v = a * b + b + b * d /\ b * d \in Nat /\ a * b \in Nat
  BY <1>1
<1>3. QED
  BY <1>2

(* A number of so many bytes is below the number of their values.          *)
LEMMA FromBigEndianBound ==
    ASSUME NEW bytes \in Seq(Byte), Len(bytes) <= Widths[3]
    PROVE  /\ FromBigEndian(bytes) \in Nat
           /\ FromBigEndian(bytes) < Values[Len(bytes)]
<1> DEFINE n == Len(bytes)
<1>1. n \in Nat /\ n <= Widths[3] /\ Widths[3] \in Nat /\ Base \in Nat
      /\ \A i \in 1..n : bytes[i] \in Nat /\ bytes[i] < Base
  BY WidthsType DEF Byte
<1>2. PICK number :
          /\ number[0] = 0
          /\ \A i \in 1..n : number[i] = number[i - 1] * Base + bytes[i]
          /\ \A i \in 0..n : number[i] \in Nat
          /\ FromBigEndian(bytes) = number[n]
  BY FromBigEndianLoop
<1> HIDE DEF n
<1> DEFINE T == {i \in 0..n : number[i] < Values[i]}
<1>3. 0 \in T
  BY <1>1, <1>2, ValuesDef
<1>4. ASSUME NEW i \in 1..n, i - 1 \in T PROVE i \in T
  <2>1. i \in 1..Widths[3] /\ i - 1 \in 0..Widths[3] /\ i - 1 \in 0..n
    BY <1>1
  <2>2. Values[i] = Base * Values[i - 1] /\ Values[i - 1] \in Nat
    BY <2>1, ValuesDef
  <2>3. number[i - 1] \in Nat /\ number[i - 1] < Values[i - 1]
    BY <1>2, <1>4, <2>1
  <2>4. number[i - 1] * Base + bytes[i] < Base * Values[i - 1]
    BY <1>1, <2>2, <2>3, DigitFits
  <2>5. QED
    BY <1>2, <2>2, <2>4
<1> HIDE DEF T
<1>5. \A i \in 0..n : i \in T
  BY <1>1, <1>3, <1>4, TurnInduction
<1>6. n \in T
  BY <1>1, <1>5
<1>7. QED
  BY <1>1, <1>2, <1>6 DEF T, n

(* Two divisions are one by the product.                                   *)
LEMMA DivOfDiv ==
    ASSUME NEW n \in Nat, NEW b \in Nat \ {0}, NEW v \in Nat \ {0}
    PROVE  n \div (b * v) = (n \div v) \div b
<1> DEFINE q == n \div v
           r == q \div b
<1>1. q \in Nat /\ v * q <= n /\ n < v * (q + 1)
  OBVIOUS
<1>2. r \in Nat /\ b * r <= q /\ q < b * (r + 1)
  BY <1>1
<1> HIDE DEF q, r
<1>3. b * v \in Nat \ {0}
  OBVIOUS
<1>4. (b * v) * r <= n
  <2>1. PICK d \in Nat : q = b * r + d
    BY <1>1, <1>2
  <2>2. v * q = (b * v) * r + v * d /\ v * d \in Nat /\ (b * v) * r \in Nat
    BY <1>2, <1>3, <2>1
  <2>3. QED
    BY <1>1, <2>2
<1>5. n < (b * v) * (r + 1)
  <2> DEFINE d == b * (r + 1) - q - 1
  <2>1. d \in Nat /\ b * (r + 1) = q + 1 + d
    <3>1. b * (r + 1) \in Nat
      BY <1>2
    <3>2. QED
      BY <1>1, <1>2, <3>1
  <2> HIDE DEF d
  <2>2. (b * v) * (r + 1) = v * (q + 1) + v * d
    <3>1. (b * v) * (r + 1) = v * (b * (r + 1))
      BY <1>2
    <3>2. v * (q + 1 + d) = v * (q + 1) + v * d
      BY <1>1, <2>1
    <3>3. QED
      BY <2>1, <3>1, <3>2
  <2>3. v * d \in Nat /\ v * (q + 1) \in Nat
    BY <1>1, <2>1
  <2>4. QED
    BY <1>1, <2>2, <2>3
<1>6. n \div (b * v) = r
  <2> DEFINE c == b * v
  <2>1. c \in Nat \ {0} /\ c * r <= n /\ n < c * (r + 1)
    BY <1>3, <1>4, <1>5
  <2> HIDE DEF c
  <2>2. n \div c = r
    BY <1>2, <2>1
  <2>3. QED
    BY <2>2 DEF c
<1>7. QED
  BY <1>6 DEF q, r

(* An integer is written with as many bytes as its width says.             *)
LEMMA ToBigEndianType ==
    ASSUME NEW n \in Nat, NEW w \in 0..Widths[3]
    PROVE  /\ ToBigEndian(n, w) \in Seq(Byte)
           /\ Len(ToBigEndian(n, w)) = w
<1> DEFINE digit == [i \in 1..w |-> (n \div Values[w - i]) % Base]
<1>1. ASSUME NEW i \in 1..w PROVE digit[i] \in Byte
  <2>1. Values[w - i] \in Nat \ {0}
    BY WidthsType, ValuesDef
  <2>2. n \div Values[w - i] \in Nat
    BY <2>1
  <2>3. QED
    BY <2>2, WidthsType DEF Byte
<1>2. digit \in [1..w -> Byte] /\ w \in Nat
  BY <1>1, WidthsType
<1> HIDE DEF digit
<1>3. digit \in Seq(Byte) /\ Len(digit) = w
  BY <1>2
<1>4. QED
  BY <1>3 DEF ToBigEndian, digit

(* An integer that fits the width is read as it was written.               *)
LEMMA BigEndianRoundTrip ==
    ASSUME NEW w \in 0..Widths[3], NEW n \in Nat, n < Values[w]
    PROVE  FromBigEndian(ToBigEndian(n, w)) = n
<1> DEFINE bytes == ToBigEndian(n, w)
<1>1. bytes \in Seq(Byte) /\ Len(bytes) = w /\ w \in Nat
  BY ToBigEndianType, WidthsType
<1>2. \A i \in 1..w : bytes[i] = (n \div Values[w - i]) % Base
  BY DEF ToBigEndian
<1> HIDE DEF bytes
<1>3. PICK number :
          /\ number[0] = 0
          /\ \A i \in 1..w : number[i] = number[i - 1] * Base + bytes[i]
          /\ \A i \in 0..w : number[i] \in Nat
          /\ FromBigEndian(bytes) = number[w]
  BY <1>1, FromBigEndianLoop
<1> DEFINE T == {i \in 0..w : number[i] = n \div Values[w - i]}
<1>4. 0 \in T
  <2>1. Values[w] \in Nat \ {0}
    BY ValuesDef
  <2>2. n \div Values[w] = 0
    BY <2>1
  <2>3. QED
    BY <1>1, <1>3, <2>2
<1>5. ASSUME NEW i \in 1..w, i - 1 \in T PROVE i \in T
  <2> DEFINE v == Values[w - i]
             q == n \div v
  <2>1. /\ w - i + 1 \in 1..Widths[3] /\ w - i \in 0..Widths[3]
        /\ w - (i - 1) = w - i + 1 /\ (w - i + 1) - 1 = w - i
    BY <1>1, WidthsType
  <2>2. Values[w - (i - 1)] = Base * v /\ v \in Nat \ {0}
    BY <2>1, ValuesDef
  <2>3. n \div Values[w - (i - 1)] = q \div Base
    <3>1. v \in Nat \ {0} /\ Base \in Nat \ {0}
      BY <2>2, WidthsType
    <3> HIDE DEF v
    <3>2. n \div (Base * v) = q \div Base
      BY <3>1, DivOfDiv
    <3>3. QED
      BY <2>2, <3>2
  <2>4. number[i - 1] = q \div Base /\ bytes[i] = q % Base
    BY <1>2, <1>5, <2>3
  <2>5. q \in Nat
    BY <2>2
  <2> HIDE DEF q, v
  <2>6. (q \div Base) * Base + (q % Base) = q
    BY <2>5, WidthsType
  <2>7. number[i] = q
    BY <1>3, <2>4, <2>6
  <2>8. QED
    BY <2>7 DEF q, v
<1> HIDE DEF T
<1>6. w \in T
  <2>1. \A i \in 0..w : i \in T
    BY <1>1, <1>4, <1>5, TurnInduction
  <2>2. QED
    BY <1>1, <2>1
<1>7. number[w] = n \div Values[0]
  BY <1>1, <1>6 DEF T
<1>8. n \div 1 = n
  OBVIOUS
<1>9. QED
  BY <1>3, <1>7, <1>8, ValuesDef DEF bytes

-----------------------------------------------------------------------------
(* Sequences cut in two.                                                   *)

LEMMA ConcatBytes ==
    ASSUME NEW S, NEW a \in Seq(S), NEW b \in Seq(S)
    PROVE  /\ a \o b \in Seq(S)
           /\ Len(a \o b) = Len(a) + Len(b)
           /\ SubSeq(a \o b, 1, Len(a)) = a
           /\ Suffix(a \o b, Len(a)) = b
<1>1. /\ a \o b \in Seq(S) /\ Len(a \o b) = Len(a) + Len(b)
      /\ Len(a) \in Nat /\ Len(b) \in Nat
      /\ \A i \in 1..(Len(a) + Len(b)) :
            (a \o b)[i] = IF i <= Len(a) THEN a[i] ELSE b[i - Len(a)]
  BY ConcatProperties
<1> DEFINE c == a \o b
           p == SubSeq(c, 1, Len(a))
           q == SubSeq(c, Len(a) + 1, Len(c))
<1>2. \A i \in 1..Len(c) : c[i] \in S
  BY <1>1
<1>3. p \in Seq(S) /\ Len(p) = Len(a) /\ \A i \in 1..Len(a) : p[i] = c[i]
  <2> HIDE DEF c
  <2>1. \A i \in 1..Len(a) : c[i] \in S
    BY <1>1, <1>2 DEF c
  <2>2. QED
    BY <1>1, <2>1, SubSeqProperties
<1>4. q \in Seq(S) /\ Len(q) = Len(b)
      /\ \A i \in 1..Len(b) : q[i] = c[Len(a) + i]
  <2> HIDE DEF c
  <2>1. Len(c) = Len(a) + Len(b) /\ \A i \in (Len(a) + 1)..Len(c) : c[i] \in S
    BY <1>1, <1>2 DEF c
  <2>2. QED
    BY <1>1, <2>1, SubSeqProperties
<1> HIDE DEF p, q
<1>5. p = a
  BY <1>1, <1>3
<1>6. q = b
  BY <1>1, <1>4
<1>7. QED
  BY <1>1, <1>5, <1>6 DEF p, q, Suffix

(* The two parts of a sequence make it up.                                 *)
LEMMA CutBytes ==
    ASSUME NEW S, NEW a \in Seq(S), NEW k \in 0..Len(a)
    PROVE  /\ SubSeq(a, 1, k) \in Seq(S) /\ Len(SubSeq(a, 1, k)) = k
           /\ Suffix(a, k) \in Seq(S) /\ Len(Suffix(a, k)) = Len(a) - k
           /\ a = SubSeq(a, 1, k) \o Suffix(a, k)
<1>1. Len(a) \in Nat /\ \A i \in 1..Len(a) : a[i] \in S
  OBVIOUS
<1>2. SubSeq(a, 1, k) \in Seq(S) /\ Len(SubSeq(a, 1, k)) = k
  BY <1>1, SubSeqProperties
<1>3. Suffix(a, k) \in Seq(S) /\ Len(Suffix(a, k)) = Len(a) - k
  BY <1>1, SubSeqProperties DEF Suffix
<1>4. SubSeq(a, 1, k) \o Suffix(a, k) = SubSeq(a, 1, Len(a))
  <2>1. 1 \in 1..(Len(a) + 1) /\ k \in (1 - 1)..Len(a)
        /\ Len(a) \in k..Len(a)
    BY <1>1
  <2>2. QED
    BY <2>1, ConcatAdjacentSubSeq DEF Suffix
<1>5. QED
  BY <1>2, <1>3, <1>4, SubSeqFull

(* Sequences with the same elements are the same.                          *)
LEMMA SameSequence ==
    ASSUME NEW S, NEW p \in Seq(S), NEW q \in Seq(S), Len(p) = Len(q),
           \A i \in 1..Len(p) : p[i] = q[i]
    PROVE  p = q
OBVIOUS

(* What is read from the first part of a concatenation.                    *)
LEMMA ConcatCut ==
    ASSUME NEW S, NEW a \in Seq(S), NEW b \in Seq(S), NEW k \in 0..Len(a)
    PROVE  /\ Suffix(a \o b, k) = Suffix(a, k) \o b
           /\ \A j \in 1..(k + 1) : SubSeq(a \o b, j, k) = SubSeq(a, j, k)
           /\ k > 0 => (a \o b)[k] = a[k]
<1> DEFINE c == a \o b
<1>1. /\ c \in Seq(S) /\ Len(c) = Len(a) + Len(b)
      /\ Len(a) \in Nat /\ Len(b) \in Nat
      /\ \A i \in 1..Len(c) : c[i] = IF i <= Len(a) THEN a[i]
                                      ELSE b[i - Len(a)]
      /\ \A i \in 1..Len(c) : c[i] \in S
      /\ \A i \in 1..Len(a) : a[i] \in S
  BY ConcatProperties
<1> HIDE DEF c
<1>2. Suffix(c, k) = Suffix(a, k) \o b
  <2> DEFINE p == SubSeq(c, k + 1, Len(c))
             q == SubSeq(a, k + 1, Len(a))
  <2>1. p \in Seq(S) /\ Len(p) = Len(a) + Len(b) - k
        /\ \A i \in 1..Len(p) : p[i] = c[k + i]
    <3>1. k + 1 \in Int /\ Len(c) \in Int
          /\ \A i \in (k + 1)..Len(c) : c[i] \in S
      BY <1>1
    <3>2. QED
      BY <1>1, <3>1, SubSeqProperties
  <2>2. q \in Seq(S) /\ Len(q) = Len(a) - k
        /\ \A i \in 1..Len(q) : q[i] = a[k + i]
    <3>1. k + 1 \in Int /\ Len(a) \in Int
          /\ \A i \in (k + 1)..Len(a) : a[i] \in S
      BY <1>1
    <3>2. QED
      BY <1>1, <3>1, SubSeqProperties
  <2> HIDE DEF p, q
  <2>3. /\ q \o b \in Seq(S) /\ Len(q \o b) = Len(q) + Len(b)
        /\ \A i \in 1..(Len(q) + Len(b)) :
              (q \o b)[i] = IF i <= Len(q) THEN q[i] ELSE b[i - Len(q)]
    BY <2>2, ConcatProperties
  <2>4. \A i \in 1..Len(p) : p[i] = (q \o b)[i]
    <3> TAKE i \in 1..Len(p)
    <3>1. p[i] = c[k + i] /\ k + i \in 1..Len(c)
      BY <1>1, <2>1
    <3>2. CASE i <= Len(q)
      <4>1. c[k + i] = a[k + i] /\ q[i] = a[k + i]
        BY <1>1, <2>2, <3>1, <3>2
      <4>2. (q \o b)[i] = q[i]
        BY <1>1, <2>1, <2>2, <2>3, <3>2
      <4>3. QED
        BY <3>1, <4>1, <4>2
    <3>3. CASE ~(i <= Len(q))
      <4>1. c[k + i] = b[k + i - Len(a)] /\ k + i - Len(a) = i - Len(q)
        BY <1>1, <2>2, <3>1, <3>3
      <4>2. (q \o b)[i] = b[i - Len(q)]
        BY <1>1, <2>1, <2>2, <2>3, <3>3
      <4>3. QED
        BY <3>1, <4>1, <4>2
    <3>4. QED
      BY <3>2, <3>3
  <2>5. Len(p) = Len(q \o b)
    BY <1>1, <2>1, <2>2, <2>3
  <2>6. p = q \o b
    BY <2>1, <2>2, <2>3, <2>4, <2>5, SameSequence
  <2>7. QED
    BY <2>6 DEF Suffix, p, q
<1>3. ASSUME NEW j \in 1..(k + 1)
      PROVE  SubSeq(c, j, k) = SubSeq(a, j, k)
  <2> DEFINE p == SubSeq(c, j, k)
             q == SubSeq(a, j, k)
  <2>1. p \in Seq(S) /\ Len(p) = k - j + 1
        /\ \A i \in 1..(k - j + 1) : p[i] = c[j + i - 1]
    <3>1. \A i \in j..k : c[i] \in S
      BY <1>1
    <3>2. j \in Int /\ k \in Int
      BY <1>1
    <3>3. QED
      BY <3>1, <3>2, SubSeqProperties
  <2>2. q \in Seq(S) /\ Len(q) = k - j + 1
        /\ \A i \in 1..(k - j + 1) : q[i] = a[j + i - 1]
    <3>1. \A i \in j..k : a[i] \in S
      BY <1>1
    <3>2. j \in Int /\ k \in Int
      BY <1>1
    <3>3. QED
      BY <3>1, <3>2, SubSeqProperties
  <2> HIDE DEF p, q
  <2>3. \A i \in 1..(k - j + 1) : p[i] = q[i]
    <3> TAKE i \in 1..(k - j + 1)
    <3>1. p[i] = c[j + i - 1] /\ q[i] = a[j + i - 1]
      BY <2>1, <2>2
    <3>2. j + i - 1 \in 1..Len(c) /\ j + i - 1 <= Len(a)
      BY <1>1
    <3>3. QED
      BY <1>1, <3>1, <3>2
  <2>4. p = q
    <3>1. Len(p) = Len(q) /\ \A i \in 1..Len(p) : p[i] = q[i]
      BY <2>1, <2>2, <2>3
    <3>2. QED
      BY <2>1, <2>2, <3>1, SameSequence
  <2>5. QED
    BY <2>4 DEF p, q
<1>4. k > 0 => c[k] = a[k]
  BY <1>1
<1>5. QED
  BY <1>2, <1>3, <1>4 DEF c

-----------------------------------------------------------------------------
(* Compact sizes.                                                          *)

(* A byte below the markers stands for itself.                             *)
LEMMA WidthAfterType ==
    ASSUME NEW byte \in Byte
    PROVE  /\ WidthAfter(byte) \in 0..Widths[3]
           /\ byte < Marker(1) => WidthAfter(byte) = 0
           /\ \A k \in 1..3 : byte = Marker(k) => WidthAfter(byte) = Widths[k]
<1>1. byte \in Nat /\ byte < Base /\ Base \in Nat /\ Base > 3
  BY WidthsType DEF Byte
<1>2. \A k \in 1..3 : Widths[k] \in 0..Widths[3]
  BY WidthsType
<1>3. byte >= Marker(1) => byte - Marker(1) + 1 \in 1..3
  BY <1>1 DEF Marker
<1>4. \A k \in 1..3 : byte = Marker(k) => byte - Marker(1) + 1 = k
                                          /\ ~(byte < Marker(1))
  BY <1>1 DEF Marker
<1>5. Marker(1) \in Int
  BY <1>1 DEF Marker
<1>6. 0 \in 0..Widths[3]
  BY WidthsType
<1>7. QED
  BY <1>1, <1>2, <1>3, <1>4, <1>5, <1>6 DEF WidthAfter

(* The bytes of a compact size are there: what is read.                    *)
LEMMA GetCompactSizeReads ==
    ASSUME NEW bytes \in Seq(Byte), GetCompactSize(bytes).status = "ok"
    PROVE  LET width == WidthAfter(bytes[1])
               size  == GetCompactSize(bytes)
           IN  /\ bytes # <<>> /\ bytes[1] \in Byte
               /\ width \in 0..Widths[3] /\ width + 1 \in 1..Len(bytes)
               /\ size.value = IF width = 0 THEN bytes[1]
                               ELSE FromBigEndian(SubSeq(bytes, 2, width + 1))
               /\ size.rest = Suffix(bytes, width + 1)
               /\ size.value \in U64
               /\ size.rest \in Seq(Byte)
               /\ Len(size.rest) < Len(bytes)
               /\ size = [status |-> "ok", value |-> size.value,
                          rest |-> size.rest]
<1> DEFINE width == WidthAfter(bytes[1])
           size  == GetCompactSize(bytes)
           val   == IF width = 0 THEN bytes[1]
                    ELSE FromBigEndian(SubSeq(bytes, 2, width + 1))
<1>1. bytes # <<>> /\ ~(width + 1 > Len(bytes))
  <2>1. "panic" # "ok"
    OBVIOUS
  <2>2. QED
    BY <2>1 DEF GetCompactSize, Failed
<1>2. size = [status |-> "ok", value |-> val,
              rest |-> Suffix(bytes, width + 1)]
  BY <1>1 DEF GetCompactSize
<1>3. Len(bytes) \in Nat /\ Len(bytes) >= 1 /\ bytes[1] \in Byte
      /\ \A i \in 1..Len(bytes) : bytes[i] \in Byte
  BY <1>1
<1>4. width \in 0..Widths[3]
  BY <1>3, WidthAfterType
<1>5. width \in Nat /\ width + 1 \in 1..Len(bytes) /\ Widths[3] \in Nat
  BY <1>1, <1>3, <1>4, WidthsType
<1>6. val \in U64
  <2>1. \A w \in 0..Widths[3] : Values[w] \in Nat
                                    /\ Values[w] <= Values[Widths[3]]
    <3>1. \A w \in 0..Widths[3] : Widths[3] \in w..Widths[3]
      BY WidthsType
    <3>2. QED
      BY <3>1, ValuesDef, ValuesGrow
  <2>2. CASE width = 0
    <3>1. 1 \in 1..Widths[3] /\ 1 - 1 = 0 /\ Widths[3] \in 0..Widths[3]
          /\ 1 \in 0..Widths[3]
      BY WidthsType
    <3>2. Values[1] = Base * Values[0]
      BY <3>1, ValuesDef
    <3>3. Values[1] = Base
      BY <3>2, ValuesDef, WidthsType
    <3>4. Base <= Values[Widths[3]]
      BY <2>1, <3>1, <3>3
    <3>5. Values[Widths[3]] \in Nat
      BY <2>1, <3>1
    <3>6. bytes[1] \in 0..(Values[Widths[3]] - 1)
      BY <1>3, <3>4, <3>5, WidthsType DEF Byte
    <3>7. QED
      BY <2>2, <3>6 DEF U64
  <2>3. CASE width # 0
    <3> DEFINE number == SubSeq(bytes, 2, width + 1)
    <3>1. number \in Seq(Byte) /\ Len(number) = width
      <4>1. \A i \in 2..(width + 1) : bytes[i] \in Byte
        BY <1>3, <1>5
      <4>2. 2 \in Int /\ width + 1 \in Int /\ 2 <= width + 1
            /\ (width + 1) - 2 + 1 = width
        BY <1>5, <2>3
      <4> HIDE DEF width
      <4>3. QED
        BY <4>1, <4>2, SubSeqProperties
    <3>2. FromBigEndian(number) \in Nat
          /\ FromBigEndian(number) < Values[width]
      <4>1. Len(number) <= Widths[3]
        BY <1>4, <1>5, <3>1
      <4> HIDE DEF number, width
      <4>2. QED
        BY <3>1, <4>1, FromBigEndianBound
    <3>3. Values[width] \in Nat /\ Values[width] <= Values[Widths[3]]
          /\ Values[Widths[3]] \in Nat
      BY <1>4, <1>5, <2>1
    <3> DEFINE f == FromBigEndian(number)
    <3>4. val = f
      BY <2>3
    <3> HIDE DEF f, width, val
    <3>5. f \in Nat /\ f < Values[width]
      BY <3>2 DEF f
    <3>6. QED
      BY <3>3, <3>4, <3>5 DEF U64
  <2>4. QED
    BY <2>2, <2>3
<1> HIDE DEF val, size
<1>7. size.value = val /\ size.rest = Suffix(bytes, width + 1)
      /\ size = [status |-> "ok", value |-> size.value, rest |-> size.rest]
  BY <1>2
<1>8. Suffix(bytes, width + 1) \in Seq(Byte)
      /\ Len(Suffix(bytes, width + 1)) = Len(bytes) - (width + 1)
  <2>1. width + 1 \in 0..Len(bytes)
    BY <1>5
  <2> HIDE DEF width
  <2>2. QED
    BY <2>1, CutBytes
<1>9. Len(size.rest) < Len(bytes)
  BY <1>3, <1>5, <1>7, <1>8
<1>10. QED
  BY <1>1, <1>3, <1>4, <1>5, <1>6, <1>7, <1>8, <1>9 DEF val, size

(* More bytes behind it change nothing of a compact size that is complete. *)
LEMMA GetCompactSizeExtends ==
    ASSUME NEW c \in Seq(Byte), NEW d \in Seq(Byte),
           GetCompactSize(c).status = "ok"
    PROVE  GetCompactSize(c \o d) =
               [status |-> "ok", value |-> GetCompactSize(c).value,
                rest |-> GetCompactSize(c).rest \o d]
<1> DEFINE w == WidthAfter(c[1])
           e == c \o d
           val == IF w = 0 THEN c[1] ELSE FromBigEndian(SubSeq(c, 2, w + 1))
<1>1. /\ c # <<>> /\ w \in 0..Widths[3] /\ w + 1 \in 1..Len(c)
      /\ GetCompactSize(c).value = val
      /\ GetCompactSize(c).rest = Suffix(c, w + 1)
  BY GetCompactSizeReads
<1>2. e \in Seq(Byte) /\ Len(e) = Len(c) + Len(d)
      /\ Len(c) \in Nat /\ Len(d) \in Nat
  BY ConcatProperties
<1>3. w \in Nat /\ w + 1 \in 0..Len(c) /\ 1 \in 0..Len(c)
  BY <1>1, <1>2, WidthsType
<1>4. e[1] = c[1]
  <2>1. 1 > 0
    OBVIOUS
  <2>2. QED
    BY <1>3, <2>1, ConcatCut
<1>5. Suffix(e, w + 1) = Suffix(c, w + 1) \o d
      /\ (w # 0 => SubSeq(e, 2, w + 1) = SubSeq(c, 2, w + 1))
  <2>1. w # 0 => 2 \in 1..((w + 1) + 1)
    BY <1>3
  <2> HIDE DEF w
  <2>2. QED
    BY <1>3, <2>1, ConcatCut
<1>6. e # <<>> /\ ~(w + 1 > Len(e))
  BY <1>1, <1>2, <1>3
<1> HIDE DEF e
<1>7. GetCompactSize(e) =
          [status |-> "ok",
           value  |-> IF w = 0 THEN e[1]
                              ELSE FromBigEndian(SubSeq(e, 2, w + 1)),
           rest   |-> Suffix(e, w + 1)]
  BY <1>4, <1>6 DEF GetCompactSize
<1>8. (IF w = 0 THEN e[1] ELSE FromBigEndian(SubSeq(e, 2, w + 1))) = val
  BY <1>4, <1>5
<1> HIDE DEF w, val
<1>9. QED
  BY <1>1, <1>5, <1>7, <1>8 DEF e

(* What is written as a compact size: a byte, or a marker and the integer. *)
LEMMA PutCompactSizeIs ==
    ASSUME NEW n \in U64
    PROVE  \/ n \in Byte /\ n < Marker(1) /\ PutCompactSize(n) = <<n>>
           \/ \E k \in 1..3 :
                  /\ n < Values[Widths[k]]
                  /\ PutCompactSize(n) =
                         <<Marker(k)>> \o ToBigEndian(n, Widths[k])
<1>1. n \in Nat /\ n < Values[Widths[3]]
  <2>1. Widths[3] \in 0..Widths[3]
    BY WidthsType
  <2>2. Values[Widths[3]] \in Nat
    BY <2>1, ValuesDef
  <2>3. QED
    BY <2>2 DEF U64
<1>2. CASE n < Marker(1)
  <2>1. PutCompactSize(n) = <<n>>
    BY <1>2 DEF PutCompactSize, FitsAByte
  <2>2. n \in Byte
    BY <1>1, <1>2, WidthsType DEF Byte, Marker
  <2>3. QED
    BY <1>2, <2>1, <2>2
<1>3. CASE ~(n < Marker(1))
  <2> DEFINE First(k) == /\ n < Values[Widths[k]]
                         /\ \A j \in 1..(k - 1) : n >= Values[Widths[j]]
             first == CHOOSE k \in 1..3 : First(k)
  <2>1. \E k \in 1..3 : First(k)
    <3>1. \A k \in 1..3 : Values[Widths[k]] \in Nat
      <4>1. \A k \in 1..3 : Widths[k] \in 0..Widths[3]
        BY WidthsType
      <4>2. QED
        BY <4>1, ValuesDef
    <3>2. CASE n < Values[Widths[1]]
      BY <3>2
    <3>3. CASE n >= Values[Widths[1]] /\ n < Values[Widths[2]]
      <4>1. \A j \in 1..(2 - 1) : j = 1
        OBVIOUS
      <4>2. First(2)
        BY <3>3, <4>1
      <4>3. QED
        BY <4>2
    <3>4. CASE n >= Values[Widths[1]] /\ n >= Values[Widths[2]]
      <4>1. \A j \in 1..(3 - 1) : j \in {1, 2}
        OBVIOUS
      <4>2. First(3)
        BY <1>1, <3>4, <4>1
      <4>3. QED
        BY <4>2
    <3>5. n >= Values[Widths[1]] \/ n < Values[Widths[1]]
      BY <1>1, <3>1
    <3>6. n >= Values[Widths[2]] \/ n < Values[Widths[2]]
      BY <1>1, <3>1
    <3>7. QED
      BY <3>2, <3>3, <3>4, <3>5, <3>6
  <2>2. first \in 1..3 /\ First(first)
    <3> HIDE DEF First
    <3>1. QED
      BY <2>1
  <2>3. PutCompactSize(n) = <<Marker(first)>> \o ToBigEndian(n, Widths[first])
    BY <1>3 DEF PutCompactSize, FitsAByte
  <2> HIDE DEF first
  <2>4. QED
    BY <2>2, <2>3
<1>4. QED
  BY <1>2, <1>3

(* A compact size is one byte or more.                                     *)
LEMMA PutCompactSizeType ==
    ASSUME NEW n \in U64
    PROVE  PutCompactSize(n) \in Seq(Byte) /\ Len(PutCompactSize(n)) >= 1
<1>1. CASE n \in Byte /\ PutCompactSize(n) = <<n>>
  BY <1>1
<1>2. ASSUME NEW k \in 1..3,
             PutCompactSize(n) = <<Marker(k)>> \o ToBigEndian(n, Widths[k])
      PROVE  PutCompactSize(n) \in Seq(Byte) /\ Len(PutCompactSize(n)) >= 1
  <2> DEFINE m == <<Marker(k)>>
             d == ToBigEndian(n, Widths[k])
  <2>1. Marker(k) \in Byte
    BY WidthsType DEF Marker, Byte
  <2>2. m \in Seq(Byte) /\ Len(m) = 1
    BY <2>1
  <2>3. n \in Nat /\ Widths[k] \in 0..Widths[3]
    BY WidthsType DEF U64
  <2>4. d \in Seq(Byte) /\ Len(d) \in Nat
    BY <2>3, ToBigEndianType
  <2> HIDE DEF m, d
  <2>5. m \o d \in Seq(Byte) /\ Len(m \o d) >= 1
    <3>1. m \o d \in Seq(Byte) /\ Len(m \o d) = Len(m) + Len(d)
      BY <2>2, <2>4, ConcatProperties
    <3>2. QED
      BY <2>2, <2>4, <3>1
  <2>6. QED
    BY <1>2, <2>5 DEF m, d
<1>3. QED
  BY <1>1, <1>2, PutCompactSizeIs

(* A compact size is read as it was written, whatever follows.             *)
LEMMA CompactSizeRoundTrip ==
    ASSUME NEW n \in U64, NEW d \in Seq(Byte)
    PROVE  GetCompactSize(PutCompactSize(n) \o d) =
               [status |-> "ok", value |-> n, rest |-> d]
<1> DEFINE p == PutCompactSize(n)
<1>1. p \in Seq(Byte) /\ Len(p) >= 1 /\ Len(p) \in Nat
  BY PutCompactSizeType
<1>2. GetCompactSize(p) = [status |-> "ok", value |-> n, rest |-> <<>>]
  <2>1. CASE n \in Byte /\ n < Marker(1) /\ p = <<n>>
    <3>1. p # <<>> /\ p[1] = n /\ Len(p) = 1
      BY <2>1
    <3>2. WidthAfter(n) = 0
      BY <2>1, WidthAfterType
    <3>3. Suffix(p, 0 + 1) = <<>>
      BY <3>1, SubSeqEmpty DEF Suffix
    <3> HIDE DEF p
    <3>4. QED
      BY <3>1, <3>2, <3>3 DEF GetCompactSize
  <2>2. ASSUME NEW k \in 1..3, n < Values[Widths[k]],
               p = <<Marker(k)>> \o ToBigEndian(n, Widths[k])
        PROVE  GetCompactSize(p) = [status |-> "ok", value |-> n,
                                  rest |-> <<>>]
    <3> DEFINE w == Widths[k]
               m == <<Marker(k)>>
               num == ToBigEndian(n, w)
    <3>1. n \in Nat /\ w \in 0..Widths[3] /\ w \in Nat /\ w # 0
      BY WidthsType DEF U64
    <3>2. Marker(k) \in Byte
      BY WidthsType DEF Marker, Byte
    <3>3. m \in Seq(Byte) /\ Len(m) = 1 /\ m[1] = Marker(k)
      BY <3>2
    <3>4. num \in Seq(Byte) /\ Len(num) = w
      BY <3>1, ToBigEndianType
    <3>5. FromBigEndian(num) = n
      BY <2>2, <3>1, BigEndianRoundTrip
    <3> HIDE DEF m, num, p
    <3>6. p = m \o num
      BY <2>2 DEF m, num
    <3>7. Len(p) = w + 1 /\ Suffix(p, 1) = num
      <4>1. Suffix(m \o num, Len(m)) = num /\ Len(m \o num) = Len(m) + Len(num)
        BY <3>3, <3>4, ConcatBytes
      <4>2. QED
        BY <3>1, <3>3, <3>4, <3>6, <4>1
    <3>8. p[1] = Marker(k)
      <4>1. 1 \in 0..Len(m) /\ 1 > 0
        BY <3>3
      <4>2. (m \o num)[1] = m[1]
        BY <3>3, <3>4, <4>1, ConcatCut
      <4>3. QED
        BY <3>3, <3>6, <4>2
    <3>9. WidthAfter(p[1]) = w
      BY <3>2, <3>8, WidthAfterType
    <3>10. SubSeq(p, 2, w + 1) = num
      BY <3>7 DEF Suffix
    <3>11. Suffix(p, w + 1) = <<>>
      BY <3>1, <3>7, SubSeqEmpty DEF Suffix
    <3>12. p # <<>> /\ ~(w + 1 > Len(p))
      BY <1>1, <3>1, <3>7 
    <3> HIDE DEF w
    <3>13. QED
      BY <3>1, <3>5, <3>9, <3>10, <3>11, <3>12 DEF GetCompactSize
  <2>3. QED
    BY <2>1, <2>2, PutCompactSizeIs
<1> HIDE DEF p
<1>3. GetCompactSize(p \o d) =
          [status |-> "ok", value |-> n, rest |-> <<>> \o d]
  <2>1. /\ GetCompactSize(p).status = "ok" /\ GetCompactSize(p).value = n
        /\ GetCompactSize(p).rest = <<>>
    BY <1>2
  <2>2. GetCompactSize(p \o d) =
            [status |-> "ok", value |-> GetCompactSize(p).value,
             rest |-> GetCompactSize(p).rest \o d]
    BY <1>1, <2>1, GetCompactSizeExtends
  <2>3. QED
    BY <2>1, <2>2
<1>4. <<>> \o d = d
  BY ConcatEmptySeq
<1>5. QED
  BY <1>3, <1>4 DEF p

-----------------------------------------------------------------------------
(* Entries.                                                                *)

Statuses == {"ok", "err", "panic"}
State == [status : Statuses, entries : Seq(Entry), rest : Seq(Byte)]

(* What is read as a value has the length that was read.                   *)
LEMMA ValueReads ==
    ASSUME NEW bytes \in Seq(Byte), NEW len \in U64,
           Value(bytes, len).status = "ok"
    PROVE  LET v == Value(bytes, len)
           IN  /\ len \in 0..Len(bytes)
               /\ v = [status |-> "ok", value |-> SubSeq(bytes, 1, len),
                       rest |-> Suffix(bytes, len)]
               /\ v.value = SubSeq(bytes, 1, len)
               /\ v.rest = Suffix(bytes, len)
               /\ v.value \in Seq(Byte) /\ Len(v.value) = len
               /\ v.rest \in Seq(Byte)
<1> DEFINE v == Value(bytes, len)
<1>1. ~(len > Len(bytes))
  <2>1. "err" # "ok"
    OBVIOUS
  <2>2. QED
    BY <2>1 DEF Value, Failed
<1>2. len \in 0..Len(bytes)
  BY <1>1 DEF U64
<1>3. v = [status |-> "ok", value |-> SubSeq(bytes, 1, len),
           rest |-> Suffix(bytes, len)]
  BY <1>1 DEF Value
<1>4. SubSeq(bytes, 1, len) \in Seq(Byte) /\ Len(SubSeq(bytes, 1, len)) = len
      /\ Suffix(bytes, len) \in Seq(Byte)
  BY <1>2, CutBytes
<1> HIDE DEF v
<1>5. QED
  BY <1>2, <1>3, <1>4 DEF v

(* More bytes behind it change nothing of a value that is complete.        *)
LEMMA ValueExtends ==
    ASSUME NEW c \in Seq(Byte), NEW d \in Seq(Byte), NEW len \in U64,
           Value(c, len).status = "ok"
    PROVE  Value(c \o d, len) =
               [status |-> "ok", value |-> Value(c, len).value,
                rest |-> Value(c, len).rest \o d]
<1>1. /\ len \in 0..Len(c) /\ Value(c, len).value = SubSeq(c, 1, len)
      /\ Value(c, len).rest = Suffix(c, len)
  BY ValueReads
<1>2. Suffix(c \o d, len) = Suffix(c, len) \o d
      /\ SubSeq(c \o d, 1, len) = SubSeq(c, 1, len)
  <2>1. 1 \in 1..(len + 1)
    BY <1>1
  <2>2. QED
    BY <1>1, <2>1, ConcatCut
<1>3. ~(len > Len(c \o d))
  BY <1>1, ConcatProperties
<1>4. QED
  BY <1>1, <1>2, <1>3 DEF Value

(* The parts of an entry that was read.                                    *)
LEMMA ReadEntryReads ==
    ASSUME NEW s \in State, s.status = "ok"
    PROVE  LET typ   == GetCompactSize(s.rest)
               len   == GetCompactSize(typ.rest)
               value == Value(len.rest, len.value)
           IN  /\ ReadEntry(s) \in State
               /\ ReadEntry(s).status = "ok" =>
                      /\ typ.status = "ok" /\ len.status = "ok"
                      /\ value.status = "ok"
                      /\ typ.value \in U64 /\ len.value \in U64
                      /\ typ.rest \in Seq(Byte) /\ len.rest \in Seq(Byte)
                      /\ value.rest \in Seq(Byte)
                      /\ [typ |-> typ.value, value |-> value.value] \in Entry
                      /\ ReadEntry(s) =
                             [status |-> "ok",
                              entries |-> Append(s.entries, [typ |-> typ.value,
                                                    value |-> value.value]),
                              rest |-> value.rest]
               /\ ReadEntry(s).status # "ok" =>
                      ReadEntry(s).entries = s.entries
<1> DEFINE typ   == GetCompactSize(s.rest)
           len   == GetCompactSize(typ.rest)
           value == Value(len.rest, len.value)
           entry == [typ |-> typ.value, value |-> value.value]
           r     == ReadEntry(s)
<1>1. r = IF typ.status # "ok" THEN [s EXCEPT !.status = typ.status]
          ELSE IF len.status # "ok" THEN [s EXCEPT !.status = len.status]
          ELSE IF value.status # "ok" THEN [s EXCEPT !.status = value.status]
          ELSE [status |-> "ok", entries |-> Append(s.entries, entry),
                rest |-> value.rest]
  BY DEF ReadEntry
<1>2. typ.status \in Statuses /\ len.status \in Statuses
      /\ value.status \in Statuses
  BY DEF GetCompactSize, Value, Failed, Statuses
<1>3. s.rest \in Seq(Byte) /\ s.entries \in Seq(Entry)
  BY DEF State
<1>4. typ.status = "ok" => typ.value \in U64 /\ typ.rest \in Seq(Byte)
  BY <1>3, GetCompactSizeReads
<1> HIDE DEF typ
<1>5. typ.status = "ok" /\ len.status = "ok" =>
          len.value \in U64 /\ len.rest \in Seq(Byte)
  BY <1>4, GetCompactSizeReads
<1> HIDE DEF len
<1>6. typ.status = "ok" /\ len.status = "ok" /\ value.status = "ok" =>
          /\ value.value \in Seq(Byte) /\ Len(value.value) \in U64
          /\ value.rest \in Seq(Byte)
  BY <1>5, ValueReads
<1> HIDE DEF value
<1>7. typ.status = "ok" /\ len.status = "ok" /\ value.status = "ok" =>
          entry \in Entry
  BY <1>4, <1>6 DEF Entry, Buffer
<1> HIDE DEF entry, r
<1>8. \A x \in Statuses : [s EXCEPT !.status = x] \in State
                          /\ [s EXCEPT !.status = x].status = x
                          /\ [s EXCEPT !.status = x].entries = s.entries
  BY DEF State
<1>9. entry \in Entry => Append(s.entries, entry) \in Seq(Entry)
  BY <1>3, AppendProperties
<1>10. CASE typ.status = "ok" /\ len.status = "ok" /\ value.status = "ok"
  <2>1. r = [status |-> "ok", entries |-> Append(s.entries, entry),
             rest |-> value.rest]
    BY <1>1, <1>10
  <2>2. r \in State
    BY <1>6, <1>7, <1>9, <1>10, <2>1 DEF State, Statuses
  <2>3. r.status = "ok"
    BY <2>1
  <2>4. QED
    BY <1>4, <1>5, <1>6, <1>7, <1>10, <2>1, <2>2, <2>3
       DEF typ, len, value, entry, r
<1>11. CASE ~(typ.status = "ok" /\ len.status = "ok" /\ value.status = "ok")
  <2>1. r.status # "ok" /\ r \in State /\ r.entries = s.entries
    BY <1>1, <1>2, <1>8, <1>11
  <2>2. QED
    BY <2>1 DEF r, typ, len, value
<1>12. QED
  BY <1>10, <1>11

(* A prefix, by its elements.                                              *)
LEMMA PrefixIs ==
    ASSUME NEW S, NEW a \in Seq(S), NEW b \in Seq(S)
    PROVE  IsPrefix(a, b) <=>
               Len(a) <= Len(b) /\ \A i \in 1..Len(a) : a[i] = b[i]
<1>1. Len(a) \in Nat /\ Len(b) \in Nat
      /\ (\A i \in 1..Len(a) : a[i] \in S) /\ (\A i \in 1..Len(b) : b[i] \in S)
  OBVIOUS
<1>2. SubSeq(a, 1, Len(a)) = a
  BY SubSeqFull
<1>3. ASSUME Len(a) <= Len(b)
      PROVE  a = SubSeq(b, 1, Len(a)) <=> \A i \in 1..Len(a) : a[i] = b[i]
  <2> DEFINE c == SubSeq(b, 1, Len(a))
  <2>1. c \in Seq(S) /\ Len(c) = Len(a) /\ \A i \in 1..Len(a) : c[i] = b[i]
    <3>1. \A i \in 1..Len(a) : b[i] \in S
      BY <1>1, <1>3
    <3>2. QED
      BY <1>1, <3>1, SubSeqProperties
  <2> HIDE DEF c
  <2>2. (\A i \in 1..Len(a) : a[i] = b[i]) => a = c
    BY <2>1, SameSequence
  <2>3. QED
    BY <2>1, <2>2 DEF c
<1>4. QED
  BY <1>2, <1>3 DEF IsPrefix

(* A turn keeps the entries that were read; after the end or a failure it  *)
(* does nothing.                                                           *)
LEMMA TurnIs ==
    ASSUME NEW s \in State
    PROVE  /\ Turn(s) \in State
           /\ s.status # "ok" => Turn(s) = s
           /\ Len(s.rest) < 2 => Turn(s) = s
           /\ s.status = "ok" /\ Len(s.rest) >= 2 => Turn(s) = ReadEntry(s)
           /\ IsPrefix(s.entries, Turn(s).entries)
<1>1. s.entries \in Seq(Entry) /\ s.rest \in Seq(Byte) /\ Len(s.rest) \in Nat
  BY DEF State
<1>2. IsPrefix(s.entries, s.entries)
  BY <1>1, PrefixIs
<1>3. CASE s.status = "ok" /\ Len(s.rest) >= 2
  <2>1. Turn(s) = ReadEntry(s)
    BY <1>3 DEF Turn
  <2>2. ReadEntry(s) \in State
    BY <1>3, ReadEntryReads
  <2>3. IsPrefix(s.entries, ReadEntry(s).entries)
    <3>1. CASE ReadEntry(s).status # "ok"
      <4>1. ReadEntry(s).entries = s.entries
        BY <1>3, <3>1, ReadEntryReads
      <4>2. QED
        BY <1>2, <4>1
    <3>2. CASE ReadEntry(s).status = "ok"
      <4>1. PICK e \in Entry : ReadEntry(s).entries = Append(s.entries, e)
        <5> DEFINE typ   == GetCompactSize(s.rest)
                   len   == GetCompactSize(typ.rest)
                   value == Value(len.rest, len.value)
                   entry == [typ |-> typ.value, value |-> value.value]
                   r     == ReadEntry(s)
        <5>1. entry \in Entry
              /\ r = [status |-> "ok", entries |-> Append(s.entries, entry),
                      rest |-> value.rest]
          BY <1>3, <3>2, ReadEntryReads
        <5> HIDE DEF entry, r, value
        <5>2. r.entries = Append(s.entries, entry)
          BY <5>1
        <5>3. QED
          BY <5>1, <5>2 DEF r
      <4> DEFINE a == s.entries
                 b == Append(a, e)
      <4>2. a \in Seq(Entry) /\ b \in Seq(Entry) /\ Len(b) = Len(a) + 1
            /\ \A i \in 1..Len(a) : b[i] = a[i]
        BY <1>1, AppendProperties
      <4> HIDE DEF a, b
      <4>3. IsPrefix(a, b)
        BY <4>2, PrefixIs
      <4>4. QED
        BY <4>1, <4>3 DEF a, b
    <3>3. QED
      BY <3>1, <3>2
  <2>4. QED
    BY <1>1, <1>3, <2>1, <2>2, <2>3
<1>4. CASE ~(s.status = "ok" /\ Len(s.rest) >= 2)
  <2>1. Turn(s) = s
    BY <1>4 DEF Turn
  <2>2. QED
    BY <1>2, <1>4, <2>1
<1>5. QED
  BY <1>3, <1>4

(* What the loop of from_bytes goes through.                               *)
IsReading(loop, bytes) ==
    /\ loop[0] = [status |-> "ok", entries |-> <<>>, rest |-> bytes]
    /\ \A i \in 1..Len(bytes) : loop[i] = Turn(loop[i - 1])
    /\ \A i \in 0..Len(bytes) : loop[i] \in State
    /\ FromBytes(bytes) = IF loop[Len(bytes)].status = "ok"
                          THEN Stream(loop[Len(bytes)].entries)
                          ELSE Failed(loop[Len(bytes)].status)

(* The loop of from_bytes is a sequence of turns.                          *)
LEMMA FromBytesLoop ==
    ASSUME NEW bytes \in Seq(Byte)
    PROVE  \E loop : IsReading(loop, bytes)
<1> DEFINE n == Len(bytes)
           first == [status |-> "ok", entries |-> <<>>, rest |-> bytes]
           step == [x \in (1..n) \X State |-> Turn(x[2])]
           Eq(f) == f = [i \in 0..n |->
                           IF i = 0 THEN first ELSE Turn(f[i - 1])]
           loop == CHOOSE f : Eq(f)
<1>1. n \in Nat /\ first \in State
  BY DEF State, Statuses
<1>2. \A s \in State : Turn(s) \in State
  BY TurnIs
<1>3. IsStep(step, n, State)
  <2> HIDE DEF n
  <2>1. \A x \in (1..n) \X State : Turn(x[2]) \in State
    BY <1>2
  <2>2. QED
    BY <2>1 DEF IsStep
<1>4. PICK g : IsLoop(g, n, State, first, step)
  <2> HIDE DEF step, n, first
  <2>1. QED
    BY <1>1, <1>3, LoopExists
<1>5. \A i \in 1..n : g[i] = Turn(g[i - 1])
  <2> TAKE i \in 1..n
  <2>1. g[i - 1] \in State
    BY <1>1, <1>4 DEF IsLoop
  <2> HIDE DEF n, first
  <2>2. QED
    BY <1>4, <2>1 DEF IsLoop
<1>6. Eq(g)
  <2> HIDE DEF step, n, first
  <2>1. QED
    BY <1>1, <1>4, <1>5 DEF IsLoop
<1>7. Eq(loop)
  <2> HIDE DEF Eq
  <2>1. QED
    BY <1>6
<1>8. FromBytes(bytes) = IF loop[n].status = "ok" THEN Stream(loop[n].entries)
                         ELSE Failed(loop[n].status)
  BY DEF FromBytes, Result
<1> HIDE DEF loop, n, first
<1>9. loop[0] = first /\ \A i \in 1..n : loop[i] = Turn(loop[i - 1])
  BY <1>1, <1>7
<1>10. \A i \in 0..n : loop[i] \in State
  <2> DEFINE T == {i \in 0..n : loop[i] \in State}
  <2>1. 0 \in T
    BY <1>1, <1>9
  <2>2. ASSUME NEW i \in 1..n, i - 1 \in T PROVE i \in T
    BY <1>2, <1>9, <2>2
  <2> HIDE DEF T
  <2>3. \A i \in 0..n : i \in T
    BY <1>1, <2>1, <2>2, TurnInduction
  <2>4. QED
    BY <2>3 DEF T
<1>11. QED
  BY <1>8, <1>9, <1>10 DEF n, first, IsReading

(* The result, if there is one, is a sequence of entries.                  *)
LEMMA FromBytesType ==
    ASSUME NEW bytes \in Seq(Byte)
    PROVE  /\ FromBytes(bytes).status \in Statuses
           /\ FromBytes(bytes).status = "ok" =>
                  /\ FromBytes(bytes).entries \in Seq(Entry)
                  /\ FromBytes(bytes) = Stream(FromBytes(bytes).entries)
<1>1. PICK loop : IsReading(loop, bytes)
  BY FromBytesLoop
<1> DEFINE last == loop[Len(bytes)]
<1>2. last \in State
  BY <1>1 DEF IsReading
<1>3. FromBytes(bytes) = IF last.status = "ok" THEN Stream(last.entries)
                                               ELSE Failed(last.status)
  BY <1>1 DEF IsReading
<1> HIDE DEF last
<1>4. last.status \in Statuses /\ last.entries \in Seq(Entry)
  BY <1>2 DEF State
<1>5. QED
  BY <1>3, <1>4 DEF Stream, Failed

-----------------------------------------------------------------------------
(* A stream that is cut short.                                             *)

(* More bytes behind it change nothing of an entry that is complete.       *)
LEMMA ReadEntryExtends ==
    ASSUME NEW s \in State, s.status = "ok", NEW d \in Seq(Byte),
           ReadEntry(s).status = "ok", NEW f, f.status = "ok",
           f.entries = s.entries, f.rest = s.rest \o d
    PROVE  /\ ReadEntry(f).status = "ok"
           /\ ReadEntry(f).entries = ReadEntry(s).entries
           /\ ReadEntry(f).rest = ReadEntry(s).rest \o d
<1> DEFINE typ   == GetCompactSize(s.rest)
           len   == GetCompactSize(typ.rest)
           value == Value(len.rest, len.value)
           entry == [typ |-> typ.value, value |-> value.value]
           ftyp   == GetCompactSize(f.rest)
           flen   == GetCompactSize(ftyp.rest)
           fvalue == Value(flen.rest, flen.value)
           fentry == [typ |-> ftyp.value, value |-> fvalue.value]
<1>1. /\ typ.status = "ok" /\ len.status = "ok" /\ value.status = "ok"
      /\ typ.value \in U64 /\ len.value \in U64
      /\ typ.rest \in Seq(Byte) /\ len.rest \in Seq(Byte)
      /\ ReadEntry(s) = [status |-> "ok", entries |-> Append(s.entries, entry),
                         rest |-> value.rest]
  BY ReadEntryReads
<1>2. s.rest \in Seq(Byte)
  BY DEF State
<1>3. ftyp = [status |-> "ok", value |-> typ.value, rest |-> typ.rest \o d]
  BY <1>1, <1>2, GetCompactSizeExtends
<1> HIDE DEF ftyp, typ
<1>4. flen = [status |-> "ok", value |-> len.value, rest |-> len.rest \o d]
  <2>1. ftyp.rest = typ.rest \o d
    BY <1>3
  <2>2. QED
    BY <1>1, <2>1, GetCompactSizeExtends
<1> HIDE DEF flen, len
<1>5. fvalue = [status |-> "ok", value |-> value.value,
                rest |-> value.rest \o d]
  <2>1. flen.rest = len.rest \o d /\ flen.value = len.value
    BY <1>4
  <2>2. QED
    BY <1>1, <2>1, ValueExtends
<1> HIDE DEF fvalue, value
<1>6. /\ ftyp.status = "ok" /\ flen.status = "ok" /\ fvalue.status = "ok"
      /\ ftyp.value = typ.value /\ fvalue.value = value.value
      /\ fvalue.rest = value.rest \o d
  BY <1>3, <1>4, <1>5
<1>7. ReadEntry(f) = [status |-> "ok", entries |-> Append(f.entries, fentry),
                      rest |-> fvalue.rest]
  BY <1>6 DEF ReadEntry, fvalue, flen, ftyp
<1>8. fentry = entry
  BY <1>6
<1> HIDE DEF entry, fentry
<1>9. QED
  BY <1>1, <1>6, <1>7, <1>8

(* The entries of a stream that is cut short are the first ones of the     *)
(* whole stream.                                                           *)
LEMMA CutIsPrefix ==
    ASSUME NEW c \in Seq(Byte), NEW d \in Seq(Byte),
           FromBytes(c).status = "ok", FromBytes(c \o d).status = "ok"
    PROVE  IsPrefix(FromBytes(c).entries, FromBytes(c \o d).entries)
<1> DEFINE e == c \o d
           m == Len(c)
           n == Len(e)
<1>1. e \in Seq(Byte) /\ n = m + Len(d) /\ m \in Nat /\ n \in Nat /\ m <= n
  <2>1. e \in Seq(Byte) /\ Len(e) = Len(c) + Len(d)
    BY ConcatProperties
  <2>2. QED
    BY <2>1
<1>2. PICK C : IsReading(C, c)
  BY FromBytesLoop
<1>3. PICK F : IsReading(F, e)
  BY <1>1, FromBytesLoop
<1>4. /\ \A i \in 1..m : C[i] = Turn(C[i - 1])
      /\ \A i \in 0..m : C[i] \in State
      /\ \A i \in 1..n : F[i] = Turn(F[i - 1])
      /\ \A i \in 0..n : F[i] \in State
      /\ C[0] = [status |-> "ok", entries |-> <<>>, rest |-> c]
      /\ F[0] = [status |-> "ok", entries |-> <<>>, rest |-> c \o d]
  BY <1>2, <1>3 DEF IsReading
<1>5. /\ FromBytes(c) = IF C[m].status = "ok" THEN Stream(C[m].entries)
                        ELSE Failed(C[m].status)
      /\ FromBytes(e) = IF F[n].status = "ok" THEN Stream(F[n].entries)
                        ELSE Failed(F[n].status)
  BY <1>2, <1>3 DEF IsReading
<1> HIDE DEF m, n, e
<1>6. /\ C[m].status = "ok" /\ FromBytes(c).entries = C[m].entries
      /\ FromBytes(e).entries = F[n].entries
  <2>1. FromBytes(e).status = "ok"
    BY DEF e
  <2>2. QED
    BY <1>5, <2>1 DEF Stream, Failed
(* The entries of the longer stream only become more.                      *)
<1>7. \A i \in 1..n : IsPrefix(F[i - 1].entries, F[i].entries)
  <2> TAKE i \in 1..n
  <2>1. i - 1 \in 0..n
    BY <1>1
  <2>2. QED
    BY <1>4, <2>1, TurnIs
<1>8. /\ \A i \in 0..n : F[i].entries \in Seq(Entry) /\ F[i].rest \in Seq(Byte)
      /\ \A i \in 0..m : C[i].entries \in Seq(Entry) /\ C[i].rest \in Seq(Byte)
  BY <1>4 DEF State
<1>9. \A x, y, z \in Seq(Entry) :
          IsPrefix(x, y) /\ IsPrefix(y, z) => IsPrefix(x, z)
  <2> TAKE x, y, z \in Seq(Entry)
  <2> HAVE IsPrefix(x, y) /\ IsPrefix(y, z)
  <2>1. Len(x) <= Len(y) /\ \A i \in 1..Len(x) : x[i] = y[i]
    BY PrefixIs
  <2>2. Len(y) <= Len(z) /\ \A i \in 1..Len(y) : y[i] = z[i]
    BY PrefixIs
  <2>3. Len(x) <= Len(z) /\ \A i \in 1..Len(x) : x[i] = z[i]
    <3>1. Len(x) \in Nat /\ Len(y) \in Nat /\ Len(z) \in Nat
      OBVIOUS
    <3>2. \A i \in 1..Len(x) : i \in 1..Len(y)
      BY <2>1, <3>1
    <3>3. QED
      BY <2>1, <2>2, <3>1, <3>2
  <2>4. QED
    BY <2>3, PrefixIs
(* The two loops read the same entries until the shorter stream ends.      *)
<1> DEFINE Same(i) == /\ F[i].status = "ok" /\ F[i].entries = C[i].entries
                      /\ F[i].rest = C[i].rest \o d
           Done(i) == /\ Len(C[i].rest) < 2
                      /\ IsPrefix(C[i].entries, F[i].entries)
           T == {i \in 0..m : C[i].status = "ok" => Same(i) \/ Done(i)}
<1>10. 0 \in T
  <2>1. /\ F[0].status = "ok" /\ F[0].entries = <<>> /\ F[0].rest = c \o d
        /\ C[0].entries = <<>> /\ C[0].rest = c
    BY <1>4
  <2>2. Same(0) /\ 0 \in 0..m
    BY <1>1, <2>1
  <2>3. QED
    BY <2>2
<1>11. ASSUME NEW i \in 1..m, i - 1 \in T PROVE i \in T
  <2>1. i - 1 \in 0..m /\ i - 1 \in 0..n /\ i \in 1..n /\ i \in 0..n
        /\ i \in 0..m
    BY <1>1
  <2>2. SUFFICES ASSUME C[i].status = "ok" PROVE Same(i) \/ Done(i)
    BY <2>1
  <2> DEFINE s == C[i - 1]
             f == F[i - 1]
  <2>3. s \in State /\ f \in State /\ C[i] = Turn(s) /\ F[i] = Turn(f)
    BY <1>4, <2>1
  <2>4. s.status = "ok"
    BY <2>2, <2>3, TurnIs
  <2>5. Same(i - 1) \/ Done(i - 1)
    BY <1>11, <2>4
  <2>6. ASSUME Len(s.rest) < 2, IsPrefix(s.entries, f.entries)
        PROVE  Done(i)
    <3>1. C[i] = s
      BY <2>3, <2>6, TurnIs
    <3>2. IsPrefix(f.entries, F[i].entries)
      BY <1>7, <2>1
    <3>3. IsPrefix(s.entries, F[i].entries)
      BY <1>8, <1>9, <2>1, <2>6, <3>2
    <3>4. QED
      BY <2>6, <3>1, <3>3
  <2>7. CASE Same(i - 1) /\ Len(s.rest) < 2
    <3>1. IsPrefix(s.entries, f.entries)
      BY <1>8, <2>1, <2>7, PrefixIs
    <3>2. QED
      BY <2>6, <2>7, <3>1
  <2>8. CASE Same(i - 1) /\ ~(Len(s.rest) < 2)
    <3> DEFINE t == ReadEntry(s)
    <3>1. Len(s.rest) \in Nat /\ Len(s.rest) >= 2 /\ s.rest \in Seq(Byte)
      BY <1>8, <2>1, <2>8
    <3>2. C[i] = t /\ t.status = "ok"
      BY <2>2, <2>3, <2>4, <3>1, TurnIs
    <3>3. f.status = "ok" /\ f.entries = s.entries /\ f.rest = s.rest \o d
      BY <2>8
    <3>4. Len(f.rest) >= 2
      <4>1. Len(s.rest \o d) = Len(s.rest) + Len(d) /\ Len(d) \in Nat
        BY <3>1, ConcatProperties
      <4>2. QED
        BY <3>1, <3>3, <4>1
    <3>5. F[i] = ReadEntry(f)
      BY <2>3, <3>3, <3>4, TurnIs
    <3> HIDE DEF s, f, t
    <3>6. /\ ReadEntry(f).status = "ok" /\ ReadEntry(f).entries = t.entries
          /\ ReadEntry(f).rest = t.rest \o d
      BY <2>3, <2>4, <3>2, <3>3, ReadEntryExtends DEF t
    <3>7. QED
      BY <3>2, <3>5, <3>6
  <2>9. QED
    BY <2>5, <2>6, <2>7, <2>8
<1> HIDE DEF T
<1>12. m \in T
  <2>1. \A i \in 0..m : i \in T
    BY <1>1, <1>10, <1>11, TurnInduction
  <2>2. QED
    BY <1>1, <2>1
<1>13. IsPrefix(C[m].entries, F[m].entries)
  <2>1. Same(m) \/ Done(m)
    BY <1>6, <1>12 DEF T
  <2>2. m \in 0..m /\ m \in 0..n
    BY <1>1
  <2>3. C[m].entries \in Seq(Entry)
    BY <1>8, <2>2
  <2>4. CASE Same(m)
    BY <2>3, <2>4, PrefixIs
  <2>5. QED
    BY <2>1, <2>4
<1>14. IsPrefix(F[m].entries, F[n].entries)
  <2> DEFINE N == n - m
             U == {i \in 0..N : IsPrefix(F[m].entries, F[m + i].entries)}
  <2>1. N \in Nat
    BY <1>1
  <2>2. 0 \in U
    <3>1. m \in 0..n /\ m + 0 = m
      BY <1>1
    <3>2. IsPrefix(F[m].entries, F[m].entries)
      BY <1>8, <3>1, PrefixIs
    <3>3. QED
      BY <2>1, <3>1, <3>2
  <2>3. ASSUME NEW i \in 1..N, i - 1 \in U PROVE i \in U
    <3>1. m + i \in 1..n /\ m + (i - 1) = (m + i) - 1 /\ i \in 0..N
          /\ m \in 0..n /\ m + i \in 0..n /\ (m + i) - 1 \in 0..n
      BY <1>1
    <3>2. IsPrefix(F[(m + i) - 1].entries, F[m + i].entries)
      BY <1>7, <3>1
    <3>3. IsPrefix(F[m].entries, F[(m + i) - 1].entries)
      BY <2>3, <3>1
    <3>4. IsPrefix(F[m].entries, F[m + i].entries)
      BY <1>8, <1>9, <3>1, <3>2, <3>3
    <3>5. QED
      BY <3>1, <3>4
  <2> HIDE DEF U, N
  <2>4. \A i \in 0..N : i \in U
    BY <2>1, <2>2, <2>3, TurnInduction
  <2>5. N \in U
    BY <2>1, <2>4
  <2>6. m + N = n
    BY <1>1 DEF N
  <2>7. QED
    BY <2>5, <2>6 DEF U
<1>15. IsPrefix(C[m].entries, F[n].entries)
  <2>1. m \in 0..m /\ m \in 0..n /\ n \in 0..n
    BY <1>1
  <2>2. QED
    BY <1>8, <1>9, <1>13, <1>14, <2>1
<1>16. QED
  BY <1>6, <1>15 DEF e

-----------------------------------------------------------------------------
(* A stream that is written and read.                                      *)

(* An entry takes two bytes or more.                                       *)
LEMMA PutEntryType ==
    ASSUME NEW e \in Entry
    PROVE  PutEntry(e) \in Seq(Byte) /\ Len(PutEntry(e)) >= 2
<1> DEFINE t == PutCompactSize(e.typ)
           l == PutCompactSize(Len(e.value))
           v == e.value
<1>1. e.typ \in U64 /\ Len(e.value) \in U64 /\ v \in Seq(Byte)
  BY DEF Entry, Buffer
<1>2. /\ t \in Seq(Byte) /\ Len(t) >= 1 /\ Len(t) \in Nat
      /\ l \in Seq(Byte) /\ Len(l) >= 1 /\ Len(l) \in Nat
      /\ Len(v) \in Nat
  BY <1>1, PutCompactSizeType
<1>3. PutEntry(e) = (t \o l) \o v
  BY DEF PutEntry
<1> HIDE DEF t, l, v
<1>4. t \o l \in Seq(Byte) /\ Len(t \o l) = Len(t) + Len(l)
  BY <1>2, ConcatProperties
<1> DEFINE tl == t \o l
<1> HIDE DEF tl
<1>5. tl \in Seq(Byte) /\ Len(tl) = Len(t) + Len(l)
  BY <1>4 DEF tl
<1>6. tl \o v \in Seq(Byte) /\ Len(tl \o v) = Len(tl) + Len(v)
  BY <1>1, <1>5, ConcatProperties
<1>7. QED
  BY <1>2, <1>3, <1>5, <1>6 DEF tl

(* An entry is read as it was written, whatever follows.                   *)
LEMMA EntryRoundTrip ==
    ASSUME NEW e \in Entry, NEW r \in Seq(Byte), NEW s,
           s.rest = PutEntry(e) \o r
    PROVE  ReadEntry(s) = [status |-> "ok", entries |-> Append(s.entries, e),
                           rest |-> r]
<1> DEFINE t == PutCompactSize(e.typ)
           l == PutCompactSize(Len(e.value))
           v == e.value
<1>1. e.typ \in U64 /\ Len(v) \in U64 /\ v \in Seq(Byte)
  BY DEF Entry, Buffer
<1>2. t \in Seq(Byte) /\ l \in Seq(Byte)
  BY <1>1, PutCompactSizeType
<1>3. s.rest = ((t \o l) \o v) \o r
  BY DEF PutEntry
<1> DEFINE vr == v \o r
           lvr == l \o vr
<1>4. vr \in Seq(Byte) /\ lvr \in Seq(Byte)
  <2>1. vr \in Seq(Byte)
    BY <1>1, ConcatProperties
  <2> HIDE DEF vr
  <2>2. QED
    BY <1>2, <2>1, ConcatProperties
<1>5. s.rest = t \o lvr
  <2> HIDE DEF t, l, v
  <2>1. t \o l \in Seq(Byte)
    BY <1>2, ConcatProperties
  <2>2. ((t \o l) \o v) \o r = (t \o l) \o (v \o r)
    <3> DEFINE tl == t \o l
    <3> HIDE DEF tl
    <3>1. tl \in Seq(Byte)
      BY <2>1 DEF tl
    <3>2. (tl \o v) \o r = tl \o (v \o r)
      BY <1>1, <3>1, ConcatAssociative
    <3>3. QED
      BY <3>2 DEF tl
  <2> HIDE DEF vr
  <2>3. (t \o l) \o vr = t \o (l \o vr)
    BY <1>2, <1>4, ConcatAssociative
  <2>4. QED
    BY <1>3, <2>2, <2>3 DEF vr
<1> DEFINE typ   == GetCompactSize(s.rest)
           len   == GetCompactSize(typ.rest)
           value == Value(len.rest, len.value)
           entry == [typ |-> typ.value, value |-> value.value]
<1>6. typ = [status |-> "ok", value |-> e.typ, rest |-> lvr]
  <2> HIDE DEF lvr
  <2>1. QED
    BY <1>1, <1>4, <1>5, CompactSizeRoundTrip
<1> HIDE DEF typ
<1>7. typ.status = "ok" /\ typ.value = e.typ /\ typ.rest = l \o vr
  BY <1>6
<1>8. len = [status |-> "ok", value |-> Len(v), rest |-> vr]
  <2>1. GetCompactSize(l \o vr) =
            [status |-> "ok", value |-> Len(v), rest |-> vr]
    <3> HIDE DEF vr
    <3>1. QED
      BY <1>1, <1>4, CompactSizeRoundTrip
  <2>2. QED
    BY <1>7, <2>1
<1> HIDE DEF len
<1>9. len.status = "ok" /\ len.value = Len(v) /\ len.rest = v \o r
  BY <1>8
<1>10. value = [status |-> "ok", value |-> v, rest |-> r]
  <2>1. /\ Len(v \o r) = Len(v) + Len(r) /\ SubSeq(v \o r, 1, Len(v)) = v
        /\ Suffix(v \o r, Len(v)) = r
    BY <1>1, ConcatBytes
  <2>2. Len(v) \in Nat /\ Len(r) \in Nat
    BY <1>1
  <2>3. ~(Len(v) > Len(v \o r))
    BY <2>1, <2>2
  <2>4. QED
    BY <1>9, <2>1, <2>3 DEF Value
<1> HIDE DEF value
<1>11. value.status = "ok" /\ value.value = v /\ value.rest = r
  BY <1>10
<1>12. entry = e
  BY <1>7, <1>11 DEF Entry
<1> HIDE DEF entry
<1>13. ReadEntry(s) = [status |-> "ok", entries |-> Append(s.entries, entry),
                       rest |-> value.rest]
  BY <1>7, <1>9, <1>11 DEF ReadEntry, entry, value, len, typ
<1>14. QED
  BY <1>11, <1>12, <1>13

(* What the loop of to_bytes goes through.                                 *)
IsWriting(b, es) ==
    /\ b[0] = <<>>
    /\ \A i \in 1..Len(es) : b[i] = b[i - 1] \o PutEntry(es[i])
    /\ \A i \in 0..Len(es) : b[i] \in Seq(Byte) /\ Len(b[i]) >= i
    /\ ToBytes(es) = b[Len(es)]

(* The loop of to_bytes appends the entries one by one.                    *)
LEMMA ToBytesLoop ==
    ASSUME NEW es \in Seq(Entry)
    PROVE  \E b : IsWriting(b, es)
<1> DEFINE n == Len(es)
           D == Seq(Byte)
           step == [x \in (1..n) \X D |-> x[2] \o PutEntry(es[x[1]])]
           first == <<>>
           Eq(f) == f = [i \in 0..n |->
                           IF i = 0 THEN first
                                         ELSE f[i - 1] \o PutEntry(es[i])]
           b == CHOOSE f : Eq(f)
<1>1. n \in Nat /\ <<>> \in D
  OBVIOUS
<1>2. \A i \in 1..n : PutEntry(es[i]) \in D /\ Len(PutEntry(es[i])) >= 2
  <2> TAKE i \in 1..n
  <2>1. es[i] \in Entry
    OBVIOUS
  <2>2. QED
    BY <2>1, PutEntryType
<1>3. ASSUME NEW x \in D, NEW i \in 1..n
      PROVE  /\ x \o PutEntry(es[i]) \in D
             /\ Len(x \o PutEntry(es[i])) >= Len(x) + 2
  <2> DEFINE p == PutEntry(es[i])
  <2>1. p \in D /\ Len(p) >= 2 /\ Len(p) \in Nat /\ Len(x) \in Nat
    BY <1>2
  <2> HIDE DEF p
  <2>2. x \o p \in D /\ Len(x \o p) = Len(x) + Len(p)
    BY <2>1, ConcatProperties
  <2>3. x \o p \in D /\ Len(x \o p) >= Len(x) + 2
    BY <2>1, <2>2
  <2>4. QED
    BY <2>3 DEF p
<1> HIDE DEF D
<1>4. IsStep(step, n, D)
  <2> HIDE DEF n
  <2>1. \A x \in (1..n) \X D : x[2] \o PutEntry(es[x[1]]) \in D
    BY <1>3
  <2>2. QED
    BY <2>1 DEF IsStep
<1>5. PICK g : IsLoop(g, n, D, first, step)
  <2>1. first \in D
    BY DEF D
  <2> HIDE DEF step, n, first
  <2>2. QED
    BY <1>1, <1>4, <2>1, LoopExists
<1>6. \A i \in 1..n : g[i] = g[i - 1] \o PutEntry(es[i])
  <2> TAKE i \in 1..n
  <2>1. g[i - 1] \in D
    BY <1>1, <1>5 DEF IsLoop
  <2> HIDE DEF n
  <2>2. QED
    BY <1>5, <2>1 DEF IsLoop
<1>7. Eq(g)
  <2> DEFINE put(x, i) == x \o PutEntry(es[i])
  <2>1. \A i \in 1..n : g[i] = put(g[i - 1], i)
    BY <1>6
  <2> HIDE DEF step, n, first, put
  <2>2. g \in [0..n -> D] /\ g[0] = first
    BY <1>5 DEF IsLoop
  <2>3. g = [i \in 0..n |-> IF i = 0 THEN first ELSE put(g[i - 1], i)]
    BY <1>1, <2>1, <2>2
  <2>4. QED
    BY <2>3 DEF put
<1>8. Eq(b)
  <2> HIDE DEF Eq
  <2>1. QED
    BY <1>7
<1>9. ToBytes(es) = b[n]
  BY DEF ToBytes
<1> HIDE DEF b, n
<1>10. b[0] = <<>> /\ \A i \in 1..n : b[i] = b[i - 1] \o PutEntry(es[i])
  <2> HIDE DEF first
  <2>1. b[0] = first /\ \A i \in 1..n : b[i] = b[i - 1] \o PutEntry(es[i])
    BY <1>1, <1>8
  <2>2. QED
    BY <2>1 DEF first
<1>11. \A i \in 0..n : b[i] \in D /\ Len(b[i]) >= i
  <2> DEFINE T == {i \in 0..n : b[i] \in D /\ Len(b[i]) >= i}
  <2>1. 0 \in T
    <3>1. <<>> \in D /\ Len(<<>>) = 0 /\ 0 \in 0..n
      BY <1>1 DEF D
    <3>2. QED
      BY <1>10, <3>1
  <2>2. ASSUME NEW i \in 1..n, i - 1 \in T PROVE i \in T
    <3>1. b[i - 1] \in D /\ Len(b[i - 1]) >= i - 1
      BY <2>2
    <3>2. b[i] \in D /\ Len(b[i]) >= Len(b[i - 1]) + 2
      BY <1>3, <1>10, <3>1
    <3>3. Len(b[i - 1]) \in Nat /\ Len(b[i]) \in Nat
      BY <3>1, <3>2 DEF D
    <3>4. QED
      BY <3>1, <3>2, <3>3
  <2> HIDE DEF T
  <2>3. \A i \in 0..n : i \in T
    BY <1>1, <2>1, <2>2, TurnInduction
  <2>4. QED
    BY <2>3 DEF T
<1>12. QED
  BY <1>9, <1>10, <1>11 DEF n, D, IsWriting

(* A stream of any entries is read as it was written: from_bytes of what   *)
(* to_bytes makes of it gives these entries, whatever their types, lengths *)
(* and values.                                                             *)
THEOREM StreamRoundTrip ==
    ASSUME NEW es \in Seq(Entry)
    PROVE  FromBytes(ToBytes(es)) = Stream(es) /\ ToBytes(es) \in Seq(Byte)
<1> DEFINE n == Len(es)
           bytes == ToBytes(es)
           m == Len(bytes)
<1>1. PICK b : IsWriting(b, es)
  BY ToBytesLoop
<1>2. /\ n \in Nat /\ b[0] = <<>>
      /\ \A i \in 1..n : b[i] = b[i - 1] \o PutEntry(es[i])
      /\ \A i \in 0..n : b[i] \in Seq(Byte) /\ Len(b[i]) >= i
      /\ bytes = b[n] /\ n \in 0..n
  <2>1. n \in Nat /\ n \in 0..n
    OBVIOUS
  <2> HIDE DEF n
  <2>2. QED
    BY <1>1, <2>1 DEF IsWriting, n
<1>3. bytes \in Seq(Byte) /\ m \in Nat /\ m >= n
  BY <1>2
<1>4. PICK F : IsReading(F, bytes)
  BY <1>3, FromBytesLoop
<1>5. /\ F[0] = [status |-> "ok", entries |-> <<>>, rest |-> bytes]
      /\ \A i \in 1..m : F[i] = Turn(F[i - 1])
      /\ \A i \in 0..m : F[i] \in State
      /\ FromBytes(bytes) = IF F[m].status = "ok" THEN Stream(F[m].entries)
                            ELSE Failed(F[m].status)
  BY <1>4 DEF IsReading
<1> HIDE DEF n, m, bytes
<1>6. \A i \in 1..n : es[i] \in Entry
  BY DEF n
(* What was written is the beginning of all that is written.               *)
<1>7. \A i \in 0..n : \E r \in Seq(Byte) : bytes = b[i] \o r
  <2> DEFINE U == {k \in 0..n : \E r \in Seq(Byte) : bytes = b[n - k] \o r}
  <2>1. 0 \in U
    <3>1. bytes = b[n - 0] \o <<>> /\ <<>> \in Seq(Byte)
      BY <1>2, <1>3, ConcatEmptySeq
    <3>2. n - 0 = n /\ 0 \in 0..n
      BY <1>2
    <3>3. \E r \in Seq(Byte) : bytes = b[n - 0] \o r
      BY <3>1
    <3>4. QED
      BY <3>2, <3>3
  <2>2. ASSUME NEW k \in 1..n, k - 1 \in U PROVE k \in U
    <3>1. n - (k - 1) \in 1..n /\ (n - (k - 1)) - 1 = n - k /\ n - k \in 0..n
      BY <1>2
    <3> DEFINE p == PutEntry(es[n - (k - 1)])
    <3>2. PICK r \in Seq(Byte) : bytes = b[n - (k - 1)] \o r
      BY <2>2
    <3>3. p \in Seq(Byte) /\ b[n - k] \in Seq(Byte)
      BY <1>2, <1>6, <3>1, PutEntryType
    <3>4. b[n - (k - 1)] = b[n - k] \o p
      BY <1>2, <3>1
    <3> HIDE DEF p
    <3> DEFINE a == b[n - k]
    <3> HIDE DEF a
    <3>5. a \in Seq(Byte) /\ bytes = (a \o p) \o r
      BY <3>2, <3>3, <3>4 DEF a
    <3>6. (a \o p) \o r = a \o (p \o r) /\ p \o r \in Seq(Byte)
      BY <3>3, <3>5, ConcatAssociative, ConcatProperties
    <3>7. \E q \in Seq(Byte) : bytes = a \o q
      BY <3>5, <3>6
    <3>8. k \in 0..n
      BY <1>2
    <3>9. QED
      BY <3>7, <3>8 DEF a
  <2> HIDE DEF U
  <2>3. \A k \in 0..n : k \in U
    BY <1>2, <2>1, <2>2, TurnInduction
  <2>4. TAKE i \in 0..n
  <2>5. n - i \in U /\ n - (n - i) = i
    BY <1>2, <2>3
  <2>6. QED
    BY <2>5 DEF U
(* After so many turns the first entries have been read and what follows   *)
(* them remains.                                                           *)
<1> DEFINE T == {i \in 0..n :
                   /\ F[i].status = "ok" /\ Len(F[i].entries) = i
                   /\ \A j \in 1..i : F[i].entries[j] = es[j]
                   /\ bytes = b[i] \o F[i].rest}
<1>8. 0 \in T
  <2>1. bytes = b[0] \o bytes
    BY <1>2, <1>3, ConcatEmptySeq
  <2>2. F[0].status = "ok" /\ F[0].entries = <<>> /\ F[0].rest = bytes
    BY <1>5
  <2>3. Len(F[0].entries) = 0 /\ bytes = b[0] \o F[0].rest
    BY <2>1, <2>2
  <2>4. \A j \in 1..0 : F[0].entries[j] = es[j]
    OBVIOUS
  <2>5. 0 \in 0..n
    BY <1>2
  <2>6. QED
    BY <2>2, <2>3, <2>4, <2>5
<1>9. ASSUME NEW i \in 1..n, i - 1 \in T PROVE i \in T
  <2> DEFINE s == F[i - 1]
             a == b[i - 1]
             e == es[i]
             p == PutEntry(e)
  <2>1. i - 1 \in 0..n /\ i - 1 \in 0..m /\ i \in 1..m /\ i \in 0..n
    BY <1>2, <1>3
  <2>2. /\ s.status = "ok" /\ Len(s.entries) = i - 1
        /\ \A j \in 1..(i - 1) : s.entries[j] = es[j]
        /\ bytes = a \o s.rest
    BY <1>9
  <2>3. s \in State /\ F[i] = Turn(s) /\ e \in Entry /\ b[i] = a \o p
        /\ a \in Seq(Byte)
    BY <1>2, <1>5, <1>6, <2>1
  <2>4. PICK r \in Seq(Byte) : bytes = b[i] \o r
    BY <1>7, <2>1
  <2>5. p \in Seq(Byte) /\ Len(p) >= 2
    BY <2>3, PutEntryType
  <2> HIDE DEF s, a, e, p
  <2>6. s.rest \in Seq(Byte) /\ s.entries \in Seq(Entry)
    BY <2>3 DEF State
  <2>7. s.rest = p \o r
    <3>1. bytes = a \o (p \o r)
      <4>1. bytes = (a \o p) \o r
        BY <2>3, <2>4
      <4>2. a \in Seq(Byte) /\ p \in Seq(Byte) /\ r \in Seq(Byte)
        BY <2>3, <2>5
      <4> HIDE DEF T
      <4>3. (a \o p) \o r = a \o (p \o r)
        BY <4>2, ConcatAssociative
      <4>4. QED
        BY <4>1, <4>3
    <3>2. p \o r \in Seq(Byte)
      BY <2>5, ConcatProperties
    <3>3. a \o s.rest = a \o (p \o r)
      BY <2>2, <3>1
    <3> DEFINE pr == p \o r
    <3> HIDE DEF pr
    <3>4. a \o s.rest = a \o pr /\ pr \in Seq(Byte)
      BY <3>2, <3>3 DEF pr
    <3>5. s.rest = pr
      BY <2>3, <2>6, <3>4, ConcatSimplifications
    <3>6. QED
      BY <3>5 DEF pr
  <2>8. Len(s.rest) >= 2
    <3>1. Len(p \o r) = Len(p) + Len(r) /\ Len(r) \in Nat /\ Len(p) \in Nat
      BY <2>5, ConcatProperties
    <3>2. QED
      BY <2>5, <2>7, <3>1
  <2>9. F[i] = [status |-> "ok", entries |-> Append(s.entries, e), rest |-> r]
    <3>1. F[i] = ReadEntry(s)
      BY <2>2, <2>3, <2>8, TurnIs
    <3>2. s.rest = PutEntry(e) \o r
      BY <2>7 DEF p
    <3>3. QED
      BY <2>3, <3>1, <3>2, EntryRoundTrip
  <2>10. /\ Len(Append(s.entries, e)) = Len(s.entries) + 1
         /\ \A j \in 1..Len(s.entries) :
                Append(s.entries, e)[j] = s.entries[j]
         /\ Append(s.entries, e)[Len(s.entries) + 1] = e
    BY <2>3, <2>6, AppendProperties
  <2>11. F[i].status = "ok" /\ F[i].entries = Append(s.entries, e)
         /\ F[i].rest = r
    BY <2>9
  <2>12. Len(F[i].entries) = i
    BY <2>2, <2>10, <2>11
  <2>13. \A j \in 1..i : F[i].entries[j] = es[j]
    <3> TAKE j \in 1..i
    <3>1. CASE j = i
      <4>1. Append(s.entries, e)[i] = e
        BY <2>2, <2>10
      <4>2. QED
        BY <2>11, <3>1, <4>1 DEF e
    <3>2. CASE j # i
      <4>1. j \in 1..(i - 1)
        BY <3>2
      <4>2. QED
        BY <2>2, <2>10, <2>11, <4>1
    <3>3. QED
      BY <3>1, <3>2
  <2>14. QED
    BY <2>1, <2>4, <2>11, <2>12, <2>13
<1> HIDE DEF T
<1>10. n \in T
  <2>1. \A i \in 0..n : i \in T
    BY <1>2, <1>8, <1>9, TurnInduction
  <2>2. QED
    BY <1>2, <2>1
<1>11. F[n].status = "ok" /\ F[n].entries = es /\ F[n].rest = <<>>
  <2>1. F[n] \in State
    BY <1>2, <1>3, <1>5
  <2>2. /\ F[n].status = "ok" /\ Len(F[n].entries) = n
        /\ \A j \in 1..n : F[n].entries[j] = es[j]
        /\ bytes = b[n] \o F[n].rest
    BY <1>10 DEF T
  <2>3. F[n].entries \in Seq(Entry) /\ F[n].rest \in Seq(Byte)
    BY <2>1 DEF State
  <2>4. F[n].entries = es
    BY <2>2, <2>3, SameSequence DEF n
  <2>5. F[n].rest = <<>>
    <3> DEFINE r == F[n].rest
    <3> HIDE DEF r
    <3>1. bytes \o r = bytes /\ r \in Seq(Byte)
      BY <1>2, <2>2, <2>3 DEF r
    <3>2. r = <<>>
      BY <1>3, <3>1, ConcatEqualIffEmpty
    <3>3. QED
      BY <3>2 DEF r
  <2>6. QED
    BY <2>2, <2>4, <2>5
(* The turns that remain read nothing.                                     *)
<1>12. F[m] = F[n]
  <2> DEFINE N == m - n
             U == {k \in 0..N : F[n + k] = F[n]}
  <2>1. N \in Nat
    BY <1>2, <1>3
  <2>2. 0 \in U
    BY <1>2, <2>1
  <2>3. ASSUME NEW k \in 1..N, k - 1 \in U PROVE k \in U
    <3>1. n + k \in 1..m /\ n + (k - 1) = (n + k) - 1
          /\ k \in 0..N /\ n \in 0..m
      BY <1>2, <1>3
    <3>2. F[(n + k) - 1] = F[n]
      BY <2>3, <3>1
    <3>3. F[n + k] = Turn(F[n])
      BY <1>5, <3>1, <3>2
    <3>4. Turn(F[n]) = F[n]
      <4>1. F[n] \in State /\ Len(F[n].rest) < 2
        BY <1>5, <1>11, <3>1
      <4>2. QED
        BY <4>1, TurnIs
    <3>5. QED
      BY <3>1, <3>3, <3>4
  <2> HIDE DEF U, N
  <2>4. \A k \in 0..N : k \in U
    BY <2>1, <2>2, <2>3, TurnInduction
  <2>5. N \in U /\ n + N = m
    <3>1. N \in U
      BY <2>1, <2>4
    <3>2. QED
      BY <1>2, <1>3, <3>1 DEF N
  <2>6. QED
    BY <2>5 DEF U
<1>13. FromBytes(bytes) = Stream(es)
  BY <1>5, <1>11, <1>12
<1>14. QED
  BY <1>3, <1>13 DEF bytes

-----------------------------------------------------------------------------
(* The properties.                                                         *)

(* The metadata of an HTLC is a buffer in every state.                     *)
LEMMA MetadataIsBuffer == Spec => [](metadata \in Buffer)
<1>1. Init => metadata \in Buffer
  BY HtlcPayloadAssumption DEF Init
<1>2. metadata \in Buffer /\ [Next]_vars => (metadata \in Buffer)'
  <2>1. SUFFICES ASSUME metadata \in Buffer, [Next]_vars
                 PROVE  metadata' \in Buffer
    OBVIOUS
  <2>2. CASE StartPayment
    <3>1. 0 \in U64
      BY WidthsType, ValuesDef DEF U64
    <3>2. <<>> \in Buffer
      BY <3>1 DEF Buffer
    <3>3. QED
      BY <2>2, <3>2 DEF StartPayment
  <2>3. CASE ContinueForward \/ ContinueHtlc \/ Panic \/ UNCHANGED vars
    BY <2>1, <2>3 DEF ContinueForward, ContinueHtlc, Panic, vars
  <2>4. CASE \E amount \in Amounts : Receive(amount)
    BY <2>1, <2>4 DEF Receive
  <2>5. QED
    BY <2>1, <2>2, <2>3, <2>4 DEF Next
<1>3. QED
  BY <1>1, <1>2, PTL DEF Spec

(* What from_bytes accepted says the same after to_bytes, for streams of   *)
(* any length: also if the stream was not in the shortest form.            *)
THEOREM StreamIsRewrittenTheSame == Spec => []RewrittenSaysTheSame
<1>1. metadata \in Buffer => RewrittenSaysTheSame
  <2>1. SUFFICES ASSUME metadata \in Seq(Byte),
                        FromBytes(metadata).status = "ok"
                 PROVE  FromBytes(ToBytes(FromBytes(metadata).entries))
                            = FromBytes(metadata)
    BY DEF RewrittenSaysTheSame, Buffer
  <2> DEFINE es == FromBytes(metadata).entries
  <2>2. es \in Seq(Entry) /\ FromBytes(metadata) = Stream(es)
    BY <2>1, FromBytesType
  <2> HIDE DEF es
  <2>3. FromBytes(ToBytes(es)) = Stream(es)
    BY <2>2, StreamRoundTrip
  <2>4. QED
    BY <2>2, <2>3 DEF es
<1>2. QED
  BY <1>1, MetadataIsBuffer, PTL

(* A stream that ends too early is refused by from_bytes or loses entries  *)
(* at its end; it never has another entry in their place.                  *)
THEOREM CutStreamLosesTheEnd == Spec => []CutStreamIsPrefix
<1>1. metadata \in Buffer => CutStreamIsPrefix
  <2>1. SUFFICES ASSUME metadata \in Seq(Byte),
                        FromBytes(metadata).status = "ok",
                        NEW k \in 0..Len(metadata),
                        FromBytes(SubSeq(metadata, 1, k)).status = "ok"
                 PROVE  IsPrefix(FromBytes(SubSeq(metadata, 1, k)).entries,
                                 FromBytes(metadata).entries)
    BY DEF CutStreamIsPrefix, Buffer
  <2> DEFINE c == SubSeq(metadata, 1, k)
             d == Suffix(metadata, k)
  <2>2. c \in Seq(Byte) /\ d \in Seq(Byte) /\ metadata = c \o d
    BY <2>1, CutBytes
  <2>3. FromBytes(c).status = "ok" /\ FromBytes(c \o d).status = "ok"
    BY <2>1, <2>2
  <2> HIDE DEF c, d
  <2>4. IsPrefix(FromBytes(c).entries, FromBytes(c \o d).entries)
    BY <2>2, <2>3, CutIsPrefix
  <2>5. IsPrefix(FromBytes(c).entries, FromBytes(metadata).entries)
    BY <2>2, <2>4
  <2>6. QED
    BY <2>5 DEF c
<1>2. QED
  BY <1>1, MetadataIsBuffer, PTL

(* try_from skips the length in front, of one byte or with a marker.       *)
THEOREM PrefixIsSkippedWhole == Spec => []PrefixIsSkipped
<1>1. metadata \in Buffer => PrefixIsSkipped
  <2>1. SUFFICES ASSUME metadata \in Seq(Byte), Len(metadata) \in U64
                 PROVE  TryFrom(Prefixed(metadata)) = FromBytes(metadata)
    BY DEF PrefixIsSkipped, Buffer
  <2> DEFINE p == PutCompactSize(Len(metadata))
             b == p \o metadata
  <2>2. GetCompactSize(b) = [status |-> "ok", value |-> Len(metadata),
                             rest |-> metadata]
    BY <2>1, CompactSizeRoundTrip
  <2>3. p \in Seq(Byte) /\ Len(p) >= 1
    BY <2>1, PutCompactSizeType
  <2>4. b # <<>>
    <3> HIDE DEF p
    <3>1. Len(p \o metadata) = Len(p) + Len(metadata)
      BY <2>1, <2>3, ConcatProperties
    <3>2. Len(p \o metadata) # 0
      BY <2>1, <2>3, <3>1
    <3>3. QED
      BY <3>2
  <2>5. Prefixed(metadata) = b
    BY DEF Prefixed
  <2> HIDE DEF b
  <2>6. QED
    BY <2>2, <2>4, <2>5 DEF TryFrom
<1>2. QED
  BY <1>1, MetadataIsBuffer, PTL

(* The payload of an HTLC without its metadata is the other entries.       *)
LEMMA PayloadWithoutMetadata ==
    /\ HasEntry(Payload, TlvPaymentMetadata)
    /\ RemoveEntry(Payload, TlvPaymentMetadata) = Others
    /\ GetEntry(Payload, TlvPaymentMetadata) = metadata
<1> DEFINE a == Others[1]
           b == Others[2]
           e == [typ |-> TlvPaymentMetadata, value |-> metadata]
           p == <<a, e, b>>
           I == {i \in 1..Len(p) : p[i].typ = TlvPaymentMetadata}
<1>1. a \in Entry /\ b \in Entry /\ Others = <<a, b>>
      /\ a.typ # TlvPaymentMetadata /\ b.typ # TlvPaymentMetadata
  <2>1. Others \in Seq(Entry) /\ Len(Others) = 2
        /\ \A i \in 1..2 : Others[i].typ # TlvPaymentMetadata
    BY HtlcPayloadAssumption
  <2>2. 1 \in 1..2 /\ 2 \in 1..2
    OBVIOUS
  <2>3. a \in Entry /\ b \in Entry
    <3>1. Others \in Seq(Entry)
      BY <2>1
    <3>2. \A i \in 1..Len(Others) : Others[i] \in Entry
      BY <3>1
    <3>3. QED
      BY <2>1, <2>2, <3>2
  <2>4. Others = <<a, b>>
    BY <2>1
  <2>5. QED
    BY <2>1, <2>2, <2>3, <2>4
<1>2. e.typ = TlvPaymentMetadata /\ e.value = metadata
  OBVIOUS
<1> HIDE DEF a, b, e
<1>3. Len(p) = 3 /\ p[1] = a /\ p[2] = e /\ p[3] = b
  OBVIOUS
<1>4. I = {2}
  <2> HIDE DEF p
  <2>1. \A i \in 1..3 : i \in {1, 2, 3}
    OBVIOUS
  <2>2. QED
    BY <1>1, <1>2, <1>3, <2>1
<1>5. Position(p, TlvPaymentMetadata) = 2
  <2>1. Position(p, TlvPaymentMetadata) = IF I # {} THEN Min(I) ELSE 0
    BY DEF Position, SelectInSeq
  <2>2. Min({2}) = 2
    BY DEF Min
  <2> HIDE DEF I
  <2>3. QED
    BY <1>4, <2>1, <2>2
<1>6. Payload = p
  BY DEF Payload, a, b, e
<1>7. SubSeq(p, 1, 2 - 1) \o SubSeq(p, 2 + 1, Len(p)) = <<a, b>>
  <2> DEFINE S == {a, b, e}
             x == SubSeq(p, 1, 1)
             y == SubSeq(p, 3, 3)
  <2>1. \A i \in 1..3 : p[i] \in S
    BY <1>3
  <2> HIDE DEF p, S
  <2>2. x \in Seq(S) /\ Len(x) = 1 /\ x[1] = a
    <3>1. \A i \in 1..1 : p[i] \in S
      BY <2>1
    <3>2. x \in Seq(S) /\ Len(x) = 1 /\ \A i \in 1..1 : x[i] = p[1 + i - 1]
      BY <3>1, SubSeqProperties
    <3> HIDE DEF x
    <3>3. QED
      BY <1>3, <3>2
  <2>3. y \in Seq(S) /\ Len(y) = 1 /\ y[1] = b
    <3>1. \A i \in 3..3 : p[i] \in S
      BY <2>1
    <3>2. y \in Seq(S) /\ Len(y) = 1 /\ \A i \in 1..1 : y[i] = p[3 + i - 1]
      BY <3>1, SubSeqProperties
    <3> HIDE DEF y
    <3>3. QED
      BY <1>3, <3>2
  <2>4. 2 - 1 = 1 /\ 2 + 1 = 3
    OBVIOUS
  <2> HIDE DEF x, y
  <2>5. /\ x \o y \in Seq(S) /\ Len(x \o y) = 2
        /\ (x \o y)[1] = a /\ (x \o y)[2] = b
    BY <2>2, <2>3, ConcatProperties
  <2>6. x \o y = <<a, b>>
    <3> DEFINE xy == x \o y
               ab == <<a, b>>
    <3>1. a \in S /\ b \in S
      BY DEF S
    <3>2. ab \in Seq(S) /\ Len(ab) = 2 /\ ab[1] = a /\ ab[2] = b
      BY <3>1
    <3> HIDE DEF xy, ab
    <3>3. xy \in Seq(S) /\ Len(xy) = 2 /\ xy[1] = a /\ xy[2] = b
      BY <2>5 DEF xy
    <3>4. \A i \in 1..2 : i = 1 \/ i = 2
      OBVIOUS
    <3>5. \A i \in 1..Len(xy) : xy[i] = ab[i]
      BY <3>2, <3>3, <3>4
    <3>6. xy = ab
      BY <3>2, <3>3, <3>5, SameSequence
    <3>7. QED
      BY <3>6 DEF xy, ab
  <2>7. QED
    BY <1>3, <2>4, <2>6 DEF x, y
<1> HIDE DEF p
<1>8. HasEntry(p, TlvPaymentMetadata)
  BY <1>5 DEF HasEntry
<1>9. RemoveEntry(p, TlvPaymentMetadata) = Others
  BY <1>1, <1>5, <1>7, <1>8 DEF RemoveEntry, RemoveAt
<1>10. GetEntry(p, TlvPaymentMetadata) = metadata
  BY <1>2, <1>3, <1>5 DEF GetEntry
<1>11. QED
  BY <1>6, <1>8, <1>9, <1>10

(* default_response drops the metadata from a payload and nothing else.    *)
THEOREM OthersAreKept == Spec => []OnlyMetadataIsDropped
<1>1. OnlyMetadataIsDropped
  <2> DEFINE response == DefaultResponse(Payload)
             bytes == ToBytes(Others)
  <2>1. SUFFICES ASSUME response.outcome = "continue"
                 PROVE  \/ response.payload = Unmodified
                        \/ FromBytes(response.payload) = Stream(Others)
    BY DEF OnlyMetadataIsDropped
  <2>2. \/ response = Continue(Unmodified)
        \/ response = Continue(bytes)
        \/ response = [outcome |-> "panic"]
    BY PayloadWithoutMetadata DEF DefaultResponse
  <2>3. FromBytes(bytes) = Stream(Others)
    BY HtlcPayloadAssumption, StreamRoundTrip
  <2> HIDE DEF response, bytes
  <2>4. \/ response.payload = Unmodified
        \/ response.payload = bytes
    BY <2>1, <2>2 DEF Continue
  <2>5. QED
    BY <2>3, <2>4 DEF response
<1>2. QED
  BY <1>1, PTL

(* The value of an entry that is there is a string of bytes.               *)
LEMMA GetEntryType ==
    ASSUME NEW entries \in Seq(Entry), NEW typ, HasEntry(entries, typ)
    PROVE  GetEntry(entries, typ) \in Seq(Byte)
<1> DEFINE I == {i \in 1..Len(entries) : entries[i].typ = typ}
           position == Position(entries, typ)
<1>1. position = IF I # {} THEN Min(I) ELSE 0
  BY DEF Position, SelectInSeq
<1>2. I # {}
  BY <1>1 DEF HasEntry
<1>3. Min(I) \in I
  <2>1. \E x \in I : \A y \in I : x <= y
    <3> DEFINE R == OpToRel(<, Nat)
    <3>1. IsWellFoundedOn(R, Nat)
      BY NatLessThanWellFounded
    <3>2. I \subseteq Nat
      OBVIOUS
    <3> HIDE DEF I, R
    <3>3. PICK x \in I : \A y \in I : ~(<<y, x>> \in R)
      BY <1>2, <3>1, <3>2, WFMin
    <3>4. \A y \in I : ~(y < x)
      BY <3>2, <3>3 DEF R, OpToRel
    <3>5. QED
      BY <3>2, <3>4
  <2> HIDE DEF I
  <2>2. QED
    BY <2>1 DEF Min
<1>4. position \in 1..Len(entries)
  BY <1>1, <1>2, <1>3
<1>5. entries[position] \in Entry
  BY <1>4
<1>6. QED
  BY <1>5 DEF GetEntry, Entry, Buffer

(* A truncated integer fits the type it is read into.                      *)
LEMMA GetTu64Type ==
    ASSUME NEW bytes \in Seq(Byte), GetTu64(bytes).status = "ok"
    PROVE  GetTu64(bytes).value \in Msat
<1> DEFINE f == FromBigEndian(bytes)
           n == Len(bytes)
<1>1. ~(n > Widths[3])
  <2>1. "err" # "ok"
    OBVIOUS
  <2>2. QED
    BY <2>1 DEF GetTu64, Failed
<1>2. GetTu64(bytes).value = f
  BY <1>1 DEF GetTu64
<1>3. n \in 0..Widths[3] /\ Widths[3] \in n..Widths[3] /\ n <= Widths[3]
      /\ Widths[3] \in 0..Widths[3]
  BY <1>1, WidthsType
<1>4. f \in Nat /\ f < Values[n]
  BY <1>3, FromBigEndianBound
<1>5. Values[n] <= Values[Widths[3]] /\ Values[n] \in Nat
      /\ Values[Widths[3]] \in Nat
  BY <1>3, ValuesGrow, ValuesDef
<1> HIDE DEF f, n
<1>6. f <= Values[Widths[3]] - 1
  BY <1>4, <1>5
<1>7. QED
  BY <1>2, <1>4, <1>6, HtlcPayloadAssumption DEF Msat

(* The amount that extract_trampoline_info finds is a u64: get_tu64 takes  *)
(* no more bytes than that.                                                *)
THEOREM AmountFitsTheType == Spec => []AmountFits
<1>1. metadata \in Buffer => AmountFits
  <2> DEFINE info == ExtractTrampolineInfo(Payload)
             stream == FromBytes(metadata)
             es == stream.entries
             name == GetEntry(es, TlvTrampolineInvoice)
             bytes == GetEntry(es, TlvTrampolineAmount)
             tlv == IF HasEntry(es, TlvTrampolineAmount)
                       /\ GetTu64(bytes).status = "ok"
                    THEN GetTu64(bytes).value ELSE NoAmount
  <2>1. SUFFICES ASSUME metadata \in Seq(Byte), info.outcome = "trampoline"
                 PROVE  info.amount \in Msat
    BY DEF AmountFits, Buffer
  <2>2. info = IF stream.status = "panic" THEN Extracted("panic")
               ELSE IF stream.status = "err" THEN Extracted("none")
               ELSE IF ~HasEntry(es, TlvTrampolineInvoice)
                    THEN Extracted("none")
               ELSE IF name \notin DOMAIN ParseInvoice
                    THEN Extracted("invalid")
               ELSE AmountMsat(ParseInvoice[name], tlv)
    BY PayloadWithoutMetadata DEF ExtractTrampolineInfo, InfoInMetadata
  <2>3. stream.status \in Statuses
        /\ (stream.status = "ok" => es \in Seq(Entry))
    BY <2>1, FromBytesType
  <2>4. es \in Seq(Entry) => tlv \in Msat \cup {NoAmount}
    <3> HIDE DEF es
    <3>1. SUFFICES ASSUME es \in Seq(Entry),
                          HasEntry(es, TlvTrampolineAmount),
                          GetTu64(bytes).status = "ok"
                   PROVE  GetTu64(bytes).value \in Msat
      OBVIOUS
    <3>2. bytes \in Seq(Byte)
      BY <3>1, GetEntryType
    <3> HIDE DEF bytes
    <3>3. QED
      BY <3>1, <3>2, GetTu64Type
  <2> HIDE DEF stream, es, name, tlv, info
  <2>5. stream.status = "ok" /\ name \in DOMAIN ParseInvoice
        /\ info = AmountMsat(ParseInvoice[name], tlv)
    BY <2>1, <2>2, <2>3 DEF Extracted, Statuses
  <2>6. ParseInvoice[name] \in Msat \cup {NoAmount}
      /\ tlv \in Msat \cup {NoAmount}
    BY <2>3, <2>4, <2>5, HtlcPayloadAssumption
  <2> DEFINE inv == ParseInvoice[name]
  <2> HIDE DEF inv
  <2>7. info = AmountMsat(inv, tlv) /\ inv \in Msat \cup {NoAmount}
        /\ tlv \in Msat \cup {NoAmount}
    BY <2>5, <2>6 DEF inv
  <2>8. QED
    BY <2>1, <2>7 DEF AmountMsat, Extracted
<1>2. QED
  BY <1>1, MetadataIsBuffer, PTL
=============================================================================
