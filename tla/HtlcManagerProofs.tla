-------------------------- MODULE HtlcManagerProofs --------------------------
(***************************************************************************)
(* Proofs about HtlcManager for every set of HTLCs and every value of the  *)
(* constants.                                                              *)
(***************************************************************************)
EXTENDS HtlcManager, FiniteSetTheorems, TLAPS

-----------------------------------------------------------------------------
(* Type correctness.                                                       *)

(* The locals of a task that has just been spawned, or has ended, have     *)
(* their type; there is a task only if there is an HTLC and its invoice.   *)
LEMMA NewLocalsType ==
    ASSUME NEW i \in Invoice
    PROVE  NewLocals(i) \in Locals
BY DEF NewLocals, Locals, Answer, Failure

(* Handling an HTLC keeps the type of a payment.                           *)
LEMMA AddHtlcType ==
    ASSUME NEW p \in Payment, NEW h \in Htlc
    PROVE  AddHtlc(p, h) \in Payment
<1> DEFINE amount == WrappingAdd(p.amount_received, Amount[h])
           b == BecomesReady(p, amount)
           cltv == Minimum(Expiry[h], p.cltv_expiry)
           htlcs == p.htlcs \cup {h}
           ready == IF b THEN TRUE ELSE p.is_ready
           signal == IF b THEN p.payment_ready + 1 ELSE p.payment_ready
<1>1. AddHtlc(p, h) = [p EXCEPT !.amount_received = amount,
                                !.cltv_expiry = cltv,
                                !.htlcs = htlcs, !.is_ready = ready,
                                !.payment_ready = signal]
  BY DEF AddHtlc
<1>2. Amount[h] \in Nat /\ Expiry[h] \in Nat
  BY HtlcAssumption
<1>3. amount \in Nat /\ cltv \in Nat
  <2>1. amount \in Nat
    BY <1>2, FeePolicyAssumption DEF WrappingAdd, Payment
  <2>2. cltv \in Nat
    BY <1>2 DEF Minimum, Payment
  <2>3. QED
    BY <2>1, <2>2
<1>4. htlcs \in SUBSET Htlc /\ signal \in Nat
  <2> HIDE DEF b
  <2>1. QED
    BY DEF Payment
<1>5. ready \in BOOLEAN
  <2>1. CASE b
    BY <2>1
  <2>2. CASE ~b
    BY <2>2 DEF Payment
  <2>3. QED
    BY <2>1, <2>2
<1> HIDE DEF amount, cltv, htlcs, ready, signal, b
<1>6. QED
  BY <1>1, <1>3, <1>4, <1>5 DEF Payment

LEMMA FailType ==
    ASSUME NEW p \in Payment, NEW f \in Failure \cup {"none"}
    PROVE  Fail(p, f) \in Payment
<1>1. CASE f = "none" \/ p.is_fail_requested
  BY <1>1 DEF Fail
<1>2. CASE ~(f = "none" \/ p.is_fail_requested)
  <2>1. Append(p.fail_requested, f) \in Seq(Failure)
    BY <1>2 DEF Payment
  <2>2. QED
    BY <1>2, <2>1 DEF Fail, Payment
<1>3. QED
  BY <1>1, <1>2

LEMMA FailureOfType ==
    ASSUME NEW p, NEW h
    PROVE  FailureOf(p, h) \in Failure \cup {"none"}
BY DEF FailureOf, Failure

LEMMA NewPaymentType ==
    ASSUME NEW i \in Invoice
    PROVE  NewPayment(i) \in Payment
<1>1. <<>> \in Seq(Failure)
  OBVIOUS
<1>2. U32Max \in Nat
  BY FeePolicyAssumption
<1>3. QED
  BY <1>1, <1>2 DEF NewPayment, Payment

(* The datastore's writes keep the type of the rows.                       *)
LEMMA WritesType ==
    ASSUME NEW s \in Store, NEW a \in Lifecycle \cup {NoLifecycle}
    PROVE  /\ \A st \in PersistState : WriteState(s, st, a) \in Store
           /\ \A i \in AttemptInfo : WriteAttempt(s, a, i) \in Store
<1>1. \A st \in PersistState : WriteState(s, st, a) \in Store
  <2> DEFINE g == IF s.state = "absent" THEN 0 ELSE s.generation + 1
  <2>1. g \in Nat
    BY DEF Store
  <2>2. ASSUME NEW st \in PersistState
        PROVE  WriteState(s, st, a) = [s EXCEPT !.state = st, !.attempt = a,
                                                !.generation = g]
    BY DEF WriteState, Store
  <2> HIDE DEF g
  <2>3. QED
    BY <2>1, <2>2 DEF Store
<1>2. \A i \in AttemptInfo : WriteAttempt(s, a, i) \in Store
  BY DEF WriteAttempt, Store
<1>3. QED
  BY <1>1, <1>2

(* Every step keeps every type.                                            *)
LEMMA TypeInit == Init => TypeOK
<1> SUFFICES ASSUME Init PROVE TypeOK
  OBVIOUS
<1>1. status \in [Htlc -> HtlcStatus] /\ answer \in [Htlc -> Answer]
  BY DEF Init, HtlcStatus, Answer
<1>2. pc \in [Lifecycle -> Step] /\ life \in [Lifecycle -> Locals]
  BY NewLocalsType, InvoiceAssumption DEF Init, Step, DeadLocals
<1>3. store \in Store
  BY DEF Init, EmptyStore, Store, PersistState, AttemptInfo
<1>4. outgoing \in Outgoing
  BY DEF Init, NoOutgoing, Outgoing
<1>5. QED
  BY <1>1, <1>2, <1>3, <1>4 DEF Init, TypeOK

(* Going to a step, or to the resolve.                                     *)
LEMMA GotoType ==
    ASSUME TypeOK, NEW t \in Lifecycle, NEW s \in Step, Goto(t, s)
    PROVE  pc' \in [Lifecycle -> Step]
BY DEF TypeOK, Goto

LEMMA ResolveWithType ==
    ASSUME TypeOK, NEW t \in Lifecycle, NEW r \in Answer,
           NEW n \in {"done", "fail_attempt", "succeed_state"},
           ResolveWith(t, r, n)
    PROVE  pc' \in [Lifecycle -> Step] /\ life' \in [Lifecycle -> Locals]
<1>1. "resolve" \in Step
  BY DEF Step, Active
<1>2. life' \in [Lifecycle -> Locals]
  <2> DEFINE locals == [life[t] EXCEPT !.resp = r, !.then = n]
  <2>1. locals \in Locals
    BY DEF TypeOK, Locals
  <2>2. life' = [life EXCEPT ![t] = locals]
    BY DEF ResolveWith
  <2> HIDE DEF locals
  <2>3. QED
    BY <2>1, <2>2 DEF TypeOK
<1>3. QED
  BY <1>1, <1>2, GotoType DEF ResolveWith

LEMMA FinishType ==
    ASSUME TypeOK, NEW t \in Lifecycle, Finish(t)
    PROVE  pc' \in [Lifecycle -> Step] /\ life' \in [Lifecycle -> Locals]
<1>1. "done" \in Step
  BY DEF Step
<1>2. DeadLocals \in Locals
  BY NewLocalsType, InvoiceAssumption DEF DeadLocals
<1>3. QED
  BY <1>1, <1>2, GotoType DEF Finish, TypeOK

(* Either outcome of a write leaves rows of the right type.                *)
LEMMA WriteOutcomeType ==
    ASSUME TypeOK, NEW allowed, NEW s \in Store,
           Written(allowed, s) \/ WriteFails(allowed, s)
    PROVE  store' \in Store
BY DEF TypeOK, Written, WriteFails

(* Every action keeps every type.  Three of them read the payment from the *)
(* map, which is there because of OneTaskPerPayment.                       *)
LEMMA TypeStep ==
    ASSUME TypeOK, OneTaskPerPayment, [Next]_vars
    PROVE  TypeOK'
<1>1. ASSUME NEW h \in Htlc, AnswerUntouched(h) PROVE TypeOK'
  <2>1. "answered" \in HtlcStatus
    BY DEF HtlcStatus
  <2>2. "continue" \in Answer /\ "temporary_node_failure" \in Answer
    BY DEF Answer, Failure
  <2>3. QED
    BY <1>1, <2>1, <2>2 DEF AnswerUntouched, TypeOK, node
<1>2. ASSUME NEW h \in Htlc, JoinPayment(h) PROVE TypeOK'
  <2>1. payments \in Payment
    BY <1>2 DEF JoinPayment, IsVacant, TypeOK
  <2>2. payments' \in Payment
    BY <1>2, <2>1, FailureOfType, FailType, AddHtlcType DEF JoinPayment
  <2>3. "held" \in HtlcStatus /\ "none" \in Answer
    BY DEF HtlcStatus, Answer
  <2>4. QED
    BY <1>2, <2>2, <2>3 DEF JoinPayment, TypeOK, node
<1>3. ASSUME NEW h \in Htlc, NEW t \in Lifecycle, StartPayment(h, t) PROVE TypeOK'
  <2>1. Info[h] \in Invoice
    BY HtlcAssumption
  <2>2. payments' \in Payment
    BY <1>3, <2>1, NewPaymentType, FailureOfType, FailType, AddHtlcType
       DEF StartPayment
  <2>3. NewLocals(Info[h]) \in Locals
    BY <2>1, NewLocalsType
  <2>4. "held" \in HtlcStatus /\ "none" \in Answer /\ "fetch" \in Step
    BY DEF HtlcStatus, Answer, Step, Active
  <2>5. QED
    BY <1>3, <2>2, <2>3, <2>4 DEF StartPayment, TypeOK, node
<1>4. ASSUME NEW h \in Htlc, CommitAnswer(h) PROVE TypeOK'
  <2>1. {"settled", "continued", "failed"} \subseteq HtlcStatus
    BY DEF HtlcStatus
  <2>2. status' \in [Htlc -> HtlcStatus]
    BY <1>4, <2>1 DEF CommitAnswer, TypeOK
  <2>3. QED
    BY <1>4, <2>2 DEF CommitAnswer, TypeOK, node
<1>5. ASSUME NEW t \in Lifecycle, FetchPayment(t) PROVE TypeOK'
  <2>1. "resolve" \in Answer /\ "temporary_node_failure" \in Answer
    BY DEF Answer, Failure
  <2>2. "select" \in Step /\ "wait_payment" \in Step
    BY DEF Step, Active
  <2>3. CASE FetchPaymentInfo(store) = "pending" /\ Goto(t, "wait_payment")
             /\ life' = [life EXCEPT ![t].attempt = store.attempt,
                                     ![t].generation = store.generation]
    <3> DEFINE locals == [life[t] EXCEPT !.attempt = store.attempt,
                                         !.generation = store.generation]
    <3>1. store.attempt \in Lifecycle \cup {NoLifecycle}
          /\ store.generation \in Nat
      BY DEF TypeOK, Store
    <3>2. locals \in Locals
      BY <3>1 DEF TypeOK, Locals
    <3>3. life' = [life EXCEPT ![t] = locals]
      BY <2>3
    <3> HIDE DEF locals
    <3>4. life' \in [Lifecycle -> Locals]
      BY <3>2, <3>3 DEF TypeOK
    <3>5. pc' \in [Lifecycle -> Step]
      BY <2>2, <2>3, GotoType
    <3>6. QED
      BY <1>5, <3>4, <3>5 DEF FetchPayment, TypeOK, node
  <2>4. CASE Goto(t, "select") /\ UNCHANGED life
    <3>1. pc' \in [Lifecycle -> Step]
      BY <2>2, <2>4, GotoType
    <3>2. QED
      BY <1>5, <2>4, <3>1 DEF FetchPayment, TypeOK, node
  <2>5. CASE \/ ResolveWith(t, "resolve", "done")
             \/ ResolveWith(t, "temporary_node_failure", "done")
    <3>1. pc' \in [Lifecycle -> Step] /\ life' \in [Lifecycle -> Locals]
      BY <2>1, <2>5, ResolveWithType
    <3>2. QED
      BY <1>5, <3>1 DEF FetchPayment, TypeOK, node
  <2>6. QED
    BY <1>5, <2>3, <2>4, <2>5 DEF FetchPayment
<1>6. ASSUME NEW t \in Lifecycle, WaitPayment(t) PROVE TypeOK'
  <2>1. "resolve" \in Answer /\ "recover_attempt" \in Step
        /\ "panicked" \in Step
    BY DEF Answer, Step, Active
  <2>2. pc' \in [Lifecycle -> Step] /\ life' \in [Lifecycle -> Locals]
    BY <1>6, <2>1, GotoType, ResolveWithType
       DEF WaitPayment, WaitPaymentFails, TypeOK
  <2>3. QED
    BY <1>6, <2>2 DEF WaitPayment, TypeOK, node
<1>7. ASSUME NEW t \in Lifecycle, RecoverAttempt(t) PROVE TypeOK'
  <2>1. life[t].attempt \in Lifecycle \cup {NoLifecycle}
    BY DEF TypeOK, Locals
  <2>2. FailAttemptInfo(store, life[t].attempt) \in Store
    BY <2>1, WritesType DEF FailAttemptInfo, AttemptInfo, TypeOK
  <2>3. store' \in Store
    BY <1>7, <2>2, WriteOutcomeType DEF RecoverAttempt
  <2>4. "recover_state" \in Step /\ "temporary_node_failure" \in Answer
    BY DEF Step, Active, Answer, Failure
  <2>5. pc' \in [Lifecycle -> Step] /\ life' \in [Lifecycle -> Locals]
    BY <1>7, <2>4, GotoType, ResolveWithType
       DEF RecoverAttempt, RecoveryFails, TypeOK
  <2>6. QED
    BY <1>7, <2>3, <2>5 DEF RecoverAttempt, TypeOK, node
<1>8. ASSUME NEW t \in Lifecycle, RecoverState(t) PROVE TypeOK'
  <2>1. FreeState(store) \in Store
    BY WritesType DEF FreeState, PersistState, TypeOK
  <2>2. store' \in Store
    BY <1>8, <2>1, WriteOutcomeType DEF RecoverState
  <2>3. "select" \in Step /\ "temporary_node_failure" \in Answer
    BY DEF Step, Active, Answer, Failure
  <2>4. pc' \in [Lifecycle -> Step] /\ life' \in [Lifecycle -> Locals]
    BY <1>8, <2>3, GotoType, ResolveWithType
       DEF RecoverState, RecoveryFails, TypeOK
  <2>5. QED
    BY <1>8, <2>2, <2>4 DEF RecoverState, TypeOK, node
<1>9. ASSUME NEW t \in Lifecycle, TimeOut(t) PROVE TypeOK'
  <2>1. "temporary_trampoline_failure" \in Answer
    BY DEF Answer, Failure
  <2>2. pc' \in [Lifecycle -> Step] /\ life' \in [Lifecycle -> Locals]
    BY <1>9, <2>1, ResolveWithType DEF TimeOut
  <2>3. QED
    BY <1>9, <2>2 DEF TimeOut, TypeOK, node
<1>10. ASSUME NEW t \in Lifecycle, ReceiveFailRequest(t) PROVE TypeOK'
  <2>1. payments \in Payment
    BY <1>10 DEF ReceiveFailRequest, OneTaskPerPayment, Active, TypeOK
  <2>2. /\ Head(payments.fail_requested) \in Answer
        /\ Tail(payments.fail_requested) \in Seq(Failure)
    BY <1>10, <2>1 DEF ReceiveFailRequest, Payment, Answer
  <2>3. payments' \in Payment
    BY <1>10, <2>1, <2>2 DEF ReceiveFailRequest, Payment
  <2>4. pc' \in [Lifecycle -> Step] /\ life' \in [Lifecycle -> Locals]
    BY <1>10, <2>2, ResolveWithType DEF ReceiveFailRequest
  <2>5. QED
    BY <1>10, <2>3, <2>4 DEF ReceiveFailRequest, TypeOK, node
<1>11. ASSUME NEW t \in Lifecycle, ReceivePaymentReady(t) PROVE TypeOK'
  <2>1. payments \in Payment
    BY <1>11 DEF ReceivePaymentReady, OneTaskPerPayment, Active, TypeOK
  <2>2. payments' \in Payment
    BY <1>11, <2>1 DEF ReceivePaymentReady, Payment
  <2>3. "params" \in Step
    BY DEF Step, Active
  <2>4. pc' \in [Lifecycle -> Step]
    BY <1>11, <2>3, GotoType DEF ReceivePaymentReady
  <2>5. QED
    BY <1>11, <2>2, <2>4 DEF ReceivePaymentReady, TypeOK, node
<1>12. ASSUME NEW t \in Lifecycle, ReadParams(t) PROVE TypeOK'
  <2>1. payments \in Payment
    BY <1>12 DEF ReadParams, OneTaskPerPayment, Active, TypeOK
  <2> DEFINE fee == MaxFee(payments.amount_received,
                           InvoiceAmount[life[t].trampoline])
             locals == [life[t] EXCEPT !.max_fee = fee,
                                       !.cltv_expiry = payments.cltv_expiry,
                                       !.backing = payments.htlcs]
  <2>2. fee \in Nat
    <3>1. InvoiceAmount[life[t].trampoline] \in Nat
      BY HtlcAssumption DEF TypeOK, Locals
    <3>2. QED
      BY <2>1, <3>1 DEF MaxFee, SaturatingSub, Payment
  <2> HIDE DEF fee
  <2>3. locals \in Locals
    BY <2>1, <2>2 DEF TypeOK, Locals, Payment
  <2>4. life' = [life EXCEPT ![t] = locals]
    BY <1>12 DEF ReadParams, fee
  <2> HIDE DEF locals
  <2>5. life' \in [Lifecycle -> Locals]
    BY <2>3, <2>4 DEF TypeOK
  <2>6. "height" \in Step
    BY DEF Step, Active
  <2>7. pc' \in [Lifecycle -> Step]
    BY <1>12, <2>6, GotoType DEF ReadParams
  <2>8. QED
    BY <1>12, <2>5, <2>7 DEF ReadParams, TypeOK, node
<1>13. ASSUME NEW t \in Lifecycle, ReadHeight(t) PROVE TypeOK'
  <2> DEFINE delta == MaxCltvDelta(life[t].cltv_expiry, current_height)
             locals == [life[t] EXCEPT !.read_height = current_height,
                                       !.max_cltv_delta = delta]
  <2>1. delta \in Nat
    BY ParamsAssumption
       DEF MaxCltvDelta, Minimum, SaturatingSub, TypeOK, Locals
  <2> HIDE DEF delta
  <2>2. locals \in Locals
    BY <2>1 DEF TypeOK, Locals
  <2>3. life' = [life EXCEPT ![t] = locals]
    BY <1>13 DEF ReadHeight, delta
  <2> HIDE DEF locals
  <2>4. life' \in [Lifecycle -> Locals]
    BY <2>2, <2>3 DEF TypeOK
  <2>5. "add_state" \in Step
    BY DEF Step, Active
  <2>6. pc' \in [Lifecycle -> Step]
    BY <1>13, <2>5, GotoType DEF ReadHeight
  <2>7. QED
    BY <1>13, <2>4, <2>6 DEF ReadHeight, TypeOK, node
<1>14. ASSUME NEW t \in Lifecycle, AddState(t) PROVE TypeOK'
  <2> DEFINE s == AddAttemptState(store, t)
  <2>1. s \in Store
    BY WritesType DEF AddAttemptState, PersistState, TypeOK
  <2> HIDE DEF s
  <2>2. store' \in Store
    BY <1>14, <2>1, WriteOutcomeType DEF AddState, s
  <2>3. "add_attempt" \in Step /\ "temporary_node_failure" \in Answer
    BY DEF Step, Active, Answer, Failure
  <2>4. CASE /\ Goto(t, "add_attempt")
             /\ life' = [life EXCEPT ![t].attempt = t,
                                     ![t].generation = s.generation]
    <3> DEFINE locals == [life[t] EXCEPT !.attempt = t,
                                         !.generation = s.generation]
    <3>1. s.generation \in Nat
      BY <2>1 DEF Store
    <3>2. locals \in Locals
      BY <3>1 DEF TypeOK, Locals
    <3>3. life' = [life EXCEPT ![t] = locals]
      BY <2>4
    <3> HIDE DEF locals
    <3>4. life' \in [Lifecycle -> Locals]
      BY <3>2, <3>3 DEF TypeOK
    <3>5. pc' \in [Lifecycle -> Step]
      BY <2>3, <2>4, GotoType
    <3>6. QED
      BY <1>14, <2>2, <3>4, <3>5 DEF AddState, TypeOK, node
  <2>5. CASE ResolveWith(t, "temporary_node_failure", "done")
    <3>1. pc' \in [Lifecycle -> Step] /\ life' \in [Lifecycle -> Locals]
      BY <2>3, <2>5, ResolveWithType
    <3>2. QED
      BY <1>14, <2>2, <3>1 DEF AddState, TypeOK, node
  <2>6. QED
    BY <1>14, <2>4, <2>5 DEF AddState, s
<1>15. ASSUME NEW t \in Lifecycle, AddAttempt(t) PROVE TypeOK'
  <2>1. AddAttemptInfo(store, t) \in Store
    BY WritesType DEF AddAttemptInfo, AttemptInfo, TypeOK
  <2>2. store' \in Store
    BY <1>15, <2>1, WriteOutcomeType DEF AddAttempt
  <2>3. "pay" \in Step /\ "temporary_node_failure" \in Answer
    BY DEF Step, Active, Answer, Failure
  <2>4. pc' \in [Lifecycle -> Step] /\ life' \in [Lifecycle -> Locals]
    BY <1>15, <2>3, GotoType, ResolveWithType DEF AddAttempt, TypeOK
  <2>5. QED
    BY <1>15, <2>2, <2>4 DEF AddAttempt, TypeOK, node
<1>16. ASSUME NEW t \in Lifecycle, PayReturns(t) PROVE TypeOK'
  <2>1. "resolve" \in Answer /\ "temporary_trampoline_failure" \in Answer
    BY DEF Answer, Failure
  <2>2. pc' \in [Lifecycle -> Step] /\ life' \in [Lifecycle -> Locals]
    BY <1>16, <2>1, ResolveWithType DEF PayReturns
  <2>3. QED
    BY <1>16, <2>2 DEF PayReturns, TypeOK, node
<1>17. ASSUME NEW t \in Lifecycle, Resolve(t) PROVE TypeOK'
  <2>1. life[t].resp \in Answer /\ life[t].then \in Step
    BY DEF TypeOK, Locals, Step, Closing
  <2>2. pc' \in [Lifecycle -> Step] /\ life' \in [Lifecycle -> Locals]
    BY <1>17, <2>1, GotoType, FinishType DEF Resolve, TypeOK
  <2>3. "answered" \in HtlcStatus
    BY DEF HtlcStatus
  <2>4. status' \in [Htlc -> HtlcStatus] /\ answer' \in [Htlc -> Answer]
    BY <1>17, <2>1, <2>3 DEF Resolve, TypeOK
  <2>5. QED
    BY <1>17, <2>2, <2>4 DEF Resolve, TypeOK, node
<1>18. ASSUME NEW t \in Lifecycle, FailAttempt(t) PROVE TypeOK'
  <2>1. life[t].attempt \in Lifecycle \cup {NoLifecycle}
    BY DEF TypeOK, Locals
  <2>2. FailAttemptInfo(store, life[t].attempt) \in Store
    BY <2>1, WritesType DEF FailAttemptInfo, AttemptInfo, TypeOK
  <2>3. store' \in Store
    BY <1>18, <2>2, WriteOutcomeType DEF FailAttempt
  <2>4. pc' \in [Lifecycle -> Step] /\ life' \in [Lifecycle -> Locals]
    BY <1>18, GotoType, FinishType DEF FailAttempt, TypeOK, Step, Closing
  <2>5. QED
    BY <1>18, <2>3, <2>4 DEF FailAttempt, TypeOK, node
<1>19. ASSUME NEW t \in Lifecycle, FailState(t) PROVE TypeOK'
  <2>1. FreeState(store) \in Store
    BY WritesType DEF FreeState, PersistState, TypeOK
  <2>2. store' \in Store
    BY <1>19, <2>1, WriteOutcomeType DEF FailState
  <2>3. pc' \in [Lifecycle -> Step] /\ life' \in [Lifecycle -> Locals]
    BY <1>19, GotoType, FinishType DEF FailState, TypeOK, Step, Closing
  <2>4. QED
    BY <1>19, <2>2, <2>3 DEF FailState, TypeOK, node
<1>20. ASSUME NEW t \in Lifecycle, SucceedPayment(t) PROVE TypeOK'
  <2>1. SucceedState(store) \in Store
    BY WritesType DEF SucceedState, PersistState, TypeOK
  <2>2. store' \in Store
    BY <1>20, <2>1, WriteOutcomeType DEF SucceedPayment
  <2>3. pc' \in [Lifecycle -> Step] /\ life' \in [Lifecycle -> Locals]
    BY <1>20, GotoType, FinishType DEF SucceedPayment, TypeOK, Step, Closing
  <2>4. QED
    BY <1>20, <2>2, <2>3 DEF SucceedPayment, TypeOK, node
<1>21. ASSUME NEW t \in Lifecycle, SucceedAttempt(t) PROVE TypeOK'
  <2>1. life[t].attempt \in Lifecycle \cup {NoLifecycle}
    BY DEF TypeOK, Locals
  <2>2. SucceedAttemptInfo(store, life[t].attempt) \in Store
    BY <2>1, WritesType DEF SucceedAttemptInfo, AttemptInfo, TypeOK
  <2>3. store' \in Store
    BY <1>21, <2>2, WriteOutcomeType DEF SucceedAttempt
  <2>4. pc' \in [Lifecycle -> Step] /\ life' \in [Lifecycle -> Locals]
    BY <1>21, GotoType, FinishType DEF SucceedAttempt, TypeOK, Step, Closing
  <2>5. QED
    BY <1>21, <2>3, <2>4 DEF SucceedAttempt, TypeOK, node
<1>22. ASSUME NEW t \in Lifecycle, SendPart(t) PROVE TypeOK'
  <2> DEFINE spent == InvoiceAmount[life[t].trampoline] + life[t].max_fee
             expiry == height + life[t].max_cltv_delta
             lag == height - life[t].read_height
  <2>1. spent \in Nat /\ expiry \in Nat /\ lag \in Int
    BY HtlcAssumption DEF TypeOK, Locals
  <2>2. life[t].backing \in SUBSET Htlc
    BY DEF TypeOK, Locals
  <2>3. outgoing' = [outgoing EXCEPT !.inflight = TRUE,
                                     !.backing = life[t].backing,
                                     !.spent = spent, !.expiry = expiry,
                                     !.lag = lag]
    BY <1>22 DEF SendPart
  <2> HIDE DEF spent, expiry, lag
  <2>4. outgoing' \in Outgoing
    BY <2>1, <2>2, <2>3 DEF TypeOK, Outgoing
  <2>5. QED
    BY <1>22, <2>4 DEF SendPart, TypeOK, node
<1>23. ASSUME PartSucceeds PROVE TypeOK'
  <2>1. outgoing' \in Outgoing
    BY <1>23 DEF PartSucceeds, TypeOK, Outgoing
  <2>2. QED
    BY <1>23, <2>1 DEF PartSucceeds, TypeOK, node
<1>24. ASSUME PartsFail PROVE TypeOK'
  <2>1. outgoing' \in Outgoing
    <3>1. NoOutgoing \in Outgoing
      BY DEF NoOutgoing, Outgoing
    <3>2. [outgoing EXCEPT !.inflight = FALSE] \in Outgoing
      BY DEF TypeOK, Outgoing
    <3>3. QED
      BY <1>24, <3>1, <3>2 DEF PartsFail
  <2>2. QED
    BY <1>24, <2>1 DEF PartsFail, TypeOK, node
<1>25. ASSUME MineBlock PROVE TypeOK'
  BY <1>25 DEF MineBlock, TypeOK
<1>26. ASSUME UpdateHeight PROVE TypeOK'
  BY <1>26 DEF UpdateHeight, UpdatedHeight, TypeOK
<1>27. ASSUME Crash PROVE TypeOK'
  <2>1. DeadLocals \in Locals
    BY NewLocalsType, InvoiceAssumption DEF DeadLocals
  <2>2. pc' \in [Lifecycle -> Step] /\ life' \in [Lifecycle -> Locals]
    BY <1>27, <2>1 DEF Crash, Step
  <2>3. "replay" \in HtlcStatus /\ "none" \in Answer
    BY DEF HtlcStatus, Answer
  <2>4. status' \in [Htlc -> HtlcStatus] /\ answer' \in [Htlc -> Answer]
    BY <1>27, <2>3 DEF Crash, TypeOK
  <2>5. QED
    BY <1>27, <2>2, <2>4 DEF Crash, TypeOK
<1>28. ASSUME UNCHANGED vars PROVE TypeOK'
  BY <1>28 DEF vars, TypeOK, node
<1>29. QED
  BY <1>1, <1>2, <1>3, <1>4, <1>5, <1>6, <1>7, <1>8, <1>9, <1>10, <1>11,
     <1>12, <1>13, <1>14, <1>15, <1>16, <1>17, <1>18, <1>19, <1>20,
     <1>21, <1>22, <1>23, <1>24, <1>25, <1>26, <1>27, <1>28
     DEF Next, Handle, LifecycleStep, Lightningd

-----------------------------------------------------------------------------
(* Bookkeeping: one task per payment, and the HTLCs and messages in it.    *)

(* What is in the two channels, and what is_ready and is_fail_requested    *)
(* say about it.                                                           *)
ChannelInv ==
    payments # NoPayment =>
        /\ payments.payment_ready <= 1
        /\ ~payments.is_ready /\ ~payments.is_fail_requested
              => payments.payment_ready = 0
        /\ Len(payments.fail_requested) <= 1
        /\ ~payments.is_fail_requested => payments.fail_requested = <<>>

(* The steps before a resolve, each of which leads to another one.         *)
ActiveStep(t) ==
    \/ FetchPayment(t) \/ WaitPayment(t)
    \/ RecoverAttempt(t) \/ RecoverState(t)
    \/ TimeOut(t) \/ ReceiveFailRequest(t) \/ ReceivePaymentReady(t)
    \/ ReadParams(t) \/ ReadHeight(t) \/ AddState(t) \/ AddAttempt(t)
    \/ PayReturns(t)

(* The steps after it.                                                     *)
ClosingStep(t) ==
    \/ FailAttempt(t) \/ FailState(t)
    \/ SucceedPayment(t) \/ SucceedAttempt(t)

(* A task that does an ActiveStep stays active, and its payment stays.     *)
LEMMA ActiveStepMoves ==
    ASSUME TypeOK, OneTaskPerPayment, NEW t \in Lifecycle, ActiveStep(t)
    PROVE  /\ pc[t] \in Active
           /\ \E s \in Active : Goto(t, s)
           /\ payments # NoPayment
           /\ payments' # NoPayment
           /\ payments'.htlcs = payments.htlcs
           /\ status' = status
<1>1. pc[t] \in Active /\ \E s \in Active : Goto(t, s)
  BY DEF ActiveStep, FetchPayment, WaitPayment, WaitPaymentFails,
         RecoverAttempt, RecoverState, RecoveryFails, TimeOut,
         ReceiveFailRequest, ReceivePaymentReady, ReadParams, ReadHeight,
         AddState, AddAttempt, PayReturns, ResolveWith, Active
<1>2. payments # NoPayment /\ payments \in Payment
  BY <1>1 DEF OneTaskPerPayment, TypeOK
<1>3. status' = status
  BY DEF ActiveStep, FetchPayment, WaitPayment,
         RecoverAttempt, RecoverState, TimeOut,
         ReceiveFailRequest, ReceivePaymentReady, ReadParams, ReadHeight,
         AddState, AddAttempt, PayReturns
<1>4. CASE payments' = payments
  BY <1>1, <1>2, <1>3, <1>4
<1>5. CASE ReceiveFailRequest(t) \/ ReceivePaymentReady(t)
  <2>1. payments' \in Payment /\ payments'.htlcs = payments.htlcs
    BY <1>2, <1>5 DEF ReceiveFailRequest, ReceivePaymentReady, Payment
  <2>2. QED
    BY <1>1, <1>2, <1>3, <2>1, NoPaymentAssumption
<1>6. QED
  BY <1>4, <1>5 DEF ActiveStep, FetchPayment, WaitPayment, RecoverAttempt,
         RecoverState, TimeOut, ReadParams, ReadHeight, AddState, AddAttempt,
         PayReturns

(* A task that does a ClosingStep was and stays out of the map's business. *)
LEMMA ClosingStepMoves ==
    ASSUME NEW t \in Lifecycle, ClosingStep(t)
    PROVE  /\ pc[t] \notin Active
           /\ \E s \in Step \ Active : Goto(t, s)
           /\ UNCHANGED <<payments, status, answer>>
BY DEF ClosingStep, FailAttempt, FailState, SucceedPayment, SucceedAttempt,
       Finish, Step, Active, Closing

(* The other actions do not move a task.                                   *)
LEMMA LightningdMoves ==
    ASSUME \/ \E t \in Lifecycle : SendPart(t)
           \/ PartSucceeds \/ PartsFail \/ MineBlock \/ UpdateHeight
           \/ UNCHANGED vars
    PROVE  UNCHANGED <<payments, status, answer, pc, life, store>>
BY DEF SendPart, PartSucceeds, PartsFail, MineBlock, UpdateHeight, vars

(* The actions by what they do to the map.                                 *)
LEMMA NextCases ==
    ASSUME [Next]_vars
    PROVE  \/ \E h \in Htlc : AnswerUntouched(h) \/ JoinPayment(h)
                               \/ CommitAnswer(h)
           \/ \E h \in Htlc, t \in Lifecycle : StartPayment(h, t)
           \/ \E t \in Lifecycle : ActiveStep(t)
           \/ \E t \in Lifecycle : Resolve(t)
           \/ \E t \in Lifecycle : ClosingStep(t)
           \/ \E t \in Lifecycle : SendPart(t)
           \/ PartSucceeds \/ PartsFail \/ MineBlock \/ UpdateHeight
           \/ UNCHANGED vars
           \/ Crash
BY DEF Next, Handle, LifecycleStep, Lightningd, ActiveStep, ClosingStep

LEMMA AddedPayment ==
    ASSUME NEW p \in Payment, NEW h \in Htlc,
           NEW f \in Failure \cup {"none"}
    PROVE  /\ AddHtlc(Fail(p, f), h) # NoPayment
           /\ AddHtlc(Fail(p, f), h).htlcs = p.htlcs \cup {h}
<1>1. Fail(p, f) \in Payment /\ Fail(p, f).htlcs = p.htlcs
  BY FailType DEF Fail, Payment
<1>2. AddHtlc(Fail(p, f), h) \in Payment
  BY <1>1, AddHtlcType
<1>3. AddHtlc(Fail(p, f), h).htlcs = Fail(p, f).htlcs \cup {h}
  BY <1>1 DEF AddHtlc, Payment
<1>4. QED
  BY <1>1, <1>2, <1>3, NoPaymentAssumption

(* One task per payment is kept: only StartPayment makes a task active,    *)
(* when there is no payment, and only Resolve and a crash end it.          *)
LEMMA OneTaskStep ==
    ASSUME TypeOK, OneTaskPerPayment, [Next]_vars
    PROVE  OneTaskPerPayment'
<1>1. ASSUME NEW h \in Htlc,
             AnswerUntouched(h) \/ JoinPayment(h) \/ CommitAnswer(h)
      PROVE  OneTaskPerPayment'
  <2>1. CASE AnswerUntouched(h) \/ CommitAnswer(h)
    BY <2>1 DEF AnswerUntouched, CommitAnswer, OneTaskPerPayment
  <2>2. CASE JoinPayment(h)
    <3>1. payments # NoPayment /\ payments \in Payment
      BY <2>2 DEF JoinPayment, IsVacant, TypeOK
    <3>2. payments' # NoPayment
      BY <2>2, <3>1, FailureOfType, AddedPayment DEF JoinPayment
    <3>3. QED
      BY <2>2, <3>1, <3>2 DEF JoinPayment, OneTaskPerPayment
  <2>3. QED
    BY <1>1, <2>1, <2>2
<1>2. ASSUME NEW h \in Htlc, NEW t \in Lifecycle, StartPayment(h, t)
      PROVE  OneTaskPerPayment'
  <2>1. payments' # NoPayment
    BY <1>2, HtlcAssumption, NewPaymentType, FailureOfType, AddedPayment
       DEF StartPayment
  <2>2. \A u \in Lifecycle : pc[u] \notin Active
    BY <1>2 DEF StartPayment, IsVacant, OneTaskPerPayment
  <2>3. pc' = [pc EXCEPT ![t] = "fetch"] /\ "fetch" \in Active
    BY <1>2 DEF StartPayment, Active
  <2>4. QED
    BY <2>1, <2>2, <2>3 DEF OneTaskPerPayment, TypeOK
<1>3. ASSUME NEW t \in Lifecycle, ActiveStep(t)
      PROVE  OneTaskPerPayment'
  BY <1>3, ActiveStepMoves DEF Goto, OneTaskPerPayment, TypeOK
<1>4. ASSUME NEW t \in Lifecycle, Resolve(t)
      PROVE  OneTaskPerPayment'
  <2>1. pc[t] \in Active /\ payments' = NoPayment
    BY <1>4 DEF Resolve, Active
  <2>2. PICK s \in {"done", "fail_attempt", "succeed_state"} : Goto(t, s)
    BY <1>4 DEF Resolve, Finish, TypeOK, Locals
  <2>3. s \notin Active
    BY DEF Active
  <2>4. QED
    BY <2>1, <2>2, <2>3 DEF Goto, OneTaskPerPayment, TypeOK
<1>5. ASSUME NEW t \in Lifecycle, ClosingStep(t)
      PROVE  OneTaskPerPayment'
  BY <1>5, ClosingStepMoves DEF Goto, OneTaskPerPayment, TypeOK
<1>6. CASE UNCHANGED <<payments, status, answer, pc, life, store>>
  BY <1>6 DEF OneTaskPerPayment
<1>7. CASE Crash
  <2>1. \A t \in Lifecycle : pc'[t] \notin Active
    BY <1>7 DEF Crash, Active
  <2>2. QED
    BY <1>7, <2>1 DEF Crash, OneTaskPerPayment
<1>8. QED
  BY <1>1, <1>2, <1>3, <1>4, <1>5, <1>6, <1>7, NextCases, LightningdMoves

(* The HTLCs that wait for an answer are those of the payment.             *)
LEMMA HeldStep ==
    ASSUME TypeOK, OneTaskPerPayment, HeldIsTracked, [Next]_vars
    PROVE  HeldIsTracked'
<1>1. ASSUME NEW h \in Htlc, AnswerUntouched(h) \/ CommitAnswer(h)
      PROVE  HeldIsTracked'
  <2>1. status'[h] # "held" /\ status[h] # "held"
    BY <1>1 DEF AnswerUntouched, CommitAnswer, IsOffered, TypeOK
  <2>2. QED
    BY <1>1, <2>1 DEF AnswerUntouched, CommitAnswer, HeldIsTracked, TypeOK
<1>2. ASSUME NEW h \in Htlc, JoinPayment(h)
      PROVE  HeldIsTracked'
  <2>1. payments # NoPayment /\ payments \in Payment
    BY <1>2 DEF JoinPayment, IsVacant, TypeOK
  <2>2. payments' # NoPayment /\ payments'.htlcs = payments.htlcs \cup {h}
    BY <1>2, <2>1, FailureOfType, AddedPayment DEF JoinPayment
  <2>3. status' = [status EXCEPT ![h] = "held"]
    BY <1>2 DEF JoinPayment
  <2>4. QED
    BY <2>1, <2>2, <2>3 DEF HeldIsTracked, TypeOK
<1>3. ASSUME NEW h \in Htlc, NEW t \in Lifecycle, StartPayment(h, t)
      PROVE  HeldIsTracked'
  <2>1. NewPayment(Info[h]) \in Payment
        /\ NewPayment(Info[h]).htlcs = {}
    BY HtlcAssumption, NewPaymentType DEF NewPayment
  <2>2. payments' # NoPayment /\ payments'.htlcs = {h}
    BY <1>3, <2>1, FailureOfType, AddedPayment DEF StartPayment
  <2>3. status' = [status EXCEPT ![h] = "held"] /\ payments = NoPayment
    BY <1>3 DEF StartPayment, IsVacant
  <2>4. QED
    BY <2>2, <2>3 DEF HeldIsTracked, TypeOK
<1>4. ASSUME NEW t \in Lifecycle, ActiveStep(t)
      PROVE  HeldIsTracked'
  BY <1>4, ActiveStepMoves DEF HeldIsTracked
<1>5. ASSUME NEW t \in Lifecycle, Resolve(t)
      PROVE  HeldIsTracked'
  BY <1>5 DEF Resolve, Listeners, HeldIsTracked
<1>6. ASSUME NEW t \in Lifecycle, ClosingStep(t)
      PROVE  HeldIsTracked'
  BY <1>6, ClosingStepMoves DEF HeldIsTracked
<1>7. CASE UNCHANGED <<payments, status, answer, pc, life, store>>
  BY <1>7 DEF HeldIsTracked
<1>8. CASE Crash
  BY <1>8 DEF Crash, HeldIsTracked
<1>9. QED
  BY <1>1, <1>2, <1>3, <1>4, <1>5, <1>6, <1>7, <1>8, NextCases,
     LightningdMoves

(* A payment with its channels in order keeps them so through fail and     *)
(* add_htlc.                                                               *)
ChannelsInOrder(p) ==
    /\ p.payment_ready <= 1
    /\ ~p.is_ready /\ ~p.is_fail_requested => p.payment_ready = 0
    /\ Len(p.fail_requested) <= 1
    /\ ~p.is_fail_requested => p.fail_requested = <<>>

LEMMA FailKeepsChannels ==
    ASSUME NEW p \in Payment, ChannelsInOrder(p),
           NEW f \in Failure \cup {"none"}
    PROVE  ChannelsInOrder(Fail(p, f))
<1>1. CASE f = "none" \/ p.is_fail_requested
  BY <1>1 DEF Fail
<1>2. CASE ~(f = "none" \/ p.is_fail_requested)
  <2>1. Len(Append(p.fail_requested, f)) = 1
    BY <1>2 DEF ChannelsInOrder
  <2>2. Fail(p, f).fail_requested = Append(p.fail_requested, f)
        /\ Fail(p, f).is_fail_requested = TRUE
        /\ Fail(p, f).payment_ready = p.payment_ready
    BY <1>2 DEF Fail, Payment
  <2>3. QED
    BY <2>1, <2>2 DEF ChannelsInOrder
<1>3. QED
  BY <1>1, <1>2

LEMMA AddHtlcKeepsChannels ==
    ASSUME NEW p \in Payment, ChannelsInOrder(p), NEW h \in Htlc
    PROVE  ChannelsInOrder(AddHtlc(p, h))
<1> DEFINE b == BecomesReady(p, WrappingAdd(p.amount_received, Amount[h]))
           q == AddHtlc(p, h)
<1>1. /\ q.is_fail_requested = p.is_fail_requested
      /\ q.fail_requested = p.fail_requested
      /\ q.payment_ready = IF b THEN p.payment_ready + 1 ELSE p.payment_ready
      /\ q.is_ready = IF b THEN TRUE ELSE p.is_ready
  BY DEF AddHtlc, Payment
<1>2. b => ~p.is_ready /\ ~p.is_fail_requested
  BY DEF BecomesReady
<1> HIDE DEF b, q
<1>3. CASE b
  BY <1>1, <1>2, <1>3 DEF ChannelsInOrder, q
<1>4. CASE ~b
  BY <1>1, <1>4 DEF ChannelsInOrder, q
<1>5. QED
  BY <1>3, <1>4

LEMMA ChannelStep ==
    ASSUME TypeOK, OneTaskPerPayment, ChannelInv, [Next]_vars
    PROVE  ChannelInv'
<1> USE DEF ChannelInv
<1>1. ASSUME NEW h \in Htlc, JoinPayment(h)
      PROVE  ChannelInv'
  <2>1. payments # NoPayment /\ payments \in Payment
    BY <1>1 DEF JoinPayment, IsVacant, TypeOK
  <2>2. ChannelsInOrder(payments)
    BY <2>1 DEF ChannelsInOrder
  <2>3. ChannelsInOrder(payments')
    BY <1>1, <2>1, <2>2, FailureOfType, FailType, FailKeepsChannels,
       AddHtlcKeepsChannels DEF JoinPayment
  <2>4. QED
    BY <2>3 DEF ChannelsInOrder
<1>2. ASSUME NEW h \in Htlc, NEW t \in Lifecycle, StartPayment(h, t)
      PROVE  ChannelInv'
  <2>1. NewPayment(Info[h]) \in Payment
    BY HtlcAssumption, NewPaymentType
  <2>2. ChannelsInOrder(NewPayment(Info[h]))
    BY DEF ChannelsInOrder, NewPayment
  <2>3. ChannelsInOrder(payments')
    BY <1>2, <2>1, <2>2, FailureOfType, FailType, FailKeepsChannels,
       AddHtlcKeepsChannels DEF StartPayment
  <2>4. QED
    BY <2>3 DEF ChannelsInOrder
<1>3. ASSUME NEW t \in Lifecycle, ReceiveFailRequest(t)
      PROVE  ChannelInv'
  <2>1. payments # NoPayment /\ payments \in Payment
    BY <1>3 DEF ReceiveFailRequest, OneTaskPerPayment, Active, TypeOK
  <2>2. /\ payments.fail_requested \in Seq(Failure)
        /\ payments.fail_requested # <<>>
    BY <1>3, <2>1 DEF ReceiveFailRequest, Payment
  <2>3. Len(Tail(payments.fail_requested)) <= 1
    BY <2>1, <2>2
  <2>4. payments.is_fail_requested
    BY <2>1, <2>2 DEF Payment
  <2>5. /\ payments'.fail_requested = Tail(payments.fail_requested)
        /\ payments'.is_fail_requested = payments.is_fail_requested
        /\ payments'.is_ready = payments.is_ready
        /\ payments'.payment_ready = payments.payment_ready
    BY <1>3, <2>1 DEF ReceiveFailRequest, Payment
  <2>6. QED
    BY <2>1, <2>3, <2>4, <2>5
<1>4. ASSUME NEW t \in Lifecycle, ReceivePaymentReady(t)
      PROVE  ChannelInv'
  <2>1. payments # NoPayment /\ payments \in Payment
    BY <1>4 DEF ReceivePaymentReady, OneTaskPerPayment, Active, TypeOK
  <2>2. /\ payments'.fail_requested = payments.fail_requested
        /\ payments'.is_fail_requested = payments.is_fail_requested
        /\ payments'.is_ready = payments.is_ready
        /\ payments'.payment_ready = payments.payment_ready - 1
    BY <1>4, <2>1 DEF ReceivePaymentReady, Payment
  <2>3. payments.payment_ready \in Nat /\ payments.payment_ready > 0
    BY <1>4, <2>1 DEF ReceivePaymentReady, Payment
  <2>4. QED
    BY <2>1, <2>2, <2>3
<1>5. CASE payments' = payments \/ payments' = NoPayment
  BY <1>5
<1>6. QED
  BY <1>1, <1>2, <1>3, <1>4, <1>5
     DEF Next, vars, Handle, LifecycleStep, Lightningd, AnswerUntouched,
         CommitAnswer, FetchPayment, WaitPayment, RecoverAttempt, RecoverState,
         TimeOut, ReadParams, ReadHeight, AddState, AddAttempt, PayReturns,
         Resolve, FailAttempt, FailState, SucceedPayment, SucceedAttempt,
         SendPart, PartSucceeds, PartsFail, MineBlock, UpdateHeight, Crash

-----------------------------------------------------------------------------
(* The theorems about the bookkeeping, whatever fails.                     *)

Bookkeeping == TypeOK /\ OneTaskPerPayment /\ HeldIsTracked /\ ChannelInv

LEMMA BookkeepingInit == Init => Bookkeeping
<1> SUFFICES ASSUME Init PROVE Bookkeeping
  OBVIOUS
<1>1. OneTaskPerPayment /\ HeldIsTracked /\ ChannelInv
  BY DEF Init, OneTaskPerPayment, HeldIsTracked, ChannelInv, Active
<1>2. QED
  BY <1>1, TypeInit DEF Bookkeeping

LEMMA BookkeepingStep == Bookkeeping /\ [Next]_vars => Bookkeeping'
BY TypeStep, OneTaskStep, HeldStep, ChannelStep DEF Bookkeeping

(* The bookkeeping of payments, tasks, HTLCs and channels is right in      *)
(* every reachable state, whichever calls of the environment fail.         *)
THEOREM BookkeepingIsInvariant == Spec => []Bookkeeping
BY BookkeepingInit, BookkeepingStep, PTL DEF Spec

(* Every variable keeps its type.                                          *)
THEOREM TypeCorrect == Spec => []TypeOK
<1>1. Bookkeeping => TypeOK
  BY DEF Bookkeeping
<1>2. QED
  BY <1>1, BookkeepingIsInvariant, PTL

(* The payment is in the map exactly while one task is before the end of   *)
(* its resolve, so the two expect() of payment_lifecycle never panic.      *)
THEOREM OneTask == Spec => []OneTaskPerPayment
<1>1. Bookkeeping => OneTaskPerPayment
  BY DEF Bookkeeping
<1>2. QED
  BY <1>1, BookkeepingIsInvariant, PTL

(* Every HTLC that waits for an answer is in the payment that will give    *)
(* it, and the other way around.                                           *)
THEOREM HeldTracked == Spec => []HeldIsTracked
<1>1. Bookkeeping => HeldIsTracked
  BY DEF Bookkeeping
<1>2. QED
  BY <1>1, BookkeepingIsInvariant, PTL

(* A handler that holds the lock of the map never waits for room in a      *)
(* channel.                                                                *)
THEOREM NoBlockedSend == Spec => []SendNeverBlocks
<1>1. Bookkeeping => SendNeverBlocks
  BY DEF Bookkeeping, ChannelInv, SendNeverBlocks
<1>2. QED
  BY <1>1, BookkeepingIsInvariant, PTL

-----------------------------------------------------------------------------
(* Time: the room between the expiry of outgoing parts and of the HTLCs    *)
(* behind them.  This holds whichever calls fail.                          *)

(* The payment knows the earliest expiry of its HTLCs, and a task that has *)
(* read the height how long a route may be for each HTLC it pays against.  *)
PaymentExpiryInv ==
    payments # NoPayment =>
        \A h \in payments.htlcs : payments.cltv_expiry <= Expiry[h]

TaskExpiryInv(t) ==
    /\ pc[t] = "height" =>
          \A h \in life[t].backing : life[t].cltv_expiry <= Expiry[h]
    /\ pc[t] \in {"add_state", "add_attempt", "pay"}
       /\ life[t].max_cltv_delta > 0 =>
          \A h \in life[t].backing :
              life[t].read_height + life[t].max_cltv_delta + CltvDelta
                  <= Expiry[h]

ExpiryInv ==
    /\ PaymentExpiryInv
    /\ \A t \in Lifecycle : TaskExpiryInv(t)
    /\ GapShrinksOnlyByLag

(* A route as long as the code allows leaves CltvDelta blocks.             *)
LEMMA MaxCltvDeltaLeavesGap ==
    ASSUME NEW e \in Nat, NEW h \in Nat, MaxCltvDelta(e, h) > 0
    PROVE  h + MaxCltvDelta(e, h) + CltvDelta <= e
BY ParamsAssumption DEF MaxCltvDelta, Minimum, SaturatingSub

LEMMA ExpiryOfAdded ==
    ASSUME NEW p \in Payment, NEW h \in Htlc, NEW f \in Failure \cup {"none"},
           \A g \in p.htlcs : p.cltv_expiry <= Expiry[g]
    PROVE  LET q == AddHtlc(Fail(p, f), h)
           IN  \A g \in q.htlcs : q.cltv_expiry <= Expiry[g]
<1> DEFINE r == Fail(p, f)
           q == AddHtlc(r, h)
<1>1. r \in Payment /\ r.htlcs = p.htlcs /\ r.cltv_expiry = p.cltv_expiry
  BY FailType DEF Fail, Payment
<1> HIDE DEF r
<1>2. /\ q.htlcs = r.htlcs \cup {h}
      /\ q.cltv_expiry = Minimum(Expiry[h], r.cltv_expiry)
  BY <1>1 DEF AddHtlc, Payment
<1> HIDE DEF q
<1>3. /\ \A g \in p.htlcs : g \in Htlc
      /\ p.cltv_expiry \in Nat
      /\ \A g \in Htlc : Expiry[g] \in Nat
  BY HtlcAssumption DEF Payment
<1>4. \A g \in q.htlcs : q.cltv_expiry <= Expiry[g]
  BY <1>1, <1>2, <1>3 DEF Minimum
<1>5. QED
  BY <1>4 DEF q, r

(* A task keeps what it knows while it goes on, and learns more at two     *)
(* steps.                                                                  *)
LEMMA ActiveExpiry ==
    ASSUME Bookkeeping, ExpiryInv, NEW t \in Lifecycle, ActiveStep(t)
    PROVE  TaskExpiryInv(t)'
<1> TypeOK /\ TaskExpiryInv(t)
  BY DEF Bookkeeping, ExpiryInv
<1>1. CASE ReadParams(t)
  <2>1. payments # NoPayment
    BY <1>1, ActiveStepMoves DEF Bookkeeping
  <2>2. /\ pc'[t] = "height"
        /\ life'[t].backing = payments.htlcs
        /\ life'[t].cltv_expiry = payments.cltv_expiry
    BY <1>1 DEF ReadParams, Goto, TypeOK, Locals
  <2>3. QED
    BY <2>1, <2>2 DEF TaskExpiryInv, ExpiryInv, PaymentExpiryInv
<1>2. CASE ReadHeight(t)
  <2> DEFINE e == life[t].cltv_expiry
             delta == MaxCltvDelta(e, current_height)
  <2>1. /\ pc[t] = "height" /\ pc'[t] = "add_state"
        /\ life'[t].backing = life[t].backing
        /\ life'[t].read_height = current_height
        /\ life'[t].max_cltv_delta = delta
    BY <1>2 DEF ReadHeight, Goto, TypeOK, Locals
  <2>2. e \in Nat /\ current_height \in Nat
    BY DEF TypeOK, Locals
  <2>3. delta > 0 => current_height + delta + CltvDelta <= e
    BY <2>2, MaxCltvDeltaLeavesGap
  <2>4. delta \in Nat /\ CltvDelta \in Nat
    BY <2>2, ParamsAssumption DEF MaxCltvDelta, Minimum, SaturatingSub
  <2>5. \A h \in life[t].backing : e <= Expiry[h] /\ Expiry[h] \in Nat
    BY <2>1, HtlcAssumption DEF TaskExpiryInv, TypeOK, Locals
  <2> HIDE DEF e, delta
  <2>6. QED
    BY <2>1, <2>2, <2>3, <2>4, <2>5 DEF TaskExpiryInv
<1>3. CASE AddState(t)
  <2>1. CASE Goto(t, "add_attempt")
             /\ life' = [life EXCEPT ![t].attempt = t,
                           ![t].generation = AddAttemptState(store, t).generation]
    <3>1. /\ pc[t] = "add_state" /\ pc'[t] = "add_attempt"
          /\ life'[t].backing = life[t].backing
          /\ life'[t].read_height = life[t].read_height
          /\ life'[t].max_cltv_delta = life[t].max_cltv_delta
      BY <1>3, <2>1 DEF AddState, Goto, TypeOK, Locals
    <3>2. QED
      BY <3>1 DEF TaskExpiryInv
  <2>2. CASE ResolveWith(t, "temporary_node_failure", "done")
    BY <2>2 DEF ResolveWith, Goto, TypeOK, TaskExpiryInv
  <2>3. QED
    BY <1>3, <2>1, <2>2 DEF AddState
<1>4. CASE AddAttempt(t)
  <2>1. CASE Goto(t, "pay") /\ UNCHANGED life
    BY <1>4, <2>1 DEF AddAttempt, Goto, TypeOK, TaskExpiryInv
  <2>2. CASE ResolveWith(t, "temporary_node_failure", "done")
    BY <2>2 DEF ResolveWith, Goto, TypeOK, TaskExpiryInv
  <2>3. QED
    BY <1>4, <2>1, <2>2 DEF AddAttempt
<1>5. CASE \E s \in {"wait_payment", "select", "recover_attempt", "panicked",
                     "recover_state", "params", "resolve"} : Goto(t, s)
  BY <1>5 DEF Goto, TypeOK, TaskExpiryInv
<1>6. QED
  BY <1>1, <1>2, <1>3, <1>4, <1>5
     DEF ActiveStep, FetchPayment, WaitPayment, WaitPaymentFails,
         RecoverAttempt, RecoverState, RecoveryFails, TimeOut,
         ReceiveFailRequest, ReceivePaymentReady, PayReturns, ResolveWith

LEMMA ExpiryStep ==
    ASSUME Bookkeeping, ExpiryInv, [Next]_vars
    PROVE  ExpiryInv'
<1> TypeOK /\ GapShrinksOnlyByLag /\ PaymentExpiryInv
  BY DEF Bookkeeping, ExpiryInv
<1>1. ASSUME NEW h \in Htlc,
             AnswerUntouched(h) \/ JoinPayment(h) \/ CommitAnswer(h)
      PROVE  ExpiryInv'
  <2>1. UNCHANGED <<pc, life, outgoing>>
    BY <1>1 DEF AnswerUntouched, JoinPayment, CommitAnswer
  <2>2. PaymentExpiryInv'
    <3>1. CASE JoinPayment(h)
      <4>1. payments # NoPayment /\ payments \in Payment
        BY <3>1 DEF JoinPayment, IsVacant, TypeOK
      <4>2. QED
        BY <3>1, <4>1, FailureOfType, ExpiryOfAdded
           DEF JoinPayment, PaymentExpiryInv
    <3>2. CASE UNCHANGED payments
      BY <3>2 DEF PaymentExpiryInv
    <3>3. QED
      BY <1>1, <3>1, <3>2 DEF AnswerUntouched, CommitAnswer
  <2>3. QED
    BY <2>1, <2>2 DEF ExpiryInv, TaskExpiryInv, GapShrinksOnlyByLag
<1>2. ASSUME NEW h \in Htlc, NEW t \in Lifecycle, StartPayment(h, t)
      PROVE  ExpiryInv'
  <2>1. UNCHANGED outgoing /\ pc'[t] = "fetch"
        /\ \A u \in Lifecycle \ {t} : pc'[u] = pc[u] /\ life'[u] = life[u]
    BY <1>2 DEF StartPayment, TypeOK
  <2>2. NewPayment(Info[h]) \in Payment /\ NewPayment(Info[h]).htlcs = {}
    BY HtlcAssumption, NewPaymentType DEF NewPayment
  <2>3. PaymentExpiryInv'
    BY <1>2, <2>2, FailureOfType, ExpiryOfAdded
       DEF StartPayment, PaymentExpiryInv
  <2>4. \A u \in Lifecycle : TaskExpiryInv(u)'
    BY <2>1 DEF ExpiryInv, TaskExpiryInv
  <2>5. QED
    BY <2>1, <2>3, <2>4 DEF ExpiryInv, GapShrinksOnlyByLag
<1>3. ASSUME NEW t \in Lifecycle, ActiveStep(t)
      PROVE  ExpiryInv'
  <2>1. UNCHANGED outgoing /\
        \A u \in Lifecycle \ {t} : pc'[u] = pc[u] /\ life'[u] = life[u]
    BY <1>3
       DEF ActiveStep, FetchPayment, WaitPayment, WaitPaymentFails,
           RecoverAttempt, RecoverState, RecoveryFails, TimeOut,
           ReceiveFailRequest, ReceivePaymentReady, ReadParams, ReadHeight,
           AddState, AddAttempt, PayReturns, ResolveWith, Goto, TypeOK
  <2>2. PaymentExpiryInv'
    <3>1. CASE ReceiveFailRequest(t) \/ ReceivePaymentReady(t)
      <4>1. payments \in Payment /\ payments # NoPayment
        BY <1>3, ActiveStepMoves DEF Bookkeeping, TypeOK
      <4>2. /\ payments'.htlcs = payments.htlcs
            /\ payments'.cltv_expiry = payments.cltv_expiry
        BY <3>1, <4>1 DEF ReceiveFailRequest, ReceivePaymentReady, Payment
      <4>3. QED
        BY <4>1, <4>2 DEF PaymentExpiryInv
    <3>2. CASE UNCHANGED payments
      BY <3>2 DEF PaymentExpiryInv
    <3>3. QED
      BY <1>3, <3>1, <3>2
         DEF ActiveStep, FetchPayment, WaitPayment, RecoverAttempt,
             RecoverState, TimeOut, ReadParams, ReadHeight, AddState,
             AddAttempt, PayReturns
  <2>3. \A u \in Lifecycle \ {t} : TaskExpiryInv(u)'
    BY <2>1 DEF ExpiryInv, TaskExpiryInv
  <2>4. QED
    BY <1>3, <2>1, <2>2, <2>3, ActiveExpiry
       DEF ExpiryInv, GapShrinksOnlyByLag
<1>4. ASSUME NEW t \in Lifecycle, Resolve(t) \/ ClosingStep(t)
      PROVE  ExpiryInv'
  <2>1. /\ UNCHANGED outgoing
        /\ payments' \in {payments, NoPayment}
        /\ \A u \in Lifecycle \ {t} : pc'[u] = pc[u] /\ life'[u] = life[u]
        /\ pc'[t] \notin {"height", "add_state", "add_attempt", "pay"}
    BY <1>4
       DEF Resolve, ClosingStep, FailAttempt, FailState, SucceedPayment,
           SucceedAttempt, Finish, Goto, TypeOK, Locals
  <2>2. \A u \in Lifecycle : TaskExpiryInv(u)'
    BY <2>1 DEF ExpiryInv, TaskExpiryInv
  <2>3. QED
    BY <2>1, <2>2 DEF ExpiryInv, PaymentExpiryInv, GapShrinksOnlyByLag
<1>5. ASSUME NEW t \in Lifecycle, SendPart(t)
      PROVE  ExpiryInv'
  <2>1. UNCHANGED <<payments, pc, life>>
    BY <1>5 DEF SendPart
  <2>2. /\ pc[t] = "pay" /\ life[t].max_cltv_delta > 0
        /\ outgoing'.backing = life[t].backing
        /\ outgoing'.expiry = height + life[t].max_cltv_delta
        /\ outgoing'.lag = height - life[t].read_height
    BY <1>5, ParamsAssumption DEF SendPart, TypeOK, Outgoing, Locals
  <2>3. /\ height \in Nat /\ life[t].max_cltv_delta \in Nat
        /\ life[t].read_height \in Nat /\ CltvDelta \in Nat
        /\ \A h \in life[t].backing : Expiry[h] \in Nat
    BY HtlcAssumption, ParamsAssumption DEF TypeOK, Locals
  <2>4. \A h \in life[t].backing :
            life[t].read_height + life[t].max_cltv_delta + CltvDelta
                <= Expiry[h]
    BY <2>2 DEF ExpiryInv, TaskExpiryInv
  <2>5. \A h \in outgoing'.backing :
            outgoing'.expiry + CltvDelta <= Expiry[h] + outgoing'.lag
    BY <2>2, <2>3, <2>4
  <2>6. QED
    BY <2>1, <2>5
       DEF ExpiryInv, PaymentExpiryInv, TaskExpiryInv, GapShrinksOnlyByLag
<1>6. CASE PartSucceeds \/ PartsFail
  <2>1. UNCHANGED <<payments, pc, life>>
    BY <1>6 DEF PartSucceeds, PartsFail
  <2>2. \/ ~outgoing'.inflight
        \/ /\ outgoing.inflight
           /\ outgoing'.backing = outgoing.backing
           /\ outgoing'.expiry = outgoing.expiry
           /\ outgoing'.lag = outgoing.lag
    <3>1. CASE PartSucceeds
      BY <3>1 DEF PartSucceeds, TypeOK, Outgoing
    <3>2. CASE PartsFail
      BY <3>2 DEF PartsFail, NoOutgoing, TypeOK, Outgoing
    <3>3. QED
      BY <1>6, <3>1, <3>2
  <2>3. QED
    BY <2>1, <2>2
       DEF ExpiryInv, PaymentExpiryInv, TaskExpiryInv, GapShrinksOnlyByLag
<1>7. CASE MineBlock \/ UpdateHeight \/ UNCHANGED vars
  <2>1. UNCHANGED <<payments, pc, life, outgoing>>
    BY <1>7 DEF MineBlock, UpdateHeight, vars
  <2>2. QED
    BY <2>1
       DEF ExpiryInv, PaymentExpiryInv, TaskExpiryInv, GapShrinksOnlyByLag
<1>8. CASE Crash
  BY <1>8 DEF Crash, ExpiryInv, PaymentExpiryInv, TaskExpiryInv,
              GapShrinksOnlyByLag
<1>9. QED
  BY <1>1, <1>2, <1>3, <1>4, <1>5, <1>6, <1>7, <1>8, NextCases

(* Outgoing parts expire at least cltv_delta before every HTLC behind      *)
(* them, less the blocks mined since the height was read: a stale height   *)
(* is the only thing that can take from that room.                         *)
THEOREM GapShrinks == Spec => []GapShrinksOnlyByLag
<1>1. Init => ExpiryInv
  BY DEF Init, ExpiryInv, PaymentExpiryInv, TaskExpiryInv,
         GapShrinksOnlyByLag, NoOutgoing
<1>2. Bookkeeping /\ ExpiryInv /\ [Next]_vars => ExpiryInv'
  BY ExpiryStep
<1>3. ExpiryInv => GapShrinksOnlyByLag
  BY DEF ExpiryInv
<1>4. QED
  BY <1>1, <1>2, <1>3, BookkeepingIsInvariant, PTL DEF Spec

-----------------------------------------------------------------------------
(* What HTLCs are worth: SumOf folds over a set of them in an order nobody  *)
(* knows, so it is proved to count the units of msat there are in it.      *)
UnitsOf(f, h) == {h} \X (1..f[h])
Units(f, S) == UNION {UnitsOf(f, h) : h \in S}

LEMMA UnitsOfOne ==
    ASSUME NEW f, NEW h, f[h] \in Nat
    PROVE  IsFiniteSet(UnitsOf(f, h)) /\ Cardinality(UnitsOf(f, h)) = f[h]
<1>1. IsFiniteSet(1..f[h]) /\ Cardinality(1..f[h]) = f[h]
  BY FS_Interval
<1>2. IsFiniteSet({h}) /\ Cardinality({h}) = 1
  BY FS_Singleton
<1>3. /\ IsFiniteSet({h} \X (1..f[h]))
      /\ Cardinality({h} \X (1..f[h])) = 1 * f[h]
  BY <1>1, <1>2, FS_Product
<1>4. QED
  BY <1>3 DEF UnitsOf

LEMMA UnitsFinite ==
    ASSUME NEW S, IsFiniteSet(S), NEW f, \A h \in S : f[h] \in Nat
    PROVE  IsFiniteSet(Units(f, S))
<1> DEFINE T == {UnitsOf(f, h) : h \in S}
           units == [h \in S |-> UnitsOf(f, h)]
<1>1. units \in Surjection(S, T)
  <2> HIDE DEF UnitsOf
  <2>1. QED
    BY DEF Surjection
<1>2. IsFiniteSet(T)
  BY <1>1, FS_Surjection
<1>3. \A U \in T : IsFiniteSet(U)
  BY UnitsOfOne
<1>4. QED
  BY <1>2, <1>3, FS_UNION DEF Units

LEMMA UnitsAdd ==
    ASSUME NEW S, IsFiniteSet(S), NEW f, \A g \in S : f[g] \in Nat,
           NEW h \in S
    PROVE  Cardinality(Units(f, S)) = f[h] + Cardinality(Units(f, S \ {h}))
<1> DEFINE A == UnitsOf(f, h)
           B == Units(f, S \ {h})
<1>1. IsFiniteSet(A) /\ Cardinality(A) = f[h]
  BY UnitsOfOne
<1>2. IsFiniteSet(B)
  <2>1. IsFiniteSet(S \ {h})
    BY FS_RemoveElement
  <2>2. QED
    BY <2>1, UnitsFinite
<1>3. Units(f, S) = A \cup B
  BY DEF Units
<1>4. A \cap B = {}
  BY DEF Units, UnitsOf
<1> HIDE DEF A, B
<1>5. Cardinality(A \cup B) = Cardinality(A) + Cardinality(B) - Cardinality({})
  BY <1>1, <1>2, <1>4, FS_Union
<1>6. Cardinality(B) \in Nat
  BY <1>2, FS_CardinalityType
<1>7. QED
  BY <1>1, <1>3, <1>5, <1>6, FS_EmptySet DEF A, B

(* The sum is the number of units: by induction over the set, through a    *)
(* least subset for which it is not.                                       *)
LEMMA SumCounts ==
    ASSUME NEW S, IsFiniteSet(S), NEW f, \A h \in S : f[h] \in Nat
    PROVE  SumOf(f, S) = Cardinality(Units(f, S))
<1> DEFINE Chosen(s) == CHOOSE h \in s : TRUE
           Body(g, s) == IF s = {} THEN 0
                         ELSE f[Chosen(s)] + g[s \ {Chosen(s)}]
           Recursive(g) == g = [s \in SUBSET S |-> Body(g, s)]
           sum == CHOOSE g : Recursive(g)
           count == [s \in SUBSET S |-> Cardinality(Units(f, s))]
<1>1. SumOf(f, S) = sum[S]
  BY DEF SumOf, MapThenSumSet, MapThenFoldSet
<1>2. Recursive(count)
  <2>1. ASSUME NEW s \in SUBSET S
        PROVE  count[s] = Body(count, s)
    <3>1. CASE s = {}
      BY <3>1, FS_EmptySet DEF Units
    <3>2. CASE s # {}
      <4> DEFINE h == Chosen(s)
      <4>1. h \in s
        BY <3>2
      <4>2. IsFiniteSet(s)
        BY FS_Subset
      <4> HIDE DEF h
      <4>3. Cardinality(Units(f, s)) = f[h] + Cardinality(Units(f, s \ {h}))
        BY <4>1, <4>2, UnitsAdd
      <4>4. s \ {h} \in SUBSET S
        OBVIOUS
      <4>5. QED
        BY <3>2, <4>3, <4>4 DEF h
    <3>3. QED
      BY <3>1, <3>2
  <2>2. QED
    BY <2>1
<1>3. Recursive(sum)
  BY <1>2
<1>4. sum = count
  <2> HIDE DEF sum, count
  <2>1. /\ sum = [s \in SUBSET S |-> Body(sum, s)]
        /\ count = [s \in SUBSET S |-> Body(count, s)]
    BY <1>2, <1>3
  <2> DEFINE Wrong == {s \in SUBSET S : sum[s] # count[s]}
             R == StrictSubsetOrdering(S)
  <2>2. SUFFICES ASSUME Wrong # {} PROVE FALSE
    BY <2>1
  <2>3. PICK s \in Wrong : \A r \in Wrong : ~(<<r, s>> \in R)
    <3>1. IsWellFoundedOn(R, FiniteSubsetsOf(S))
      BY FS_StrictSubsetOrderingWellFounded
    <3>2. Wrong \subseteq FiniteSubsetsOf(S)
      BY FS_FiniteSubsetsOfFinite
    <3> HIDE DEF Wrong, R
    <3>3. QED
      BY <2>2, <3>1, <3>2, WFMin
  <2>4. s \in SUBSET S /\ sum[s] # count[s]
    OBVIOUS
  <2> DEFINE r == s \ {Chosen(s)}
  <2>5. s # {}
    BY <2>1, <2>4
  <2>6. r \in SUBSET S /\ r # s /\ r \subseteq s
    BY <2>4, <2>5
  <2>7. sum[r] = count[r]
    BY <2>3, <2>6 DEF StrictSubsetOrdering
  <2>8. sum[s] = f[Chosen(s)] + sum[r] /\ count[s] = f[Chosen(s)] + count[r]
    <3>1. sum[s] = Body(sum, s) /\ count[s] = Body(count, s)
      BY <2>1, <2>4
    <3>2. QED
      BY <2>5, <3>1
  <2>9. QED
    BY <2>4, <2>7, <2>8
<1>5. QED
  BY <1>1, <1>4

LEMMA SumOfNone == \A f : SumOf(f, {}) = 0
<1> TAKE f
<1>1. SumOf(f, {}) = Cardinality(Units(f, {}))
  BY FS_EmptySet, SumCounts
<1>2. Units(f, {}) = {}
  BY DEF Units
<1>3. QED
  BY <1>1, <1>2, FS_EmptySet

LEMMA SumOfType ==
    ASSUME NEW S \in SUBSET Htlc
    PROVE  SumOf(Amount, S) \in Nat
<1>1. IsFiniteSet(S) /\ \A h \in S : Amount[h] \in Nat
  BY HtlcAssumption, FS_Subset
<1>2. SumOf(Amount, S) = Cardinality(Units(Amount, S))
  BY <1>1, SumCounts
<1>3. IsFiniteSet(Units(Amount, S))
  BY <1>1, UnitsFinite
<1>4. QED
  BY <1>2, <1>3, FS_CardinalityType

LEMMA SumOfMore ==
    ASSUME NEW S \in SUBSET Htlc, NEW h \in Htlc \ S
    PROVE  SumOf(Amount, S \cup {h}) = SumOf(Amount, S) + Amount[h]
<1> DEFINE T == S \cup {h}
<1>1. /\ IsFiniteSet(S) /\ IsFiniteSet(T)
      /\ \A g \in T : Amount[g] \in Nat
  BY HtlcAssumption, FS_Subset
<1>2. /\ SumOf(Amount, S) = Cardinality(Units(Amount, S))
      /\ SumOf(Amount, T) = Cardinality(Units(Amount, T))
  BY <1>1, SumCounts
<1>3. /\ IsFiniteSet(Units(Amount, S))
      /\ Cardinality(Units(Amount, S)) \in Nat
  BY <1>1, UnitsFinite, FS_CardinalityType
<1>4. T \ {h} = S /\ h \in T
  OBVIOUS
<1> HIDE DEF T
<1>5. Cardinality(Units(Amount, T))
          = Amount[h] + Cardinality(Units(Amount, S))
  BY <1>1, <1>4, UnitsAdd
<1>6. QED
  BY <1>1, <1>2, <1>3, <1>4, <1>5 DEF T

(* Fewer HTLCs are not worth more.                                         *)
LEMMA SumOfFewer ==
    ASSUME NEW S \in SUBSET Htlc, NEW T \in SUBSET S
    PROVE  SumOf(Amount, T) <= SumOf(Amount, S)
<1>1. /\ IsFiniteSet(S) /\ IsFiniteSet(T)
      /\ \A h \in S : Amount[h] \in Nat
  BY HtlcAssumption, FS_Subset
<1>2. /\ SumOf(Amount, S) = Cardinality(Units(Amount, S))
      /\ SumOf(Amount, T) = Cardinality(Units(Amount, T))
  BY <1>1, SumCounts
<1>3. IsFiniteSet(Units(Amount, S))
  BY <1>1, UnitsFinite
<1>4. Units(Amount, T) \subseteq Units(Amount, S)
  BY DEF Units
<1>5. QED
  BY <1>2, <1>3, <1>4, FS_Subset

-----------------------------------------------------------------------------
(* The fee check and the money there is.                                   *)

LEMMA RoutingPolicyType ==
    /\ RoutingPolicy.fee_base_msat \in 0..U32Max
    /\ RoutingPolicy.fee_proportional_millionths \in 0..U32Max
BY ParamsAssumption DEF TrampolineRoutingPolicy

LEMMA FeeMsatType ==
    ASSUME NEW invoice \in Nat
    PROVE  FeeMsat(RoutingPolicy, invoice) \in Nat
<1> DEFINE product == invoice * RoutingPolicy.fee_proportional_millionths
<1>1. product \in Nat /\ RoutingPolicy.fee_base_msat \in Nat
  BY RoutingPolicyType, FeePolicyAssumption
<1> HIDE DEF product
<1>2. product \div Millionths \in Nat
  BY <1>1, FeePolicyAssumption
<1>3. QED
  BY <1>1, <1>2 DEF FeeMsat, RatePart, product

(* The last addition of fee_sufficient is not checked.  It does not wrap   *)
(* to an accepting answer for an amount that somebody has.                 *)
LEMMA SufficientIsFeePaid ==
    ASSUME NEW total \in Nat, total <= MoneySupply, NEW invoice \in Nat,
           FeeSufficient(RoutingPolicy, total, invoice)
    PROVE  FeePaid(RoutingPolicy, total, invoice)
<1> DEFINE product == invoice * RoutingPolicy.fee_proportional_millionths
           rate == product \div Millionths
           fee == FeeMsat(RoutingPolicy, invoice)
<1>1. /\ U64Max \in Nat /\ Millionths \in Nat \ {0} /\ U32Max \in Nat
      /\ MoneySupply \in Nat
  BY FeePolicyAssumption
<1>2. product \in Nat /\ product <= U64Max
  <2>1. product \in 0..U64Max
    BY DEF FeeSufficient, FeeFits, Msat
  <2> HIDE DEF product
  <2>2. QED
    BY <1>1, <2>1
<1>3. rate \in Nat /\ rate <= U64Max \div Millionths
  <2> HIDE DEF product
  <2>1. rate \in Nat
    BY <1>1, <1>2
  <2>2. rate <= U64Max \div Millionths
    BY <1>1, <1>2
  <2>3. QED
    BY <2>1, <2>2
<1>4. fee = RoutingPolicy.fee_base_msat + rate
  BY DEF FeeMsat, RatePart
<1> HIDE DEF product, rate
<1>5. fee \in Nat /\ fee <= U32Max + U64Max \div Millionths
  BY <1>1, <1>3, <1>4, RoutingPolicyType
<1>6. invoice <= MoneySupply
  BY <1>1 DEF FeeSufficient
<1>7. total >= WrappingAdd(invoice, fee)
  BY DEF FeeSufficient
<1> HIDE DEF fee
<1>8. invoice + fee \in 0..U64Max
  <2>1. U64Max \div Millionths \in Nat
    BY <1>1
  <2>2. QED
    BY <1>1, <1>5, <1>6, <2>1, MoneyAssumption
<1>9. WrappingAdd(invoice, fee) = invoice + fee
  BY <1>1, <1>8 DEF WrappingAdd
<1>10. QED
  BY <1>7, <1>9 DEF FeePaid, fee

(* What pays the fee pays the invoice, and with more it is still paid.     *)
LEMMA FeePaidGrows ==
    ASSUME NEW total \in Nat, NEW more \in Nat, more >= total,
           NEW invoice \in Nat, FeePaid(RoutingPolicy, total, invoice)
    PROVE  total >= invoice /\ FeePaid(RoutingPolicy, more, invoice)
BY FeeMsatType DEF FeePaid

(* lightningd offers an HTLC only when all that are not resolved are       *)
(* together worth no more than there is: so are those of a payment.        *)
LEMMA OfferedIsFunded ==
    ASSUME NEW h \in Htlc, IsOffered(h), NEW S \in SUBSET Unresolved
    PROVE  SumOf(Amount, S \cup {h}) <= MoneySupply
<1> DEFINE T == Unresolved \cup {h}
           U == S \cup {h}
<1>1. T \in SUBSET Htlc /\ U \in SUBSET T /\ U \in SUBSET Htlc
  BY DEF Unresolved
<1>2. SumOf(Amount, T) <= MoneySupply
  BY DEF IsOffered, IsFunded
<1> HIDE DEF T, U
<1>3. SumOf(Amount, U) <= SumOf(Amount, T)
  BY <1>1, SumOfFewer
<1>4. SumOf(Amount, T) \in Nat /\ SumOf(Amount, U) \in Nat
  BY <1>1, SumOfType
<1>5. SumOf(Amount, U) <= MoneySupply
  BY <1>2, <1>3, <1>4, FeePolicyAssumption
<1>6. QED
  BY <1>5 DEF U

-----------------------------------------------------------------------------
(* A payment counts what its HTLCs are worth, it is announced as ready     *)
(* only when that suffices, and it is called ready or failed as soon as it *)
(* does; a task spends no more than the HTLCs it computed its maximum fee  *)
(* from, and those suffice.                                                *)
PaymentFunds(p) ==
    /\ p.amount_received = SumOf(Amount, p.htlcs)
    /\ p.amount_received <= MoneySupply
    /\ p.payment_ready > 0 =>
          FeePaid(RoutingPolicy, p.amount_received,
                  InvoiceAmount[p.trampoline])

CompleteIsReady(p) ==
    FeeSufficient(RoutingPolicy, p.amount_received,
                  InvoiceAmount[p.trampoline]) =>
        p.is_ready \/ p.is_fail_requested

TaskFunds(t) ==
    /\ pc[t] \in Active => life[t].trampoline = payments.trampoline
    /\ pc[t] = "params" =>
          FeePaid(RoutingPolicy, payments.amount_received,
                  InvoiceAmount[payments.trampoline])
    /\ pc[t] \in {"height", "add_state", "add_attempt", "pay"} =>
          /\ InvoiceAmount[life[t].trampoline] + life[t].max_fee
                <= SumOf(Amount, life[t].backing)
          /\ FeePaid(RoutingPolicy, SumOf(Amount, life[t].backing),
                     InvoiceAmount[life[t].trampoline])

FundsInv ==
    /\ payments # NoPayment => /\ PaymentFunds(payments)
                               /\ CompleteIsReady(payments)
    /\ \A t \in Lifecycle : TaskFunds(t)
    /\ Solvent

(* An HTLC that was not in the payment adds its amount, which does not     *)
(* wrap as long as there is that much money.                               *)
LEMMA FundsOfAdded ==
    ASSUME NEW p \in Payment, PaymentFunds(p), NEW h \in Htlc \ p.htlcs,
           SumOf(Amount, p.htlcs \cup {h}) <= MoneySupply,
           NEW f \in Failure \cup {"none"}
    PROVE  LET q == AddHtlc(Fail(p, f), h)
           IN  /\ PaymentFunds(q)
               /\ CompleteIsReady(q)
               /\ q.trampoline = p.trampoline
               /\ q.amount_received >= p.amount_received
<1> DEFINE r == Fail(p, f)
           amount == WrappingAdd(r.amount_received, Amount[h])
           q == AddHtlc(r, h)
           b == BecomesReady(r, amount)
<1>1. /\ r \in Payment /\ r.htlcs = p.htlcs /\ r.trampoline = p.trampoline
      /\ r.amount_received = p.amount_received
      /\ r.payment_ready = p.payment_ready
  BY FailType DEF Fail, Payment
<1> HIDE DEF r
<1>2. /\ q.htlcs = r.htlcs \cup {h}
      /\ q.trampoline = r.trampoline
      /\ q.is_ready = IF b THEN TRUE ELSE r.is_ready
      /\ q.is_fail_requested = r.is_fail_requested
      /\ q.amount_received = amount
      /\ q.payment_ready = IF b THEN r.payment_ready + 1 ELSE r.payment_ready
  BY <1>1 DEF AddHtlc, Payment
<1>3. b <=> /\ ~r.is_ready
            /\ ~r.is_fail_requested
            /\ FeeSufficient(RoutingPolicy, amount,
                             InvoiceAmount[r.trampoline])
  BY DEF BecomesReady
<1> HIDE DEF q, b
<1>4. /\ p.amount_received \in Nat /\ Amount[h] \in Nat
      /\ p.htlcs \in SUBSET Htlc /\ InvoiceAmount[p.trampoline] \in Nat
      /\ p.payment_ready \in Nat
  BY HtlcAssumption DEF Payment
<1>5. SumOf(Amount, p.htlcs \cup {h}) = p.amount_received + Amount[h]
  BY <1>4, SumOfMore DEF PaymentFunds
<1>6. p.amount_received + Amount[h] <= U64Max
  <2>1. U64Max \div Millionths \in Nat /\ U32Max \in Nat
        /\ U64Max \in Nat /\ MoneySupply \in Nat
    BY FeePolicyAssumption
  <2>2. MoneySupply <= U64Max
    BY <2>1, MoneyAssumption
  <2>3. QED
    BY <1>4, <1>5, <2>1, <2>2
<1>7. amount = p.amount_received + Amount[h]
  <2>1. U64Max \in Nat
    BY FeePolicyAssumption
  <2>2. QED
    BY <1>1, <1>4, <1>6, <2>1 DEF WrappingAdd
<1> HIDE DEF amount
<1>8. /\ q.amount_received = SumOf(Amount, q.htlcs)
      /\ q.amount_received <= MoneySupply
      /\ q.amount_received >= p.amount_received
      /\ q.amount_received \in Nat
  BY <1>1, <1>2, <1>4, <1>5, <1>7
<1>9. q.payment_ready > 0 =>
          FeePaid(RoutingPolicy, q.amount_received,
                  InvoiceAmount[q.trampoline])
  <2>1. CASE b
    <3>1. FeeSufficient(RoutingPolicy, q.amount_received,
                        InvoiceAmount[p.trampoline])
      BY <1>1, <1>2, <1>3, <2>1
    <3>2. QED
      BY <1>1, <1>2, <1>4, <1>8, <3>1, SufficientIsFeePaid
  <2>2. CASE ~b
    <3>1. SUFFICES ASSUME p.payment_ready > 0
                   PROVE  FeePaid(RoutingPolicy, q.amount_received,
                                  InvoiceAmount[p.trampoline])
      BY <1>1, <1>2, <2>2
    <3>2. FeePaid(RoutingPolicy, p.amount_received,
                  InvoiceAmount[p.trampoline])
      BY <3>1 DEF PaymentFunds
    <3>3. QED
      BY <1>4, <1>8, <3>2, FeePaidGrows
  <2>3. QED
    BY <2>1, <2>2
<1>10. CompleteIsReady(q)
  BY <1>2, <1>3 DEF CompleteIsReady
<1>11. PaymentFunds(q) /\ q.trampoline = p.trampoline
      /\ q.amount_received >= p.amount_received
  BY <1>1, <1>2, <1>8, <1>9 DEF PaymentFunds
<1>12. QED
  BY <1>10, <1>11 DEF q, r

(* What a task may spend is what its payment received, when that is enough *)
(* for the invoice.                                                        *)
LEMMA MaxFeeIsCovered ==
    ASSUME NEW received \in Nat, NEW amount \in Nat, received >= amount
    PROVE  amount + MaxFee(received, amount) = received
BY DEF MaxFee, SaturatingSub

(* A task keeps the invoice it pays, and what it may spend once it has     *)
(* computed that.                                                          *)
LEMMA ActiveLocals ==
    ASSUME TypeOK, NEW t \in Lifecycle, ActiveStep(t)
    PROVE  /\ life'[t].trampoline = life[t].trampoline
           /\ ~ReadParams(t) =>
                 /\ life'[t].backing = life[t].backing
                 /\ life'[t].max_fee = life[t].max_fee
<1>1. CASE UNCHANGED life
  BY <1>1
<1>2. CASE \E r, n : ResolveWith(t, r, n)
  BY <1>2 DEF ResolveWith, TypeOK, Locals
<1>3. CASE \E a, g : life' = [life EXCEPT ![t].attempt = a,
                                          ![t].generation = g]
  BY <1>3 DEF TypeOK, Locals
<1>4. CASE ReadHeight(t)
  BY <1>4 DEF ReadHeight, TypeOK, Locals
<1>5. CASE ReadParams(t)
  BY <1>5 DEF ReadParams, TypeOK, Locals
<1>6. CASE AddState(t)
  BY <1>2, <1>3, <1>6 DEF AddState
<1>7. CASE FetchPayment(t)
  BY <1>1, <1>2, <1>3, <1>7 DEF FetchPayment
<1>8. CASE ReceiveFailRequest(t)
  BY <1>2, <1>8 DEF ReceiveFailRequest
<1>9. CASE \/ WaitPayment(t) \/ RecoverAttempt(t) \/ RecoverState(t)
           \/ TimeOut(t) \/ AddAttempt(t) \/ PayReturns(t)
           \/ ReceivePaymentReady(t)
  BY <1>1, <1>2, <1>9
     DEF WaitPayment, WaitPaymentFails, RecoverAttempt, RecoverState,
         RecoveryFails, TimeOut, AddAttempt, PayReturns, ReceivePaymentReady
<1>10. QED
  BY <1>4, <1>5, <1>6, <1>7, <1>8, <1>9 DEF ActiveStep

(* The funds of a task over its steps.                                     *)
LEMMA ActiveFunds ==
    ASSUME Bookkeeping, FundsInv, NEW t \in Lifecycle, ActiveStep(t)
    PROVE  TaskFunds(t)'
<1> TypeOK /\ TaskFunds(t)
  BY DEF Bookkeeping, FundsInv
<1>1. /\ payments \in Payment /\ payments # NoPayment
      /\ pc[t] \in Active /\ PaymentFunds(payments)
  BY ActiveStepMoves DEF Bookkeeping, TypeOK, FundsInv
<1>2. payments'.trampoline = payments.trampoline
      /\ payments'.amount_received = payments.amount_received
  BY <1>1
     DEF ActiveStep, FetchPayment, WaitPayment, RecoverAttempt, RecoverState,
         TimeOut, ReceiveFailRequest, ReceivePaymentReady, ReadParams,
         ReadHeight, AddState, AddAttempt, PayReturns, Payment
<1>3. life'[t].trampoline = life[t].trampoline
  BY ActiveLocals
<1>4. life'[t].trampoline = payments'.trampoline
  BY <1>1, <1>2, <1>3 DEF TaskFunds
<1>5. CASE ReceivePaymentReady(t)
  <2>1. pc'[t] = "params" /\ payments.payment_ready > 0
    BY <1>5 DEF ReceivePaymentReady, Goto, TypeOK
  <2>2. QED
    BY <1>1, <1>2, <1>4, <2>1 DEF TaskFunds, PaymentFunds
<1>6. CASE ReadParams(t)
  <2> DEFINE received == payments.amount_received
             amount == InvoiceAmount[life[t].trampoline]
  <2>1. /\ pc[t] = "params" /\ pc'[t] = "height"
        /\ life'[t].backing = payments.htlcs
        /\ life'[t].max_fee = MaxFee(received, amount)
    BY <1>6 DEF ReadParams, Goto, TypeOK, Locals
  <2>2. received \in Nat /\ amount \in Nat
        /\ FeePaid(RoutingPolicy, received, amount)
    BY <1>1, <2>1, HtlcAssumption DEF TaskFunds, Payment
  <2> HIDE DEF amount
  <2>3. amount + MaxFee(received, amount) = received
    BY <2>2, FeePaidGrows, MaxFeeIsCovered
  <2>4. received = SumOf(Amount, payments.htlcs)
    BY <1>1 DEF PaymentFunds
  <2> HIDE DEF received
  <2>5. amount + life'[t].max_fee <= SumOf(Amount, life'[t].backing)
    BY <2>1, <2>2, <2>3, <2>4
  <2>6. FeePaid(RoutingPolicy, SumOf(Amount, life'[t].backing), amount)
    BY <2>1, <2>2, <2>4
  <2>7. QED
    BY <1>3, <1>4, <2>1, <2>5, <2>6 DEF TaskFunds, amount
<1>7. CASE /\ pc[t] \in {"height", "add_state", "add_attempt", "pay"}
           /\ ~ReadParams(t)
  <2>1. /\ life'[t].backing = life[t].backing
        /\ life'[t].max_fee = life[t].max_fee
    BY <1>7, ActiveLocals
  <2>2. pc'[t] # "params"
    BY <1>7
       DEF ActiveStep, FetchPayment, WaitPayment, RecoverAttempt,
           RecoverState, TimeOut, ReceiveFailRequest, ReceivePaymentReady,
           ReadHeight, AddState, AddAttempt, PayReturns, ResolveWith, Goto,
           TypeOK
  <2>3. QED
    BY <1>3, <1>4, <1>7, <2>1, <2>2 DEF TaskFunds
<1>8. CASE \E s \in {"wait_payment", "select", "recover_attempt", "panicked",
                     "recover_state", "resolve"} : Goto(t, s)
  BY <1>4, <1>8 DEF Goto, TypeOK, TaskFunds
<1>9. QED
  BY <1>5, <1>6, <1>7, <1>8
     DEF ActiveStep, FetchPayment, WaitPayment, WaitPaymentFails,
         RecoverAttempt, RecoverState, RecoveryFails, TimeOut,
         ReceiveFailRequest, ReadHeight, AddState, AddAttempt, PayReturns,
         ResolveWith

LEMMA FundsStep ==
    ASSUME Bookkeeping, FundsInv, [Next]_vars
    PROVE  FundsInv'
<1> TypeOK /\ Solvent /\ OneTaskPerPayment /\ HeldIsTracked
  BY DEF Bookkeeping, FundsInv
<1>1. ASSUME NEW h \in Htlc, AnswerUntouched(h) \/ CommitAnswer(h)
      PROVE  FundsInv'
  BY <1>1
     DEF AnswerUntouched, CommitAnswer, FundsInv, PaymentFunds,
         CompleteIsReady, TaskFunds, Solvent, Live
<1>2. ASSUME NEW h \in Htlc, JoinPayment(h)
      PROVE  FundsInv'
  <2>1. /\ payments # NoPayment /\ payments \in Payment
        /\ UNCHANGED <<pc, life, outgoing>>
    BY <1>2 DEF JoinPayment, IsVacant, TypeOK
  <2>2. h \in Htlc \ payments.htlcs
    BY <1>2, <2>1 DEF JoinPayment, IsOffered, HeldIsTracked
  <2>3. /\ PaymentFunds(payments')
        /\ CompleteIsReady(payments')
        /\ payments'.trampoline = payments.trampoline
        /\ payments'.amount_received >= payments.amount_received
    <3>1. payments.htlcs \in SUBSET Unresolved
      BY <2>1 DEF HeldIsTracked, Unresolved, Payment
    <3>2. SumOf(Amount, payments.htlcs \cup {h}) <= MoneySupply
      BY <1>2, <3>1, OfferedIsFunded DEF JoinPayment
    <3>3. QED
      BY <1>2, <2>1, <2>2, <3>2, FailureOfType, FundsOfAdded
         DEF JoinPayment, FundsInv
  <2>4. /\ payments.amount_received \in Nat
        /\ InvoiceAmount[payments.trampoline] \in Nat
    BY <2>1, HtlcAssumption DEF Payment
  <2>5. payments'.amount_received \in Nat
    BY <1>2, <2>1, FailureOfType, FailType, AddHtlcType
       DEF JoinPayment, Payment
  <2>6. FeePaid(RoutingPolicy, payments.amount_received,
                InvoiceAmount[payments.trampoline]) =>
            FeePaid(RoutingPolicy, payments'.amount_received,
                    InvoiceAmount[payments'.trampoline])
    BY <2>3, <2>4, <2>5, FeePaidGrows
  <2>7. \A t \in Lifecycle : TaskFunds(t)'
    BY <2>1, <2>3, <2>6 DEF FundsInv, TaskFunds
  <2>8. QED
    BY <2>1, <2>3, <2>7 DEF FundsInv, Solvent, Live
<1>3. ASSUME NEW h \in Htlc, NEW t \in Lifecycle, StartPayment(h, t)
      PROVE  FundsInv'
  <2> DEFINE p == NewPayment(Info[h])
  <2>1. p \in Payment /\ p.htlcs = {} /\ p.trampoline = Info[h]
        /\ p.amount_received = 0 /\ p.payment_ready = 0
    BY HtlcAssumption, NewPaymentType DEF NewPayment
  <2>2. PaymentFunds(p)
    BY <2>1, SumOfNone, FeePolicyAssumption DEF PaymentFunds
  <2>3. payments' = AddHtlc(Fail(p, FailureOf(p, h)), h)
    BY <1>3 DEF StartPayment
  <2> HIDE DEF p
  <2>4. /\ PaymentFunds(payments')
        /\ CompleteIsReady(payments')
        /\ payments'.trampoline = Info[h]
    <3>1. SumOf(Amount, p.htlcs \cup {h}) <= MoneySupply
      BY <1>3, <2>1, OfferedIsFunded DEF StartPayment
    <3>2. QED
      BY <2>1, <2>2, <2>3, <3>1, FailureOfType, FundsOfAdded
  <2>5. /\ UNCHANGED outgoing
        /\ \A u \in Lifecycle \ {t} :
              pc'[u] = pc[u] /\ pc[u] \notin Active /\ life'[u] = life[u]
        /\ pc'[t] = "fetch" /\ life'[t].trampoline = Info[h]
    BY <1>3
       DEF StartPayment, NewLocals, TypeOK, IsVacant, OneTaskPerPayment
  <2>6. \A u \in Lifecycle : TaskFunds(u)'
    BY <2>4, <2>5 DEF TaskFunds, FundsInv, Active
  <2>7. QED
    BY <2>4, <2>5, <2>6 DEF FundsInv, Solvent, Live
<1>4. ASSUME NEW t \in Lifecycle, ActiveStep(t)
      PROVE  FundsInv'
  <2>1. /\ UNCHANGED outgoing
        /\ \A u \in Lifecycle \ {t} :
              pc'[u] = pc[u] /\ pc[u] \notin Active /\ life'[u] = life[u]
    <3>1. UNCHANGED outgoing /\ \A u \in Lifecycle \ {t} : life'[u] = life[u]
      BY <1>4
         DEF ActiveStep, FetchPayment, WaitPayment, WaitPaymentFails,
             RecoverAttempt, RecoverState, RecoveryFails, TimeOut,
             ReceiveFailRequest, ReceivePaymentReady, ReadParams, ReadHeight,
             AddState, AddAttempt, PayReturns, ResolveWith, TypeOK
    <3>2. QED
      BY <1>4, <3>1, ActiveStepMoves DEF Goto, TypeOK, OneTaskPerPayment
  <2>2. PaymentFunds(payments') /\ CompleteIsReady(payments')
    <3>1. /\ PaymentFunds(payments) /\ CompleteIsReady(payments)
          /\ payments \in Payment
      BY <1>4, ActiveStepMoves DEF TypeOK, FundsInv
    <3>2. CASE ReceiveFailRequest(t) \/ ReceivePaymentReady(t)
      <4>1. /\ payments'.htlcs = payments.htlcs
            /\ payments'.trampoline = payments.trampoline
            /\ payments'.amount_received = payments.amount_received
            /\ payments'.payment_ready > 0 => payments.payment_ready > 0
            /\ payments'.is_ready = payments.is_ready
            /\ payments'.is_fail_requested = payments.is_fail_requested
        BY <3>1, <3>2 DEF ReceiveFailRequest, ReceivePaymentReady, Payment
      <4>2. QED
        BY <3>1, <4>1 DEF PaymentFunds, CompleteIsReady
    <3>3. CASE UNCHANGED payments
      BY <3>1, <3>3
    <3>4. QED
      BY <1>4, <3>2, <3>3
         DEF ActiveStep, FetchPayment, WaitPayment, RecoverAttempt,
             RecoverState, TimeOut, ReadParams, ReadHeight, AddState,
             AddAttempt, PayReturns
  <2>3. \A u \in Lifecycle : TaskFunds(u)'
    BY <1>4, <2>1, ActiveFunds DEF FundsInv, TaskFunds, Active
  <2>4. QED
    BY <2>1, <2>2, <2>3 DEF FundsInv, Solvent, Live
<1>5. ASSUME NEW t \in Lifecycle, Resolve(t) \/ ClosingStep(t)
      PROVE  FundsInv'
  <2>1. /\ UNCHANGED outgoing
        /\ \A u \in Lifecycle \ {t} : pc'[u] = pc[u] /\ life'[u] = life[u]
        /\ pc'[t] \notin Active
    BY <1>5
       DEF Resolve, ClosingStep, FailAttempt, FailState, SucceedPayment,
           SucceedAttempt, Finish, Goto, TypeOK, Locals, Active
  <2>2. \/ UNCHANGED payments
        \/ payments' = NoPayment /\ \A u \in Lifecycle : pc'[u] \notin Active
    <3>1. CASE Resolve(t)
      BY <2>1, <3>1 DEF Resolve, Active, OneTaskPerPayment
    <3>2. CASE ClosingStep(t)
      BY <3>2, ClosingStepMoves
    <3>3. QED
      BY <1>5, <3>1, <3>2
  <2>3. \A u \in Lifecycle : TaskFunds(u)'
    BY <2>1, <2>2 DEF FundsInv, TaskFunds, Active
  <2>4. QED
    BY <2>1, <2>2, <2>3 DEF FundsInv, Solvent, Live
<1>6. ASSUME NEW t \in Lifecycle, SendPart(t)
      PROVE  FundsInv'
  <2>1. /\ UNCHANGED <<payments, pc, life>> /\ pc[t] = "pay"
        /\ outgoing'.backing = life[t].backing
        /\ outgoing'.spent = InvoiceAmount[life[t].trampoline]
                             + life[t].max_fee
    BY <1>6 DEF SendPart, TypeOK, Outgoing
  <2>2. outgoing'.spent <= SumOf(Amount, outgoing'.backing)
    BY <2>1 DEF FundsInv, TaskFunds
  <2>3. Solvent'
    <3>1. outgoing'.spent \in Nat
      BY <2>1, HtlcAssumption DEF TypeOK, Locals
    <3>2. SumOf(Amount, outgoing'.backing) \in Nat
      BY <2>1, SumOfType DEF TypeOK, Locals
    <3>3. QED
      BY <2>2, <3>1, <3>2 DEF Solvent
  <2>4. QED
    BY <2>1, <2>3 DEF FundsInv, TaskFunds
<1>7. CASE PartSucceeds \/ PartsFail
  <2>1. UNCHANGED <<payments, pc, life>>
    BY <1>7 DEF PartSucceeds, PartsFail
  <2>2. Live' => /\ Live
                 /\ outgoing'.backing = outgoing.backing
                 /\ outgoing'.spent = outgoing.spent
    <3>1. CASE PartSucceeds
      BY <3>1 DEF PartSucceeds, Live, TypeOK, Outgoing
    <3>2. CASE PartsFail
      BY <3>2 DEF PartsFail, Live, NoOutgoing, TypeOK, Outgoing
    <3>3. QED
      BY <1>7, <3>1, <3>2
  <2>3. QED
    BY <2>1, <2>2 DEF FundsInv, TaskFunds, Solvent
<1>8. CASE MineBlock \/ UpdateHeight \/ UNCHANGED vars
  <2>1. UNCHANGED <<payments, pc, life, outgoing>>
    BY <1>8 DEF MineBlock, UpdateHeight, vars
  <2>2. QED
    BY <2>1 DEF FundsInv, TaskFunds, Solvent, Live
<1>9. CASE Crash
  BY <1>9 DEF Crash, FundsInv, TaskFunds, Solvent, Live, Active
<1>10. QED
  BY <1>1, <1>2, <1>3, <1>4, <1>5, <1>6, <1>7, <1>8, <1>9, NextCases

LEMMA FundsAreInvariant == Spec => []FundsInv
<1>1. Init => FundsInv
  BY DEF Init, FundsInv, TaskFunds, Active, Solvent, Live, NoOutgoing
<1>2. Bookkeeping /\ FundsInv /\ [Next]_vars => FundsInv'
  BY FundsStep
<1>3. QED
  BY <1>1, <1>2, BookkeepingIsInvariant, PTL DEF Spec

(* The HTLCs behind what is outgoing are worth the amount of the invoice   *)
(* and the maximum fee given to pay, whichever calls fail and however the  *)
(* HTLCs, requests and crashes interleave.                                 *)
THEOREM AlwaysSolvent == Spec => []Solvent
<1>1. FundsInv => Solvent
  BY DEF FundsInv
<1>2. QED
  BY <1>1, FundsAreInvariant, PTL

(* What a task pays against was held and covers the amount of its invoice  *)
(* and the policy's fee: a readiness that a failure request took back, or  *)
(* an HTLC of another invoice, does not get a payment made too early.      *)
THEOREM OnlySufficientIsPaid == Spec => []PaysWhenSufficient
<1>1. FundsInv => PaysWhenSufficient
  BY DEF FundsInv, TaskFunds, PaysWhenSufficient
<1>2. QED
  BY <1>1, FundsAreInvariant, PTL

-----------------------------------------------------------------------------
(* No wakeup is lost: a payment that is ready, or that is to fail, has the *)
(* message in its channel for as long as the task has not looked.          *)
Wakeup(p) ==
    /\ p.is_ready => p.payment_ready > 0
    /\ p.is_fail_requested => p.fail_requested # <<>>

WakeupInv == \A t \in Lifecycle : pc[t] \in Waiting => Wakeup(payments)

(* A failure request and an added HTLC send what they announce.            *)
LEMMA WakeupOfAdded ==
    ASSUME NEW p \in Payment, Wakeup(p), NEW h \in Htlc,
           NEW f \in Failure \cup {"none"}
    PROVE  Wakeup(AddHtlc(Fail(p, f), h))
<1> DEFINE r == Fail(p, f)
           q == AddHtlc(r, h)
           b == BecomesReady(r, WrappingAdd(r.amount_received, Amount[h]))
<1>1. r \in Payment
  BY FailType
<1>2. Wakeup(r)
  <2>1. CASE r = p
    BY <2>1
  <2>2. CASE /\ ~r.is_ready
             /\ r.fail_requested = Append(p.fail_requested, f)
    <3>1. Append(p.fail_requested, f) # <<>>
      BY DEF Payment
    <3>2. QED
      BY <2>2, <3>1 DEF Wakeup
  <2>3. QED
    BY <2>1, <2>2 DEF Fail, Payment
<1> HIDE DEF r
<1>3. /\ q.payment_ready = IF b THEN r.payment_ready + 1 ELSE r.payment_ready
      /\ q.is_ready = IF b THEN TRUE ELSE r.is_ready
      /\ q.is_fail_requested = r.is_fail_requested
      /\ q.fail_requested = r.fail_requested
  BY <1>1 DEF AddHtlc, Payment
<1> HIDE DEF b, q
<1>4. r.payment_ready \in Nat
  BY <1>1 DEF Payment
<1>5. Wakeup(q)
  BY <1>2, <1>3, <1>4 DEF Wakeup
<1>6. QED
  BY <1>5 DEF q, r

LEMMA WakeupStep ==
    ASSUME Bookkeeping, WakeupInv, [Next]_vars
    PROVE  WakeupInv'
<1> TypeOK /\ OneTaskPerPayment
  BY DEF Bookkeeping
<1>1. ASSUME NEW h \in Htlc, JoinPayment(h)
      PROVE  WakeupInv'
  <2>1. payments \in Payment /\ UNCHANGED pc
    BY <1>1 DEF JoinPayment, IsVacant, TypeOK
  <2>2. Wakeup(payments) => Wakeup(payments')
    BY <1>1, <2>1, FailureOfType, WakeupOfAdded DEF JoinPayment
  <2>3. QED
    BY <2>1, <2>2 DEF WakeupInv
<1>2. ASSUME NEW h \in Htlc, NEW t \in Lifecycle, StartPayment(h, t)
      PROVE  WakeupInv'
  <2>1. NewPayment(Info[h]) \in Payment /\ Wakeup(NewPayment(Info[h]))
    BY HtlcAssumption, NewPaymentType DEF NewPayment, Wakeup
  <2>2. Wakeup(payments')
    BY <1>2, <2>1, FailureOfType, WakeupOfAdded DEF StartPayment
  <2>3. QED
    BY <2>2 DEF WakeupInv
<1>3. ASSUME NEW t \in Lifecycle, ActiveStep(t)
      PROVE  WakeupInv'
  <2>1. /\ pc[t] \in Active
        /\ \A u \in Lifecycle \ {t} : pc'[u] = pc[u] /\ pc[u] \notin Active
    BY <1>3, ActiveStepMoves DEF Goto, TypeOK, OneTaskPerPayment
  <2>2. pc'[t] \in Waiting => pc[t] \in Waiting /\ UNCHANGED payments
    BY <1>3
       DEF ActiveStep, FetchPayment, WaitPayment, WaitPaymentFails,
           RecoverAttempt, RecoverState, RecoveryFails, TimeOut,
           ReceiveFailRequest, ReceivePaymentReady, ReadParams, ReadHeight,
           AddState, AddAttempt, PayReturns, ResolveWith, Goto, TypeOK,
           Waiting
  <2>3. QED
    BY <2>1, <2>2 DEF WakeupInv, Waiting, Active
<1>4. ASSUME NEW t \in Lifecycle, Resolve(t) \/ ClosingStep(t)
      PROVE  WakeupInv'
  <2>1. /\ \A u \in Lifecycle \ {t} : pc'[u] = pc[u]
        /\ pc'[t] \notin Waiting
    BY <1>4
       DEF Resolve, ClosingStep, FailAttempt, FailState, SucceedPayment,
           SucceedAttempt, Finish, Goto, TypeOK, Locals, Waiting
  <2>2. UNCHANGED payments \/ \A u \in Lifecycle : pc'[u] \notin Waiting
    <3>1. CASE Resolve(t)
      BY <2>1, <3>1 DEF Resolve, Active, Waiting, OneTaskPerPayment
    <3>2. CASE ClosingStep(t)
      BY <3>2, ClosingStepMoves
    <3>3. QED
      BY <1>4, <3>1, <3>2
  <2>3. QED
    BY <2>1, <2>2 DEF WakeupInv
<1>5. CASE Crash
  BY <1>5 DEF Crash, WakeupInv, Waiting
<1>6. CASE UNCHANGED <<payments, pc>>
  BY <1>6 DEF WakeupInv, Wakeup
<1>7. QED
  BY <1>1, <1>2, <1>3, <1>4, <1>5, <1>6, NextCases
     DEF AnswerUntouched, CommitAnswer, SendPart, PartSucceeds, PartsFail,
         MineBlock, UpdateHeight, vars

(* A payment that is complete is announced to its task, or a failure is:   *)
(* no order of HTLCs, failure requests and replays loses both messages.    *)
THEOREM CompletePaymentIsAnnounced == Spec => []CompleteIsAnnounced
<1>1. Init => WakeupInv
  BY DEF Init, WakeupInv, Waiting
<1>2. Bookkeeping /\ WakeupInv /\ [Next]_vars => WakeupInv'
  BY WakeupStep
<1>3. Bookkeeping /\ FundsInv /\ WakeupInv => CompleteIsAnnounced
  <2> SUFFICES ASSUME Bookkeeping, FundsInv, WakeupInv,
                      NEW t \in Lifecycle, pc[t] \in Waiting,
                      FeeSufficient(RoutingPolicy,
                                    SumOf(Amount, payments.htlcs),
                                    InvoiceAmount[payments.trampoline])
               PROVE  \/ payments.payment_ready > 0
                      \/ payments.fail_requested # <<>>
    BY DEF CompleteIsAnnounced
  <2>1. payments # NoPayment
    BY DEF Bookkeeping, OneTaskPerPayment, Waiting, Active
  <2>2. payments.is_ready \/ payments.is_fail_requested
    BY <2>1 DEF FundsInv, PaymentFunds, CompleteIsReady
  <2>3. QED
    BY <2>2 DEF WakeupInv, Wakeup
<1>4. QED
  BY <1>1, <1>2, <1>3, BookkeepingIsInvariant, FundsAreInvariant, PTL
     DEF Spec
=============================================================================
