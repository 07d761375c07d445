------------------------ MODULE HtlcManagerMoneyProofs ------------------------
(***************************************************************************)
(* Proofs that HtlcManager loses no money: an HTLC behind an outgoing      *)
(* payment is not given back, over crashes, failing writes and tasks that  *)
(* mark an old attempt failed while a new one is under way.                *)
(***************************************************************************)
EXTENDS HtlcManagerProofs

-----------------------------------------------------------------------------
(* The inductive invariant behind the safety properties.                   *)

(* What the proofs assume of the environment: reading the datastore does   *)
(* not fail, pay does not report a failure while something is outgoing,    *)
(* and a restart does not change the option on self route hints.  Writes   *)
(* to the datastore and waits for a pending payment may fail.              *)
ReliableCalls ==
    /\ "fetch" \notin Faults
    /\ "pay" \notin Faults
    /\ \A a, b \in SelfRouteHints : a = b

(* The steps at which a task knows that nothing is outgoing.               *)
BeforePay == {"recover_attempt", "recover_state", "select", "params",
              "height", "add_state", "add_attempt"}

(* A task at these steps holds the generation of the state row it wrote.   *)
HoldsGeneration(t) ==
    \/ pc[t] \in {"add_attempt", "pay", "fail_attempt", "fail_state"}
    \/ pc[t] = "resolve" /\ life[t].then = "fail_attempt"

TaskInv(t) ==
    /\ pc[t] \in BeforePay => ~Live
    /\ pc[t] = "resolve" =>
          /\ life[t].resp \in Failure \cup {"resolve"}
          /\ life[t].resp = "resolve" => outgoing.paid
          /\ life[t].resp \in Failure => ~Live
          /\ life[t].then = "succeed_state" => outgoing.paid
          /\ life[t].then = "fail_attempt" => ~Live
    /\ pc[t] \in {"succeed_state", "succeed_attempt"} => outgoing.paid
    /\ pc[t] \in {"add_attempt", "pay"} =>
          store.state \in {"pending", "succeeded"}
    /\ pc[t] \in {"height", "add_state", "add_attempt", "pay"} =>
          life[t].backing \subseteq payments.htlcs
    /\ pc[t] = "pay" /\ Live => outgoing.backing = life[t].backing

(* A task that still has to mark its attempt failed, after it answered,    *)
(* may find another attempt begun: then its generation is out of date.     *)
GenerationInv(t) ==
    /\ HoldsGeneration(t) =>
          store.state # "absent" /\ life[t].generation <= store.generation
    /\ /\ pc[t] \in {"fail_attempt", "fail_state"}
       /\ life[t].generation = store.generation
       => ~Live /\ \A u \in Lifecycle : pc[u] \notin {"add_attempt", "pay"}

HtlcInv(h) ==
    /\ answer[h] = "resolve" => outgoing.paid
    /\ status[h] = "settled" => answer[h] = "resolve"
    /\ status[h] = "held" => IsTrampoline(h)

BackingInv ==
    Live => \A h \in outgoing.backing : Claimable(h) /\ IsTrampoline(h)

StoreInv ==
    /\ OutgoingIsRecorded
    /\ store.state = "succeeded" => outgoing.paid

MoneyInv ==
    /\ \A t \in Lifecycle : TaskInv(t)
    /\ \A t \in Lifecycle : GenerationInv(t)
    /\ \A h \in Htlc : HtlcInv(h)
    /\ BackingInv
    /\ StoreInv

-----------------------------------------------------------------------------
(* What the writes of the datastore do to the state row.                   *)
LEMMA WriteStateRow ==
    ASSUME NEW s \in Store, NEW st, NEW a
    PROVE  /\ WriteState(s, st, a).state = st
           /\ s.state # "absent" =>
                  WriteState(s, st, a).generation = s.generation + 1
           /\ WriteState(s, st, a).generation \in Nat
<1>1. s.generation \in Nat
  BY DEF Store
<1>2. QED
  BY <1>1 DEF WriteState, Store

LEMMA WriteAttemptRow ==
    ASSUME NEW s \in Store, NEW a, NEW i
    PROVE  /\ WriteAttempt(s, a, i).state = s.state
           /\ WriteAttempt(s, a, i).generation = s.generation
BY DEF WriteAttempt, Store

(* A write to a row of an attempt leaves the state row alone, whatever     *)
(* its outcome.                                                            *)
LEMMA AttemptOutcome ==
    ASSUME TypeOK, NEW allowed, NEW a, NEW i,
           \/ Written(allowed, WriteAttempt(store, a, i))
           \/ WriteFails(allowed, WriteAttempt(store, a, i))
    PROVE  store'.state = store.state /\ store'.generation = store.generation
BY WriteAttemptRow DEF TypeOK, Written, WriteFails

(* A write to the state row leaves it as it was or replaces it.            *)
LEMMA StateOutcome ==
    ASSUME TypeOK, NEW allowed, NEW st, NEW a,
           \/ Written(allowed, WriteState(store, st, a))
           \/ WriteFails(allowed, WriteState(store, st, a))
    PROVE  \/ store' = store
           \/ /\ allowed
              /\ store'.state = st
              /\ store.state # "absent" =>
                     store'.generation = store.generation + 1
BY WriteStateRow DEF TypeOK, Written, WriteFails

LEMMA GenerationIsNat ==
    ASSUME TypeOK
    PROVE  /\ store.generation \in Nat
           /\ \A t \in Lifecycle : life[t].generation \in Nat
BY DEF TypeOK, Store, Locals

(* Only the active task has anything but the success of a payment to       *)
(* care about.                                                             *)
LEMMA InactiveTaskInv ==
    ASSUME NEW t \in Lifecycle, pc[t] \notin Active,
           pc[t] \in {"succeed_state", "succeed_attempt"} => outgoing.paid
    PROVE  TaskInv(t)
BY DEF TaskInv, BeforePay, Active

-----------------------------------------------------------------------------
(* The invariant holds at first.                                           *)
LEMMA MoneyInit == Init => MoneyInv
<1> SUFFICES ASSUME Init PROVE MoneyInv
  OBVIOUS
<1>1. \A t \in Lifecycle : TaskInv(t) /\ GenerationInv(t)
  BY DEF Init, TaskInv, GenerationInv, HoldsGeneration, BeforePay
<1>2. \A h \in Htlc : HtlcInv(h)
  BY DEF Init, HtlcInv
<1>3. BackingInv /\ StoreInv
  BY DEF Init, BackingInv, StoreInv, OutgoingIsRecorded, Live, NoOutgoing,
         EmptyStore
<1>4. QED
  BY <1>1, <1>2, <1>3 DEF MoneyInv

-----------------------------------------------------------------------------
(* What every step of a task before its resolve leaves alone.              *)
LEMMA ActiveFrame ==
    ASSUME Bookkeeping, MoneyInv, NEW t \in Lifecycle, ActiveStep(t)
    PROVE  /\ \A u \in Lifecycle \ {t} :
                  /\ TaskInv(u)'
                  /\ pc'[u] = pc[u] /\ pc[u] \notin Active
                  /\ life'[u] = life[u]
           /\ \A h \in Htlc : HtlcInv(h)'
           /\ BackingInv'
           /\ outgoing' = outgoing
           /\ payments'.htlcs = payments.htlcs
<1>1. UNCHANGED <<status, answer, outgoing, node>>
  BY DEF ActiveStep, FetchPayment, WaitPayment, RecoverAttempt, RecoverState,
         TimeOut, ReceiveFailRequest, ReceivePaymentReady, ReadParams,
         ReadHeight, AddState, AddAttempt, PayReturns
<1>2. \A u \in Lifecycle \ {t} : life'[u] = life[u]
  BY DEF ActiveStep, FetchPayment, WaitPayment, WaitPaymentFails,
         RecoverAttempt, RecoverState, RecoveryFails, TimeOut,
         ReceiveFailRequest, ReceivePaymentReady, ReadParams, ReadHeight,
         AddState, AddAttempt, PayReturns, ResolveWith, Bookkeeping, TypeOK
<1>3. \A u \in Lifecycle \ {t} : pc'[u] = pc[u] /\ pc[u] \notin Active
  BY ActiveStepMoves DEF Goto, Bookkeeping, TypeOK, OneTaskPerPayment
<1>4. \A u \in Lifecycle \ {t} : TaskInv(u)'
  <2> SUFFICES ASSUME NEW u \in Lifecycle \ {t} PROVE TaskInv(u)'
    OBVIOUS
  <2>1. TaskInv(u)
    BY DEF MoneyInv
  <2>2. QED
    BY <1>1, <1>3, <2>1 DEF TaskInv, BeforePay, Active
<1>5. \A h \in Htlc : HtlcInv(h)'
  BY <1>1 DEF MoneyInv, HtlcInv, IsTrampoline, node
<1>6. BackingInv'
  BY <1>1 DEF MoneyInv, BackingInv, Live, Claimable, IsTrampoline, node
<1>7. payments'.htlcs = payments.htlcs
  BY ActiveStepMoves DEF Bookkeeping
<1>8. QED
  BY <1>1, <1>2, <1>3, <1>4, <1>5, <1>6, <1>7

(* The generations held by the other tasks stay in order when the state    *)
(* row keeps its generation and the task does not begin an attempt.        *)
LEMMA GenerationFrame ==
    ASSUME Bookkeeping, MoneyInv, NEW t \in Lifecycle, ActiveStep(t),
           store'.generation = store.generation,
           store.state # "absent" => store'.state # "absent",
           pc'[t] \in {"add_attempt", "pay"} => pc[t] \in {"add_attempt", "pay"}
    PROVE  \A u \in Lifecycle \ {t} : GenerationInv(u)'
<1> SUFFICES ASSUME NEW u \in Lifecycle \ {t} PROVE GenerationInv(u)'
  OBVIOUS
<1>1. GenerationInv(u)
  BY DEF MoneyInv
<1>2. QED
  BY <1>1, ActiveFrame DEF GenerationInv, HoldsGeneration, Live

(* They are out of date once the state row has a new generation.           *)
LEMMA OutdatedGeneration ==
    ASSUME TypeOK, NEW u \in Lifecycle, GenerationInv(u),
           pc'[u] = pc[u], life'[u] = life[u],
           store'.state # "absent",
           store.state # "absent" => store'.generation = store.generation + 1
    PROVE  GenerationInv(u)'
<1>1. /\ store.generation \in Nat /\ life[u].generation \in Nat
  BY GenerationIsNat
<1>2. CASE HoldsGeneration(u)
  <2>1. /\ life'[u].generation <= store'.generation
        /\ life'[u].generation # store'.generation
    BY <1>1, <1>2 DEF GenerationInv
  <2>2. QED
    BY <2>1 DEF GenerationInv
<1>3. CASE ~HoldsGeneration(u)
  BY <1>3 DEF GenerationInv, HoldsGeneration
<1>4. QED
  BY <1>2, <1>3

LEMMA GenerationMoves ==
    ASSUME Bookkeeping, MoneyInv, NEW t \in Lifecycle, ActiveStep(t),
           store'.state # "absent",
           store.state # "absent" => store'.generation = store.generation + 1
    PROVE  \A u \in Lifecycle \ {t} : GenerationInv(u)'
BY ActiveFrame, OutdatedGeneration DEF Bookkeeping, MoneyInv

-----------------------------------------------------------------------------
(* The steps before a resolve, by what they do to the store.               *)

(* The steps that leave the state row alone, and the two that begin or     *)
(* free it.                                                                *)
LEMMA ActiveKinds ==
    ASSUME TypeOK, NEW t \in Lifecycle, ActiveStep(t)
    PROVE  \/ AddState(t)
           \/ RecoverState(t)
           \/ /\ store'.state = store.state
              /\ store'.generation = store.generation
              /\ ~AddState(t) /\ ~RecoverState(t)
<1>1. CASE RecoverAttempt(t)
  <2>1. store'.state = store.state /\ store'.generation = store.generation
    BY <1>1, AttemptOutcome DEF RecoverAttempt, FailAttemptInfo
  <2>2. QED
    BY <1>1, <2>1 DEF RecoverAttempt, AddState, RecoverState
<1>2. CASE AddAttempt(t)
  <2>1. store'.state = store.state /\ store'.generation = store.generation
    BY <1>2, AttemptOutcome DEF AddAttempt, AddAttemptInfo
  <2>2. QED
    BY <1>2, <2>1 DEF AddAttempt, AddState, RecoverState
<1>3. CASE store' = store
  BY <1>3
<1>4. QED
  BY <1>1, <1>2, <1>3
     DEF ActiveStep, FetchPayment, WaitPayment, TimeOut, ReceiveFailRequest,
         ReceivePaymentReady, ReadParams, ReadHeight, PayReturns

(* Going to the resolve with a failure is safe while nothing is outgoing.  *)
LEMMA ResolveWithFailure ==
    ASSUME Bookkeeping, ~Live, outgoing' = outgoing, NEW t \in Lifecycle,
           NEW f \in Failure, NEW n \in {"done", "fail_attempt"},
           ResolveWith(t, f, n)
    PROVE  TaskInv(t)'
<1>1. /\ pc'[t] = "resolve"
      /\ life'[t].resp = f /\ life'[t].then = n
  BY DEF ResolveWith, Goto, Bookkeeping, TypeOK, Locals
<1>2. f # "resolve" /\ n # "succeed_state"
  BY DEF Failure
<1>3. QED
  BY <1>1, <1>2 DEF TaskInv, BeforePay, Live

(* And with the preimage once it was paid.                                 *)
LEMMA ResolveWithPreimage ==
    ASSUME Bookkeeping, outgoing.paid, outgoing' = outgoing,
           NEW t \in Lifecycle, NEW n \in {"done", "succeed_state"},
           ResolveWith(t, "resolve", n)
    PROVE  TaskInv(t)'
<1>1. /\ pc'[t] = "resolve"
      /\ life'[t].resp = "resolve" /\ life'[t].then = n
  BY DEF ResolveWith, Goto, Bookkeeping, TypeOK, Locals
<1>2. QED
  BY <1>1 DEF TaskInv, BeforePay, Failure

LEMMA ActiveTaskInv ==
    ASSUME ReliableCalls, Bookkeeping, MoneyInv,
           NEW t \in Lifecycle, ActiveStep(t)
    PROVE  TaskInv(t)'
<1> TaskInv(t) /\ StoreInv
  BY DEF MoneyInv
<1> outgoing' = outgoing /\ payments'.htlcs = payments.htlcs
  BY ActiveFrame
<1>a. {"temporary_trampoline_failure", "temporary_node_failure"}
          \subseteq Failure
  BY DEF Failure
<1>b. TypeOK
  BY DEF Bookkeeping
<1>1. CASE FetchPayment(t)
  <2>1. CASE FetchPaymentInfo(store) = "free" /\ Goto(t, "select")
    <3>1. ~Live
      BY <2>1 DEF FetchPaymentInfo, StoreInv, OutgoingIsRecorded
    <3>2. pc'[t] = "select"
      BY <1>b, <2>1 DEF Goto, TypeOK
    <3>3. QED
      BY <3>1, <3>2 DEF TaskInv, Live
  <2>2. CASE Goto(t, "wait_payment")
    <3>1. pc'[t] = "wait_payment"
      BY <1>b, <2>2 DEF Goto, TypeOK
    <3>2. QED
      BY <3>1 DEF TaskInv, BeforePay
  <2>3. CASE FetchPaymentInfo(store) = "succeeded"
             /\ ResolveWith(t, "resolve", "done")
    <3>1. outgoing.paid
      BY <2>3 DEF FetchPaymentInfo, StoreInv
    <3>2. QED
      BY <2>3, <3>1, ResolveWithPreimage
  <2>4. QED
    BY <1>1, <2>1, <2>2, <2>3 DEF FetchPayment, ReliableCalls
<1>2. CASE WaitPayment(t)
  <2>1. CASE outgoing.paid /\ ResolveWith(t, "resolve", "succeed_state")
    BY <2>1, ResolveWithPreimage
  <2>2. CASE ~Live /\ Goto(t, "recover_attempt")
    <3>1. pc'[t] = "recover_attempt"
      BY <1>b, <2>2 DEF Goto, TypeOK
    <3>2. QED
      BY <2>2, <3>1 DEF TaskInv, Live
  <2>3. CASE WaitPaymentFails(t)
    <3>1. pc'[t] = "panicked"
      BY <1>b, <2>3 DEF WaitPaymentFails, Goto, TypeOK
    <3>2. QED
      BY <3>1 DEF TaskInv, BeforePay
  <2>4. QED
    BY <1>2, <2>1, <2>2, <2>3 DEF WaitPayment
<1>3. CASE RecoverAttempt(t) \/ RecoverState(t)
  <2>1. ~Live
    BY <1>3 DEF RecoverAttempt, RecoverState, TaskInv, BeforePay
  <2>2. CASE RecoveryFails(t)
    BY <1>a, <2>1, <2>2, ResolveWithFailure DEF RecoveryFails
  <2>3. CASE Goto(t, "recover_state") \/ Goto(t, "select")
    <3>1. pc'[t] \in {"recover_state", "select"}
      BY <1>b, <2>3 DEF Goto, TypeOK
    <3>2. QED
      BY <2>1, <3>1 DEF TaskInv, Live
  <2>4. QED
    BY <1>3, <2>2, <2>3 DEF RecoverAttempt, RecoverState
<1>4. CASE TimeOut(t)
  <2>1. ~Live
    BY <1>4 DEF TimeOut, TaskInv, BeforePay
  <2>2. QED
    BY <1>4, <1>a, <2>1, ResolveWithFailure DEF TimeOut
<1>5. CASE ReceiveFailRequest(t)
  <2>1. ~Live
    BY <1>5 DEF ReceiveFailRequest, TaskInv, BeforePay
  <2>2. payments \in Payment
    BY <1>b, <1>5, ActiveStepMoves DEF Bookkeeping, TypeOK
  <2>3. Head(payments.fail_requested) \in Failure
    BY <1>5, <2>2 DEF ReceiveFailRequest, Payment
  <2>4. QED
    BY <1>5, <2>1, <2>3, ResolveWithFailure DEF ReceiveFailRequest
<1>6. CASE ReceivePaymentReady(t)
  <2>1. ~Live /\ pc'[t] = "params"
    BY <1>b, <1>6 DEF ReceivePaymentReady, TaskInv, BeforePay, Goto, TypeOK
  <2>2. QED
    BY <2>1 DEF TaskInv, Live
<1>7. CASE ReadParams(t)
  <2>1. ~Live /\ pc'[t] = "height"
    BY <1>b, <1>7 DEF ReadParams, TaskInv, BeforePay, Goto, TypeOK
  <2>2. life'[t].backing = payments.htlcs
    BY <1>b, <1>7 DEF ReadParams, TypeOK, Locals
  <2>3. QED
    BY <2>1, <2>2 DEF TaskInv, Live
<1>8. CASE ReadHeight(t)
  <2>1. ~Live /\ pc'[t] = "add_state" /\ pc[t] = "height"
    BY <1>b, <1>8 DEF ReadHeight, TaskInv, BeforePay, Goto, TypeOK
  <2>2. life'[t].backing = life[t].backing
    BY <1>b, <1>8 DEF ReadHeight, TypeOK, Locals
  <2>3. QED
    BY <2>1, <2>2 DEF TaskInv, Live
<1>9. CASE AddState(t)
  <2>1. ~Live /\ pc[t] = "add_state"
    BY <1>9 DEF AddState, TaskInv, BeforePay
  <2>2. CASE ResolveWith(t, "temporary_node_failure", "done")
    BY <1>a, <2>1, <2>2, ResolveWithFailure
  <2>3. CASE /\ Written(TRUE, AddAttemptState(store, t))
             /\ Goto(t, "add_attempt")
             /\ life' = [life EXCEPT ![t].attempt = t,
                           ![t].generation = AddAttemptState(store, t).generation]
    <3>1. store'.state = "pending"
      BY <1>b, <2>3, WriteStateRow DEF Written, AddAttemptState, TypeOK
    <3>2. pc'[t] = "add_attempt" /\ life'[t].backing = life[t].backing
      BY <1>b, <2>3 DEF Goto, TypeOK, Locals
    <3>3. QED
      BY <2>1, <3>1, <3>2 DEF TaskInv, Live
  <2>4. QED
    BY <1>9, <2>2, <2>3 DEF AddState
<1>10. CASE AddAttempt(t)
  <2>1. ~Live /\ pc[t] = "add_attempt"
    BY <1>10 DEF AddAttempt, TaskInv, BeforePay
  <2>2. CASE ResolveWith(t, "temporary_node_failure", "done")
    BY <1>a, <2>1, <2>2, ResolveWithFailure
  <2>3. CASE Goto(t, "pay") /\ UNCHANGED life
    <3>1. store'.state = store.state
      BY <1>10, <1>b, AttemptOutcome DEF AddAttempt, AddAttemptInfo
    <3>2. pc'[t] = "pay" /\ life'[t] = life[t]
      BY <1>b, <2>3 DEF Goto, TypeOK
    <3>3. QED
      BY <2>1, <3>1, <3>2 DEF TaskInv, Live, BeforePay
  <2>4. QED
    BY <1>10, <2>2, <2>3 DEF AddAttempt
<1>11. CASE PayReturns(t)
  <2>1. CASE outgoing.paid /\ ResolveWith(t, "resolve", "succeed_state")
    BY <2>1, ResolveWithPreimage
  <2>2. CASE ~Live /\ ResolveWith(t, "temporary_trampoline_failure",
                                    "fail_attempt")
    BY <1>a, <2>2, ResolveWithFailure
  <2>3. QED
    BY <1>11, <2>1, <2>2 DEF PayReturns, ReliableCalls
<1>12. QED
  BY <1>1, <1>2, <1>3, <1>4, <1>5, <1>6, <1>7, <1>8, <1>9, <1>10, <1>11
     DEF ActiveStep

(* What a step does to the generation the task holds: only AddState begins *)
(* to hold one.                                                            *)
LEMMA ActiveHolds ==
    ASSUME Bookkeeping, NEW t \in Lifecycle, ActiveStep(t), ~AddState(t)
    PROVE  /\ HoldsGeneration(t)' =>
                  HoldsGeneration(t) /\ life'[t].generation = life[t].generation
           /\ pc'[t] \in {"add_attempt", "pay"} => pc[t] = "add_attempt"
           /\ pc'[t] \notin {"fail_attempt", "fail_state"}
<1> TypeOK
  BY DEF Bookkeeping
<1>1. CASE AddAttempt(t)
  <2>1. CASE Goto(t, "pay") /\ UNCHANGED life
    BY <1>1, <2>1 DEF AddAttempt, Goto, TypeOK, HoldsGeneration
  <2>2. CASE ResolveWith(t, "temporary_node_failure", "done")
    BY <1>1, <2>2 DEF AddAttempt, ResolveWith, Goto, TypeOK, Locals,
                      HoldsGeneration
  <2>3. QED
    BY <1>1, <2>1, <2>2 DEF AddAttempt
<1>2. CASE PayReturns(t)
  BY <1>2 DEF PayReturns, ResolveWith, Goto, TypeOK, Locals, HoldsGeneration
<1>3. CASE \E s \in {"wait_payment", "select", "recover_attempt", "panicked",
                     "recover_state", "params", "height", "add_state"} :
               Goto(t, s)
  BY <1>3 DEF Goto, TypeOK, HoldsGeneration
<1>4. CASE \E r, n : n \in {"done", "succeed_state"} /\ ResolveWith(t, r, n)
  BY <1>4 DEF ResolveWith, Goto, TypeOK, Locals, HoldsGeneration
<1>5. QED
  BY <1>1, <1>2, <1>3, <1>4
     DEF ActiveStep, FetchPayment, WaitPayment, WaitPaymentFails,
         RecoverAttempt, RecoverState, RecoveryFails, TimeOut,
         ReceiveFailRequest, ReceivePaymentReady, ReadParams, ReadHeight

(* What begins or frees a payment leaves the store and the generations in  *)
(* order.                                                                  *)
LEMMA AddStateStore ==
    ASSUME Bookkeeping, MoneyInv, NEW t \in Lifecycle, AddState(t)
    PROVE  StoreInv' /\ \A u \in Lifecycle : GenerationInv(u)'
<1> ActiveStep(t) /\ TypeOK /\ StoreInv
  BY DEF ActiveStep, Bookkeeping, MoneyInv
<1> outgoing' = outgoing
  BY ActiveFrame
<1>1. \/ store' = store
      \/ /\ store'.state = "pending"
         /\ store.state # "absent" => store'.generation = store.generation + 1
  BY StateOutcome DEF AddState, AddAttemptState
<1>2. StoreInv'
  BY <1>1 DEF StoreInv, OutgoingIsRecorded, Live
<1>3. CASE Goto(t, "add_attempt")
           /\ Written(TRUE, AddAttemptState(store, t))
           /\ life' = [life EXCEPT ![t].attempt = t,
                         ![t].generation = AddAttemptState(store, t).generation]
  <2>1. /\ store'.state = "pending"
        /\ store.state # "absent" => store'.generation = store.generation + 1
        /\ store'.generation \in Nat
    BY <1>3, WriteStateRow DEF Written, AddAttemptState, TypeOK
  <2>2. \A u \in Lifecycle \ {t} : GenerationInv(u)'
    BY <2>1, GenerationMoves
  <2>3. pc'[t] = "add_attempt" /\ life'[t].generation = store'.generation
    BY <1>3 DEF Goto, Written, TypeOK, Locals
  <2>4. GenerationInv(t)'
    BY <2>1, <2>3 DEF GenerationInv, HoldsGeneration
  <2>5. QED
    BY <1>2, <2>2, <2>4
<1>4. CASE ResolveWith(t, "temporary_node_failure", "done")
  <2>1. pc'[t] = "resolve" /\ life'[t].then = "done"
    BY <1>4 DEF ResolveWith, Goto, TypeOK, Locals
  <2>2. GenerationInv(t)'
    BY <2>1 DEF GenerationInv, HoldsGeneration
  <2>3. CASE store' = store
    BY <1>2, <2>1, <2>2, <2>3, GenerationFrame
  <2>4. CASE store' # store
    BY <1>1, <1>2, <2>2, <2>4, GenerationMoves
  <2>5. QED
    BY <2>3, <2>4
<1>5. QED
  BY <1>3, <1>4 DEF AddState

LEMMA RecoverStateStore ==
    ASSUME Bookkeeping, MoneyInv, NEW t \in Lifecycle, RecoverState(t)
    PROVE  StoreInv' /\ \A u \in Lifecycle : GenerationInv(u)'
<1> ActiveStep(t) /\ TypeOK /\ StoreInv /\ TaskInv(t)
  BY DEF ActiveStep, Bookkeeping, MoneyInv
<1> outgoing' = outgoing /\ ~Live
  BY ActiveFrame DEF RecoverState, TaskInv, BeforePay
<1>1. \/ store' = store
      \/ /\ store'.state = "free"
         /\ store.state # "absent" => store'.generation = store.generation + 1
  BY StateOutcome DEF RecoverState, FreeState
<1>2. StoreInv'
  BY <1>1 DEF StoreInv, OutgoingIsRecorded, Live
<1>3. ~AddState(t)
  BY DEF AddState, RecoverState
<1>4. pc'[t] \in {"select", "resolve"}
  BY DEF RecoverState, RecoveryFails, ResolveWith, Goto, TypeOK
<1>5. GenerationInv(t)'
  <2>1. ~HoldsGeneration(t)
    BY DEF RecoverState, HoldsGeneration
  <2>2. QED
    BY <1>3, <2>1, ActiveHolds DEF GenerationInv
<1>6. CASE store' = store
  BY <1>2, <1>4, <1>5, <1>6, GenerationFrame
<1>7. CASE store' # store
  BY <1>1, <1>2, <1>5, <1>7, GenerationMoves
<1>8. QED
  BY <1>6, <1>7

LEMMA ActiveMoney ==
    ASSUME ReliableCalls, Bookkeeping, MoneyInv,
           NEW t \in Lifecycle, ActiveStep(t)
    PROVE  MoneyInv'
<1>1. /\ \A u \in Lifecycle : TaskInv(u)'
      /\ \A h \in Htlc : HtlcInv(h)'
      /\ BackingInv'
  BY ActiveFrame, ActiveTaskInv
<1>2. StoreInv' /\ \A u \in Lifecycle : GenerationInv(u)'
  <2>1. CASE AddState(t)
    BY <2>1, AddStateStore
  <2>2. CASE RecoverState(t)
    BY <2>2, RecoverStateStore
  <2>3. CASE /\ store'.state = store.state
             /\ store'.generation = store.generation
             /\ ~AddState(t) /\ ~RecoverState(t)
    <3>1. StoreInv'
      BY <2>3, ActiveFrame DEF MoneyInv, StoreInv, OutgoingIsRecorded, Live
    <3>2. \A u \in Lifecycle \ {t} : GenerationInv(u)'
      BY <2>3, ActiveHolds, GenerationFrame
    <3>3. GenerationInv(t)'
      BY <2>3, ActiveHolds DEF MoneyInv, GenerationInv
    <3>4. QED
      BY <3>1, <3>2, <3>3
  <2>4. QED
    BY <2>1, <2>2, <2>3, ActiveKinds DEF Bookkeeping
<1>3. QED
  BY <1>1, <1>2 DEF MoneyInv

-----------------------------------------------------------------------------
(* The resolve and the steps after it.                                     *)

LEMMA ResolveMoney ==
    ASSUME Bookkeeping, MoneyInv, NEW t \in Lifecycle, Resolve(t)
    PROVE  MoneyInv'
<1> TypeOK /\ TaskInv(t) /\ GenerationInv(t) /\ BackingInv /\ StoreInv
  BY DEF Bookkeeping, MoneyInv
<1>1. UNCHANGED <<store, outgoing, node>> /\ pc[t] = "resolve"
  BY DEF Resolve
<1>2. \A u \in Lifecycle \ {t} :
          /\ pc'[u] = pc[u] /\ pc[u] \notin Active
          /\ life'[u] = life[u]
  BY <1>1 DEF Resolve, Finish, Goto, TypeOK, Bookkeeping, OneTaskPerPayment,
              Active
<1>3. /\ pc'[t] = life[t].then
      /\ pc'[t] \in {"done", "fail_attempt", "succeed_state"}
      /\ pc'[t] # "done" => life'[t] = life[t]
  BY DEF Resolve, Finish, Goto, TypeOK, Locals
<1>4. \A u \in Lifecycle : TaskInv(u)'
  <2>1. TaskInv(t)'
    BY <1>1, <1>3 DEF TaskInv, BeforePay
  <2>2. ASSUME NEW u \in Lifecycle \ {t} PROVE TaskInv(u)'
    <3>1. TaskInv(u)
      BY DEF MoneyInv
    <3>2. QED
      BY <1>1, <1>2, <3>1 DEF TaskInv, BeforePay, Active
  <2>3. QED
    BY <2>1, <2>2
<1>5. \A u \in Lifecycle : pc'[u] \notin {"add_attempt", "pay"}
  BY <1>2, <1>3 DEF Active
<1>6. \A u \in Lifecycle : GenerationInv(u)'
  <2>1. GenerationInv(t)'
    <3>1. CASE pc'[t] = "fail_attempt"
      <4>1. ~Live /\ HoldsGeneration(t) /\ life'[t] = life[t]
        BY <1>1, <1>3, <3>1 DEF TaskInv, HoldsGeneration
      <4>2. QED
        BY <1>1, <1>5, <4>1 DEF GenerationInv, Live
    <3>2. CASE pc'[t] # "fail_attempt"
      BY <1>3, <3>2 DEF GenerationInv, HoldsGeneration
    <3>3. QED
      BY <3>1, <3>2
  <2>2. ASSUME NEW u \in Lifecycle \ {t} PROVE GenerationInv(u)'
    <3>1. GenerationInv(u)
      BY DEF MoneyInv
    <3>2. QED
      BY <1>1, <1>2, <1>5, <3>1 DEF GenerationInv, HoldsGeneration, Live
  <2>3. QED
    BY <2>1, <2>2
<1>7. \A h \in Htlc : HtlcInv(h)'
  <2> SUFFICES ASSUME NEW h \in Htlc PROVE HtlcInv(h)'
    OBVIOUS
  <2>1. HtlcInv(h)
    BY DEF MoneyInv
  <2>2. CASE h \in Listeners(payments)
    <3>1. status'[h] = "answered" /\ answer'[h] = life[t].resp
      BY <2>2 DEF Resolve
    <3>2. QED
      BY <1>1, <3>1 DEF HtlcInv, TaskInv
  <2>3. CASE h \notin Listeners(payments)
    <3>1. status'[h] = status[h] /\ answer'[h] = answer[h]
      BY <2>3 DEF Resolve
    <3>2. QED
      BY <1>1, <2>1, <3>1 DEF HtlcInv, IsTrampoline, node
  <2>4. QED
    BY <2>2, <2>3
<1>8. BackingInv'
  <2> SUFFICES ASSUME Live', NEW h \in outgoing.backing
               PROVE  (Claimable(h) /\ IsTrampoline(h))'
    BY <1>1 DEF BackingInv
  <2>1. Live /\ life[t].resp = "resolve"
    BY <1>1 DEF Live, TaskInv
  <2>2. Claimable(h) /\ IsTrampoline(h) /\ h \in Htlc
    BY <2>1 DEF BackingInv, TypeOK, Outgoing
  <2>3. CASE h \in Listeners(payments)
    BY <1>1, <2>1, <2>2, <2>3 DEF Resolve, Claimable, IsTrampoline, node
  <2>4. CASE h \notin Listeners(payments)
    BY <1>1, <2>2, <2>4 DEF Resolve, Claimable, IsTrampoline, node
  <2>5. QED
    BY <2>3, <2>4
<1>9. StoreInv'
  BY <1>1 DEF StoreInv, OutgoingIsRecorded, Live
<1>10. QED
  BY <1>4, <1>6, <1>7, <1>8, <1>9 DEF MoneyInv

(* What the steps after the resolve leave alone.                           *)
LEMMA ClosingFrame ==
    ASSUME Bookkeeping, MoneyInv, NEW t \in Lifecycle, ClosingStep(t)
    PROVE  /\ \A u \in Lifecycle \ {t} : pc'[u] = pc[u] /\ life'[u] = life[u]
           /\ pc'[t] \notin Active
           /\ \A h \in Htlc : HtlcInv(h)'
           /\ BackingInv'
           /\ UNCHANGED <<outgoing, payments>>
<1>1. UNCHANGED <<status, answer, outgoing, payments, node>>
  BY DEF ClosingStep, FailAttempt, FailState, SucceedPayment, SucceedAttempt
<1>2. \A u \in Lifecycle \ {t} : pc'[u] = pc[u]
  BY ClosingStepMoves DEF Goto, Bookkeeping, TypeOK
<1>3. pc'[t] \notin Active
  BY ClosingStepMoves DEF Goto, Bookkeeping, TypeOK
<1>4. \A u \in Lifecycle \ {t} : life'[u] = life[u]
  BY DEF ClosingStep, FailAttempt, FailState, SucceedPayment, SucceedAttempt,
         Finish, Bookkeeping, TypeOK
<1>5. \A h \in Htlc : HtlcInv(h)'
  BY <1>1 DEF MoneyInv, HtlcInv, IsTrampoline, node
<1>6. BackingInv'
  BY <1>1 DEF MoneyInv, BackingInv, Live, Claimable, IsTrampoline, node
<1>7. QED
  BY <1>1, <1>2, <1>3, <1>4, <1>5, <1>6

(* A task after its resolve that does not have a paid payment to record.   *)
LEMMA ClosingTaskInv ==
    ASSUME Bookkeeping, MoneyInv, NEW t \in Lifecycle, ClosingStep(t),
           pc'[t] \in {"succeed_state", "succeed_attempt"} => outgoing.paid,
           \A u \in Lifecycle : pc[u] \in {"add_attempt", "pay"} =>
               store'.state \in {"pending", "succeeded"}
    PROVE  \A u \in Lifecycle : TaskInv(u)'
<1>1. UNCHANGED <<outgoing, payments>>
  BY ClosingFrame
<1>2. TaskInv(t)'
  BY <1>1, ClosingFrame DEF TaskInv, BeforePay, Active
<1>3. ASSUME NEW u \in Lifecycle \ {t} PROVE TaskInv(u)'
  <2>1. TaskInv(u) /\ pc'[u] = pc[u] /\ life'[u] = life[u]
    BY ClosingFrame DEF MoneyInv
  <2>2. QED
    BY <1>1, <2>1 DEF TaskInv, Live
<1>4. QED
  BY <1>2, <1>3

(* The last writes: of an attempt's row.                                   *)
LEMMA ClosingAttemptMoney ==
    ASSUME Bookkeeping, MoneyInv, NEW t \in Lifecycle,
           FailAttempt(t) \/ SucceedAttempt(t)
    PROVE  MoneyInv'
<1> ClosingStep(t) /\ TypeOK /\ StoreInv /\ TaskInv(t) /\ GenerationInv(t)
  BY DEF ClosingStep, Bookkeeping, MoneyInv
<1>1. store'.state = store.state /\ store'.generation = store.generation
  BY AttemptOutcome DEF FailAttempt, FailAttemptInfo, SucceedAttempt,
                        SucceedAttemptInfo
<1>2. /\ pc'[t] \in {"fail_state", "done"}
      /\ pc'[t] = "fail_state" => pc[t] = "fail_attempt" /\ life'[t] = life[t]
  BY DEF FailAttempt, SucceedAttempt, Finish, Goto, TypeOK
<1>3. \A u \in Lifecycle : TaskInv(u)'
  <2>1. \A u \in Lifecycle : pc[u] \in {"add_attempt", "pay"} =>
            store'.state \in {"pending", "succeeded"}
    BY <1>1 DEF MoneyInv, TaskInv
  <2>2. QED
    BY <1>2, <2>1, ClosingTaskInv
<1>4. \A u \in Lifecycle : GenerationInv(u)'
  <2>1. GenerationInv(t)'
    <3>1. CASE pc'[t] = "fail_state"
      <4>1. pc[t] = "fail_attempt" /\ life'[t] = life[t]
        BY <1>2, <3>1
      <4>2. \A u \in Lifecycle :
                pc[u] \notin {"add_attempt", "pay"} =>
                    pc'[u] \notin {"add_attempt", "pay"}
        BY <1>2, ClosingFrame
      <4>3. QED
        BY <1>1, <3>1, <4>1, <4>2, ClosingFrame
           DEF GenerationInv, HoldsGeneration, Live
    <3>2. CASE pc'[t] = "done"
      BY <3>2 DEF GenerationInv, HoldsGeneration
    <3>3. QED
      BY <1>2, <3>1, <3>2
  <2>2. ASSUME NEW u \in Lifecycle \ {t} PROVE GenerationInv(u)'
    <3>1. GenerationInv(u) /\ pc'[u] = pc[u] /\ life'[u] = life[u]
      BY ClosingFrame DEF MoneyInv
    <3>2. \A v \in Lifecycle :
              pc[v] \notin {"add_attempt", "pay"} =>
                  pc'[v] \notin {"add_attempt", "pay"}
      BY <1>2, ClosingFrame
    <3>3. QED
      BY <1>1, <3>1, <3>2, ClosingFrame
         DEF GenerationInv, HoldsGeneration, Live
  <2>3. QED
    BY <2>1, <2>2
<1>5. StoreInv'
  BY <1>1, ClosingFrame DEF StoreInv, OutgoingIsRecorded, Live
<1>6. QED
  BY <1>3, <1>4, <1>5, ClosingFrame DEF MoneyInv

(* And of the state row.  To call the payment free takes the generation of *)
(* the attempt, with which nothing is outgoing and no attempt was begun.   *)
LEMMA ClosingStateMoney ==
    ASSUME Bookkeeping, MoneyInv, NEW t \in Lifecycle,
           FailState(t) \/ SucceedPayment(t)
    PROVE  MoneyInv'
<1> ClosingStep(t) /\ TypeOK /\ StoreInv /\ TaskInv(t) /\ GenerationInv(t)
  BY DEF ClosingStep, Bookkeeping, MoneyInv
<1>1. /\ pc'[t] \in {"succeed_attempt", "done"}
      /\ pc'[t] = "succeed_attempt" => outgoing.paid
  BY DEF FailState, SucceedPayment, Finish, Goto, TypeOK, TaskInv
<1>2. \/ store' = store
      \/ /\ store'.state = "free"
         /\ store.state # "absent" => store'.generation = store.generation + 1
         /\ ~Live /\ \A u \in Lifecycle : pc[u] \notin {"add_attempt", "pay"}
      \/ /\ store'.state = "succeeded"
         /\ store.state # "absent" => store'.generation = store.generation + 1
         /\ outgoing.paid
  <2>1. CASE FailState(t)
    <3>1. \/ store' = store
          \/ /\ FreeStateAllowed(store, life[t].generation)
             /\ store'.state = "free"
             /\ store.state # "absent" =>
                    store'.generation = store.generation + 1
      BY <2>1, StateOutcome DEF FailState, FreeState
    <3>2. FreeStateAllowed(store, life[t].generation) =>
              ~Live /\ \A u \in Lifecycle : pc[u] \notin {"add_attempt", "pay"}
      BY <2>1 DEF FailState, FreeStateAllowed, MayReplaceState, GenerationInv
    <3>3. QED
      BY <3>1, <3>2
  <2>2. CASE SucceedPayment(t)
    <3>1. \/ store' = store
          \/ /\ store'.state = "succeeded"
             /\ store.state # "absent" =>
                    store'.generation = store.generation + 1
      BY <2>2, StateOutcome DEF SucceedPayment, SucceedState
    <3>2. outgoing.paid
      BY <2>2 DEF SucceedPayment, TaskInv
    <3>3. QED
      BY <3>1, <3>2
  <2>3. QED
    BY <2>1, <2>2
<1>3. \A u \in Lifecycle : TaskInv(u)'
  <2>1. \A u \in Lifecycle : pc[u] \in {"add_attempt", "pay"} =>
            store'.state \in {"pending", "succeeded"}
    BY <1>2 DEF MoneyInv, TaskInv
  <2>2. QED
    BY <1>1, <2>1, ClosingTaskInv
<1>4. \A u \in Lifecycle : GenerationInv(u)'
  <2>1. GenerationInv(t)'
    BY <1>1 DEF GenerationInv, HoldsGeneration
  <2>2. ASSUME NEW u \in Lifecycle \ {t} PROVE GenerationInv(u)'
    <3>1. GenerationInv(u) /\ pc'[u] = pc[u] /\ life'[u] = life[u]
      BY ClosingFrame DEF MoneyInv
    <3>2. CASE store' = store
      <4>1. \A v \in Lifecycle :
                pc[v] \notin {"add_attempt", "pay"} =>
                    pc'[v] \notin {"add_attempt", "pay"}
        BY <1>1, ClosingFrame
      <4>2. QED
        BY <3>1, <3>2, <4>1, ClosingFrame
           DEF GenerationInv, HoldsGeneration, Live
    <3>3. CASE store' # store
      BY <1>2, <3>1, <3>3, OutdatedGeneration
    <3>4. QED
      BY <3>2, <3>3
  <2>3. QED
    BY <2>1, <2>2
<1>5. StoreInv'
  BY <1>2, ClosingFrame DEF StoreInv, OutgoingIsRecorded, Live
<1>6. QED
  BY <1>3, <1>4, <1>5, ClosingFrame DEF MoneyInv

-----------------------------------------------------------------------------
(* The handler of the hook, and lightningd.                                *)

(* The parts of the invariant that a step of no task and on no row keeps.  *)
LEMMA HandlerFrame ==
    ASSUME MoneyInv, UNCHANGED <<pc, life, store, outgoing>>,
           payments # NoPayment => payments.htlcs \subseteq payments'.htlcs,
           OneTaskPerPayment
    PROVE  /\ \A u \in Lifecycle : TaskInv(u)' /\ GenerationInv(u)'
           /\ StoreInv'
<1>1. \A u \in Lifecycle : TaskInv(u)'
  <2> SUFFICES ASSUME NEW u \in Lifecycle PROVE TaskInv(u)'
    OBVIOUS
  <2>1. TaskInv(u)
    BY DEF MoneyInv
  <2>2. pc[u] \in {"height", "add_state", "add_attempt", "pay"} =>
            payments # NoPayment
    BY DEF OneTaskPerPayment, Active
  <2>3. QED
    BY <2>1, <2>2 DEF TaskInv, Live
<1>2. \A u \in Lifecycle : GenerationInv(u)'
  BY DEF MoneyInv, GenerationInv, HoldsGeneration, Live
<1>3. StoreInv'
  BY DEF MoneyInv, StoreInv, OutgoingIsRecorded, Live
<1>4. QED
  BY <1>1, <1>2, <1>3

(* And what happens to one HTLC leaves the others alone.                   *)
LEMMA OtherHtlcs ==
    ASSUME Bookkeeping, MoneyInv, NEW h \in Htlc,
           UNCHANGED <<outgoing, node>>,
           \A g \in Htlc \ {h} : status'[g] = status[g] /\ answer'[g] = answer[g],
           HtlcInv(h)',
           Live /\ h \in outgoing.backing => Claimable(h)'
    PROVE  BackingInv' /\ \A g \in Htlc : HtlcInv(g)'
<1>1. outgoing.backing \subseteq Htlc
  BY DEF Bookkeeping, TypeOK, Outgoing
<1>2. \A g \in Htlc \ {h} : HtlcInv(g)'
  BY DEF MoneyInv, HtlcInv, IsTrampoline, node
<1>3. BackingInv'
  <2> SUFFICES ASSUME Live', NEW g \in outgoing.backing
               PROVE  (Claimable(g) /\ IsTrampoline(g))'
    BY DEF BackingInv
  <2>1. Live /\ Claimable(g) /\ IsTrampoline(g)
    BY DEF Live, MoneyInv, BackingInv
  <2>2. IsTrampoline(g)'
    BY <2>1 DEF IsTrampoline, node
  <2>3. Claimable(g)'
    BY <1>1, <2>1 DEF Claimable
  <2>4. QED
    BY <2>2, <2>3
<1>4. QED
  BY <1>2, <1>3

(* An HTLC that is answered untouched is not one the payment relies on.    *)
LEMMA AnswerUntouchedMoney ==
    ASSUME Bookkeeping, MoneyInv, NEW h \in Htlc, AnswerUntouched(h)
    PROVE  MoneyInv'
<1> TypeOK
  BY DEF Bookkeeping
<1>1. status'[h] = "answered" /\ answer'[h] # "resolve"
  BY DEF AnswerUntouched, TypeOK
<1>2. HtlcInv(h)'
  BY <1>1 DEF HtlcInv
<1>3. ~(Live /\ h \in outgoing.backing)
  BY DEF AnswerUntouched, MoneyInv, BackingInv
<1>4. BackingInv' /\ \A g \in Htlc : HtlcInv(g)'
  BY <1>2, <1>3, OtherHtlcs DEF AnswerUntouched, TypeOK
<1>5. QED
  BY <1>4, HandlerFrame DEF AnswerUntouched, Bookkeeping, MoneyInv

LEMMA CommitAnswerMoney ==
    ASSUME Bookkeeping, MoneyInv, NEW h \in Htlc, CommitAnswer(h)
    PROVE  MoneyInv'
<1> TypeOK
  BY DEF Bookkeeping
<1>1. /\ status[h] = "answered" /\ answer' = answer
      /\ status'[h] \in {"settled", "continued", "failed"}
      /\ status'[h] = "settled" <=> answer[h] = "resolve"
  BY DEF CommitAnswer, TypeOK
<1>2. HtlcInv(h)'
  BY <1>1 DEF CommitAnswer, MoneyInv, HtlcInv
<1>3. Live /\ h \in outgoing.backing => Claimable(h)'
  BY <1>1 DEF MoneyInv, BackingInv, Claimable
<1>4. BackingInv' /\ \A g \in Htlc : HtlcInv(g)'
  BY <1>2, <1>3, OtherHtlcs DEF CommitAnswer, TypeOK
<1>5. QED
  BY <1>4, HandlerFrame DEF CommitAnswer, Bookkeeping, MoneyInv

(* An HTLC that is held can be claimed.                                    *)
LEMMA HoldMoney ==
    ASSUME Bookkeeping, MoneyInv, NEW h \in Htlc, IsTrampoline(h),
           status' = [status EXCEPT ![h] = "held"],
           answer' = [answer EXCEPT ![h] = "none"],
           UNCHANGED <<outgoing, node>>
    PROVE  BackingInv' /\ \A g \in Htlc : HtlcInv(g)'
<1> TypeOK
  BY DEF Bookkeeping
<1>1. status'[h] = "held" /\ answer'[h] = "none"
  BY DEF TypeOK
<1>2. HtlcInv(h)'
  BY <1>1 DEF HtlcInv, IsTrampoline, node
<1>3. Claimable(h)'
  BY <1>1 DEF Claimable
<1>4. QED
  BY <1>2, <1>3, OtherHtlcs DEF TypeOK

LEMMA JoinPaymentMoney ==
    ASSUME Bookkeeping, MoneyInv, NEW h \in Htlc, JoinPayment(h)
    PROVE  MoneyInv'
<1>1. payments # NoPayment /\ payments \in Payment
  BY DEF JoinPayment, IsVacant, Bookkeeping, TypeOK
<1>2. payments'.htlcs = payments.htlcs \cup {h}
  BY <1>1, FailureOfType, AddedPayment DEF JoinPayment
<1>3. QED
  BY <1>2, HandlerFrame, HoldMoney DEF JoinPayment, Bookkeeping, MoneyInv

LEMMA StartPaymentMoney ==
    ASSUME Bookkeeping, MoneyInv, NEW h \in Htlc, NEW t \in Lifecycle,
           StartPayment(h, t)
    PROVE  MoneyInv'
<1> TypeOK
  BY DEF Bookkeeping
<1>1. BackingInv' /\ \A g \in Htlc : HtlcInv(g)'
  BY HoldMoney DEF StartPayment
<1>2. \A u \in Lifecycle : pc[u] \notin Active
  BY DEF StartPayment, IsVacant, Bookkeeping, OneTaskPerPayment
<1>3. /\ UNCHANGED <<store, outgoing>>
      /\ pc'[t] = "fetch"
      /\ \A u \in Lifecycle \ {t} : pc'[u] = pc[u] /\ life'[u] = life[u]
  BY DEF StartPayment, TypeOK
<1>4. \A u \in Lifecycle : TaskInv(u)'
  BY <1>2, <1>3 DEF MoneyInv, TaskInv, BeforePay, Active
<1>5. \A u \in Lifecycle : pc'[u] \notin {"add_attempt", "pay"}
  BY <1>2, <1>3 DEF Active
<1>6. \A u \in Lifecycle : GenerationInv(u)'
  BY <1>3, <1>5 DEF MoneyInv, GenerationInv, HoldsGeneration, Live
<1>7. StoreInv'
  BY <1>3 DEF MoneyInv, StoreInv, OutgoingIsRecorded, Live
<1>8. QED
  BY <1>1, <1>4, <1>6, <1>7 DEF MoneyInv

(* A part is sent against HTLCs that are held, for a payment that the      *)
(* store knows.                                                            *)
LEMMA SendPartMoney ==
    ASSUME Bookkeeping, MoneyInv, NEW t \in Lifecycle, SendPart(t)
    PROVE  MoneyInv'
<1> TypeOK /\ TaskInv(t)
  BY DEF Bookkeeping, MoneyInv
<1>1. /\ UNCHANGED <<status, answer, payments, pc, life, store, node>>
      /\ pc[t] = "pay" /\ ~outgoing.paid /\ ~outgoing'.paid
      /\ outgoing'.backing = life[t].backing
  BY DEF SendPart, TypeOK, Outgoing
<1>2. \A u \in Lifecycle \ {t} : pc[u] \notin Active
  BY <1>1 DEF Bookkeeping, OneTaskPerPayment, Active
<1>3. \A u \in Lifecycle : TaskInv(u)'
  <2>1. TaskInv(t)'
    BY <1>1 DEF TaskInv, BeforePay
  <2>2. ASSUME NEW u \in Lifecycle \ {t} PROVE TaskInv(u)'
    <3>1. TaskInv(u)
      BY DEF MoneyInv
    <3>2. QED
      BY <1>1, <1>2, <3>1 DEF TaskInv, BeforePay, Active
  <2>3. QED
    BY <2>1, <2>2
<1>4. \A u \in Lifecycle : GenerationInv(u)'
  BY <1>1 DEF MoneyInv, GenerationInv, HoldsGeneration
<1>5. \A h \in Htlc : HtlcInv(h)'
  BY <1>1 DEF MoneyInv, HtlcInv, IsTrampoline, node
<1>6. BackingInv'
  <2> SUFFICES ASSUME NEW h \in life[t].backing
               PROVE  (Claimable(h) /\ IsTrampoline(h))'
    BY <1>1 DEF BackingInv
  <2>1. h \in payments.htlcs /\ payments # NoPayment
    BY <1>1 DEF TaskInv, Bookkeeping, OneTaskPerPayment, Active
  <2>2. h \in Htlc
    BY DEF TypeOK, Locals
  <2>3. status[h] = "held" /\ IsTrampoline(h)
    BY <2>1, <2>2 DEF Bookkeeping, HeldIsTracked, MoneyInv, HtlcInv
  <2>4. QED
    BY <1>1, <2>3 DEF Claimable, IsTrampoline, node
<1>7. StoreInv'
  BY <1>1 DEF TaskInv, MoneyInv, StoreInv, OutgoingIsRecorded
<1>8. QED
  BY <1>3, <1>4, <1>5, <1>6, <1>7 DEF MoneyInv

(* When a part ends nothing becomes outgoing that was not.                 *)
LEMMA PartEndsMoney ==
    ASSUME Bookkeeping, MoneyInv, PartSucceeds \/ PartsFail
    PROVE  MoneyInv'
<1> TypeOK
  BY DEF Bookkeeping
<1>1. UNCHANGED <<status, answer, payments, pc, life, store, node>>
  BY DEF PartSucceeds, PartsFail
<1>2. /\ Live
      /\ outgoing.paid => outgoing'.paid
      /\ Live' => outgoing'.backing = outgoing.backing
      /\ Live' => outgoing'.paid
  <2>1. CASE PartSucceeds
    BY <2>1 DEF PartSucceeds, Live, TypeOK, Outgoing
  <2>2. CASE PartsFail /\ outgoing.paid
    BY <2>2 DEF PartsFail, Live, TypeOK, Outgoing
  <2>3. CASE PartsFail /\ ~outgoing.paid
    <3>1. outgoing' = NoOutgoing /\ Live
      BY <2>3 DEF PartsFail, Live
    <3>2. ~Live'
      BY <3>1 DEF NoOutgoing, Live
    <3>3. QED
      BY <2>3, <3>1, <3>2
  <2>4. QED
    BY <2>1, <2>2, <2>3
<1>3. \A u \in Lifecycle : TaskInv(u)'
  <2> SUFFICES ASSUME NEW u \in Lifecycle PROVE TaskInv(u)'
    OBVIOUS
  <2>1. TaskInv(u)
    BY DEF MoneyInv
  <2>2. QED
    BY <1>1, <1>2, <2>1 DEF TaskInv
<1>4. \A u \in Lifecycle : GenerationInv(u)'
  BY <1>1, <1>2 DEF MoneyInv, GenerationInv, HoldsGeneration
<1>5. \A h \in Htlc : HtlcInv(h)'
  BY <1>1, <1>2 DEF MoneyInv, HtlcInv, IsTrampoline, node
<1>6. BackingInv'
  BY <1>1, <1>2 DEF MoneyInv, BackingInv, Claimable, IsTrampoline, node
<1>7. StoreInv'
  BY <1>1, <1>2 DEF MoneyInv, StoreInv, OutgoingIsRecorded
<1>8. QED
  BY <1>3, <1>4, <1>5, <1>6, <1>7 DEF MoneyInv

(* The chain has no part in it.                                            *)
LEMMA BlockMoney ==
    ASSUME Bookkeeping, MoneyInv,
           MineBlock \/ UpdateHeight \/ UNCHANGED vars
    PROVE  MoneyInv'
<1>1. UNCHANGED <<status, answer, payments, pc, life, store, outgoing,
                  allow_self_route_hints>>
  BY DEF MineBlock, UpdateHeight, vars, node
<1>2. /\ \A u \in Lifecycle : TaskInv(u)' /\ GenerationInv(u)'
      /\ StoreInv'
  BY <1>1, HandlerFrame DEF Bookkeeping
<1>3. BackingInv' /\ \A h \in Htlc : HtlcInv(h)'
  BY <1>1 DEF MoneyInv, BackingInv, HtlcInv, Live, Claimable, IsTrampoline
<1>4. QED
  BY <1>2, <1>3 DEF MoneyInv

(* A crash ends every task, and the HTLCs it held can still be claimed.    *)
LEMMA CrashMoney ==
    ASSUME ReliableCalls, Bookkeeping, MoneyInv, Crash
    PROVE  MoneyInv'
<1> TypeOK
  BY DEF Bookkeeping
<1>1. \A u \in Lifecycle : pc'[u] \in {"unborn", "done"}
  BY DEF Crash
<1>2. \A u \in Lifecycle : TaskInv(u)' /\ GenerationInv(u)'
  BY <1>1 DEF TaskInv, GenerationInv, HoldsGeneration, BeforePay
<1>3. UNCHANGED <<store, outgoing, allow_self_route_hints>>
  BY DEF Crash, ReliableCalls, TypeOK
<1>4. \A h \in Htlc :
          \/ status'[h] = "replay" /\ answer'[h] = "none"
          \/ /\ status'[h] = status[h] /\ answer'[h] = answer[h]
             /\ status[h] \notin {"held", "answered"}
  BY DEF Crash
<1>5. \A h \in Htlc : HtlcInv(h)'
  BY <1>3, <1>4 DEF MoneyInv, HtlcInv
<1>6. BackingInv'
  <2> SUFFICES ASSUME Live', NEW h \in outgoing.backing
               PROVE  (Claimable(h) /\ IsTrampoline(h))'
    BY <1>3 DEF BackingInv
  <2>1. h \in Htlc /\ Claimable(h) /\ IsTrampoline(h)
    BY <1>3 DEF MoneyInv, BackingInv, Live, TypeOK, Outgoing
  <2>2. QED
    BY <1>3, <1>4, <2>1 DEF Claimable, IsTrampoline
<1>7. StoreInv'
  BY <1>3 DEF MoneyInv, StoreInv, OutgoingIsRecorded, Live
<1>8. QED
  BY <1>2, <1>5, <1>6, <1>7 DEF MoneyInv

-----------------------------------------------------------------------------
LEMMA MoneyStep ==
    ASSUME ReliableCalls, Bookkeeping, MoneyInv, [Next]_vars
    PROVE  MoneyInv'
BY NextCases, ActiveMoney, ResolveMoney, ClosingAttemptMoney,
   ClosingStateMoney, AnswerUntouchedMoney, CommitAnswerMoney,
   JoinPaymentMoney, StartPaymentMoney, SendPartMoney, PartEndsMoney,
   BlockMoney, CrashMoney DEF ClosingStep

-----------------------------------------------------------------------------
(* The theorems.                                                           *)

(* The bookkeeping and the invariant about money hold in every reachable   *)
(* state.                                                                  *)
THEOREM MoneyIsInvariant ==
    ASSUME ReliableCalls
    PROVE  Spec => [](Bookkeeping /\ MoneyInv)
<1>1. Init => Bookkeeping /\ MoneyInv
  BY BookkeepingInit, MoneyInit
<1>2. (Bookkeeping /\ MoneyInv) /\ [Next]_vars => (Bookkeeping /\ MoneyInv)'
  BY BookkeepingStep, MoneyStep
<1>3. QED
  BY <1>1, <1>2, PTL DEF Spec

(* No HTLC that an outgoing or paid payment relies on is failed back by    *)
(* the plugin: not by a timeout, a failure request, a failing write, a     *)
(* crash between any two steps or a task that is late to mark its attempt  *)
(* failed.                                                                 *)
THEOREM BackingStaysClaimable ==
    ASSUME ReliableCalls
    PROVE  Spec => []BackingIsClaimable
<1>1. Bookkeeping /\ MoneyInv => BackingIsClaimable
  BY DEF MoneyInv, BackingInv, BackingIsClaimable
<1>2. QED
  BY <1>1, MoneyIsInvariant, PTL

(* The datastore never calls a payment free that is outgoing or paid.      *)
THEOREM OutgoingStaysRecorded ==
    ASSUME ReliableCalls
    PROVE  Spec => []OutgoingIsRecorded
<1>1. Bookkeeping /\ MoneyInv => OutgoingIsRecorded
  BY DEF MoneyInv, StoreInv
<1>2. QED
  BY <1>1, MoneyIsInvariant, PTL

(* pay is called only when nothing is outgoing or paid.                    *)
THEOREM PaidAtMostOnce ==
    ASSUME ReliableCalls
    PROVE  Spec => PaysOnce
<1>1. ASSUME Bookkeeping, MoneyInv, [Next]_vars, NEW t \in Lifecycle,
             pc[t] # "pay", pc'[t] = "pay"
      PROVE  ~Live
  <2> TypeOK
    BY <1>1 DEF Bookkeeping
  <2>1. pc' # pc
    BY <1>1
  <2>2. ~ \E h \in Htlc : AnswerUntouched(h) \/ JoinPayment(h)
                             \/ CommitAnswer(h)
    BY <2>1 DEF AnswerUntouched, JoinPayment, CommitAnswer
  <2>3. ~ \E h \in Htlc, u \in Lifecycle : StartPayment(h, u)
    BY <1>1 DEF StartPayment, TypeOK
  <2>4. ~ \E u \in Lifecycle : Resolve(u)
    BY <1>1 DEF Resolve, Finish, Goto, TypeOK, Locals
  <2>5. ~ \E u \in Lifecycle : ClosingStep(u)
    BY <1>1, ClosingFrame, ClosingStepMoves DEF Active
  <2>6. ~ Crash
    BY <1>1 DEF Crash
  <2>7. PICK u \in Lifecycle : ActiveStep(u)
    BY <1>1, <2>1, <2>2, <2>3, <2>4, <2>5, <2>6, NextCases, LightningdMoves
  <2>8. u = t
    BY <1>1, <2>7, ActiveFrame
  <2>9. pc[t] = "add_attempt"
    <3>1. CASE AddState(t)
      BY <1>1, <3>1 DEF AddState, ResolveWith, Goto, TypeOK
    <3>2. CASE ~AddState(t)
      BY <1>1, <2>7, <2>8, <3>2, ActiveHolds
    <3>3. QED
      BY <3>1, <3>2
  <2>10. QED
    BY <1>1, <2>9 DEF MoneyInv, TaskInv, BeforePay
<1>2. Bookkeeping /\ MoneyInv /\ [Next]_vars =>
          [\A t \in Lifecycle : pc[t] # "pay" /\ pc'[t] = "pay" => ~Live]_vars
  BY <1>1
<1>3. QED
  BY <1>2, MoneyIsInvariant, PTL DEF Spec, PaysOnce

(* The preimage in the datastore is never overwritten.                     *)
THEOREM PreimageStays ==
    ASSUME ReliableCalls
    PROVE  Spec => PreimageIsKept
<1>1. ASSUME Bookkeeping, MoneyInv, [Next]_vars, store.state = "succeeded"
      PROVE  store'.state = "succeeded"
  <2> TypeOK /\ Live
    BY <1>1 DEF Bookkeeping, MoneyInv, StoreInv, Live
  <2>1. CASE UNCHANGED store
    BY <1>1, <2>1
  <2>2. ASSUME NEW t \in Lifecycle, ActiveStep(t)
        PROVE  store'.state = "succeeded"
    <3>1. pc[t] \notin BeforePay
      BY <1>1 DEF MoneyInv, TaskInv
    <3>2. QED
      BY <1>1, <2>2, <3>1, ActiveKinds DEF AddState, RecoverState, BeforePay
  <2>3. ASSUME NEW t \in Lifecycle, ClosingStep(t)
        PROVE  store'.state = "succeeded"
    <3>1. CASE FailAttempt(t) \/ SucceedAttempt(t)
      BY <1>1, <3>1, AttemptOutcome
         DEF FailAttempt, FailAttemptInfo, SucceedAttempt, SucceedAttemptInfo
    <3>2. CASE SucceedPayment(t)
      BY <1>1, <3>2, StateOutcome DEF SucceedPayment, SucceedState
    <3>3. CASE FailState(t)
      <4>1. ~FreeStateAllowed(store, life[t].generation)
        BY <1>1, <3>3 DEF FailState, FreeStateAllowed, MayReplaceState,
                          MoneyInv, GenerationInv
      <4>2. store' = store
        BY <3>3, <4>1 DEF FailState, Written, WriteFails
      <4>3. QED
        BY <1>1, <4>2
    <3>4. QED
      BY <2>3, <3>1, <3>2, <3>3 DEF ClosingStep
  <2>4. QED
    BY <1>1, <2>1, <2>2, <2>3, NextCases, LightningdMoves
       DEF AnswerUntouched, JoinPayment, CommitAnswer, StartPayment, Resolve,
           Crash
<1>2. Bookkeeping /\ MoneyInv /\ [Next]_vars =>
          [store.state = "succeeded" => store'.state = "succeeded"]_vars
  BY <1>1
<1>3. QED
  BY <1>2, MoneyIsInvariant, PTL DEF Spec, PreimageIsKept

-----------------------------------------------------------------------------
(* The plugin implements the escrow.                                       *)

LEMMA EscrowInitially == Init => Escrow!EscrowInit
BY DEF Init, NoOutgoing, Escrow!EscrowInit, Fate

(* A step that leaves the outgoing payment alone, and every HTLC open that *)
(* was, is a stutter of the escrow.                                        *)
LEMMA EscrowStutter ==
    ASSUME UNCHANGED outgoing, \A h \in Htlc : Fate(h)' = Fate(h)
    PROVE  UNCHANGED Escrow!escrowVars
BY DEF Escrow!escrowVars

(* The fate of an HTLC is its status only.                                 *)
LEMMA FateUnchanged ==
    ASSUME NEW h \in Htlc, status'[h] = status[h]
    PROVE  Fate(h)' = Fate(h)
BY DEF Fate

LEMMA FateOpen ==
    ASSUME NEW h \in Htlc
    PROVE  Fate(h) = "open" <=> status[h] \notin {"settled", "failed"}
BY DEF Fate

LEMMA EscrowOfHtlc ==
    ASSUME Bookkeeping, MoneyInv, NEW h \in Htlc,
           \/ AnswerUntouched(h) \/ JoinPayment(h) \/ CommitAnswer(h)
           \/ \E t \in Lifecycle : StartPayment(h, t)
    PROVE  [Escrow!EscrowNext]_(Escrow!escrowVars)
<1> TypeOK
  BY DEF Bookkeeping
<1>1. UNCHANGED outgoing
  BY DEF AnswerUntouched, JoinPayment, CommitAnswer, StartPayment
<1>2. \A g \in Htlc \ {h} : Fate(g)' = Fate(g)
  <2>1. \A g \in Htlc \ {h} : status'[g] = status[g]
    BY DEF AnswerUntouched, JoinPayment, CommitAnswer, StartPayment, TypeOK
  <2>2. QED
    BY <2>1, FateUnchanged
<1>3. CASE Fate(h)' = Fate(h)
  BY <1>1, <1>2, <1>3, EscrowStutter
<1>4. CASE Fate(h)' # Fate(h)
  <2>1. CommitAnswer(h)
    <3>1. ASSUME AnswerUntouched(h) \/ JoinPayment(h)
                 \/ \E t \in Lifecycle : StartPayment(h, t)
          PROVE  FALSE
      <4>1. /\ status[h] \in {"absent", "replay"}
            /\ status'[h] \in {"answered", "held"}
        BY <3>1 DEF AnswerUntouched, JoinPayment, StartPayment, IsOffered,
                    TypeOK
      <4>2. QED
        BY <1>4, <4>1 DEF Fate
    <3>2. QED
      BY <3>1
  <2>2. /\ status[h] = "answered"
        /\ status'[h] = CASE answer[h] = "resolve" -> "settled"
                          [] answer[h] = "continue" -> "continued"
                          [] OTHER -> "failed"
    BY <2>1 DEF CommitAnswer, TypeOK
  <2>3. Fate(h) = "open"
    BY <2>2 DEF Fate
  <2> DEFINE fate == [g \in Htlc |-> Fate(g)]
  <2>4. fate' = [fate EXCEPT ![h] = Fate(h)']
    BY <1>2
  <2>5. CASE answer[h] = "resolve"
    <3>1. Fate(h)' = "settled" /\ outgoing.paid
      BY <2>2, <2>5 DEF Fate, MoneyInv, HtlcInv
    <3>2. Escrow!Settle(h)
      BY <1>1, <2>3, <2>4, <3>1 DEF Escrow!Settle
    <3>3. QED
      BY <3>2 DEF Escrow!EscrowNext
  <2>6. CASE answer[h] = "continue"
    BY <1>4, <2>2, <2>3, <2>6 DEF Fate
  <2>7. CASE answer[h] \notin {"resolve", "continue"}
    <3>1. Fate(h)' = "refunded"
      BY <2>2, <2>7 DEF Fate
    <3>2. outgoing.inflight \/ outgoing.paid => h \notin outgoing.backing
      BY <2>2, <2>7 DEF MoneyInv, BackingInv, Claimable, Live
    <3>3. Escrow!Refund(h)
      BY <1>1, <2>3, <2>4, <3>1, <3>2 DEF Escrow!Refund
    <3>4. QED
      BY <3>3 DEF Escrow!EscrowNext
  <2>8. QED
    BY <2>5, <2>6, <2>7
<1>5. QED
  BY <1>3, <1>4

LEMMA EscrowOfTask ==
    ASSUME Bookkeeping, MoneyInv, NEW t \in Lifecycle,
           ActiveStep(t) \/ Resolve(t) \/ ClosingStep(t)
    PROVE  UNCHANGED Escrow!escrowVars
<1> TypeOK
  BY DEF Bookkeeping
<1>1. UNCHANGED outgoing
  BY ActiveFrame, ClosingFrame DEF Resolve
<1>2. CASE ActiveStep(t) \/ ClosingStep(t)
  <2>1. status' = status
    BY <1>2, ActiveStepMoves, ClosingStepMoves DEF Bookkeeping
  <2>2. QED
    BY <1>1, <2>1, FateUnchanged, EscrowStutter
<1>3. CASE Resolve(t)
  <2>1. payments # NoPayment
    BY <1>3 DEF Resolve, Bookkeeping, OneTaskPerPayment, Active
  <2>2. ASSUME NEW h \in Htlc PROVE Fate(h)' = Fate(h)
    <3>1. CASE h \in Listeners(payments)
      <4>1. status[h] = "held" /\ status'[h] = "answered"
        BY <1>3, <2>1, <3>1
           DEF Resolve, Listeners, Bookkeeping, HeldIsTracked
      <4>2. QED
        BY <4>1 DEF Fate
    <3>2. CASE h \notin Listeners(payments)
      BY <1>3, <3>2, FateUnchanged DEF Resolve
    <3>3. QED
      BY <3>1, <3>2
  <2>3. QED
    BY <1>1, <2>2, EscrowStutter
<1>4. QED
  BY <1>2, <1>3

LEMMA EscrowOfSend ==
    ASSUME Bookkeeping, MoneyInv, NEW t \in Lifecycle, SendPart(t)
    PROVE  Escrow!EscrowNext
<1> TypeOK /\ TaskInv(t)
  BY DEF Bookkeeping, MoneyInv
<1> DEFINE B == life[t].backing
<1>1. /\ pc[t] = "pay" /\ ~outgoing.paid /\ UNCHANGED status
      /\ outgoing'.inflight = TRUE /\ outgoing'.paid = outgoing.paid
      /\ outgoing'.backing = B
  BY DEF SendPart, TypeOK, Outgoing
<1>2. B \in SUBSET Htlc
  BY DEF TypeOK, Locals
<1>3. outgoing.inflight => B = outgoing.backing
  BY <1>1 DEF TaskInv, Live
<1>4. ASSUME NEW h \in B PROVE Fate(h) = "open"
  <2>1. h \in payments.htlcs /\ payments # NoPayment /\ h \in Htlc
    BY <1>1, <1>2 DEF TaskInv, Bookkeeping, OneTaskPerPayment, Active
  <2>2. status[h] = "held"
    BY <2>1 DEF Bookkeeping, HeldIsTracked
  <2>3. QED
    BY <2>2 DEF Fate
<1>5. \A h \in Htlc : Fate(h)' = Fate(h)
  BY <1>1, FateUnchanged
<1> HIDE DEF B
<1>6. Escrow!Send(B)
  BY <1>1, <1>2, <1>3, <1>4, <1>5 DEF Escrow!Send
<1>7. QED
  BY <1>2, <1>6 DEF Escrow!EscrowNext

LEMMA EscrowOfEnd ==
    ASSUME Bookkeeping, PartSucceeds \/ PartsFail
    PROVE  Escrow!EscrowNext
<1> TypeOK
  BY DEF Bookkeeping
<1>1. \A h \in Htlc : Fate(h)' = Fate(h)
  BY FateUnchanged DEF PartSucceeds, PartsFail
<1>2. CASE PartSucceeds
  <2>1. /\ outgoing.inflight /\ outgoing'.inflight \in BOOLEAN
        /\ outgoing'.paid = TRUE /\ outgoing'.backing = outgoing.backing
    BY <1>2 DEF PartSucceeds, TypeOK, Outgoing
  <2>2. Escrow!Fulfil
    BY <1>1, <2>1 DEF Escrow!Fulfil
  <2>3. QED
    BY <2>2 DEF Escrow!EscrowNext
<1>3. CASE PartsFail
  <2>1. /\ outgoing.inflight /\ outgoing'.inflight = FALSE
        /\ outgoing'.paid = outgoing.paid
        /\ outgoing'.backing = IF outgoing.paid THEN outgoing.backing ELSE {}
    BY <1>3 DEF PartsFail, NoOutgoing, TypeOK, Outgoing
  <2>2. Escrow!GiveUp
    BY <1>1, <2>1 DEF Escrow!GiveUp
  <2>3. QED
    BY <2>2 DEF Escrow!EscrowNext
<1>4. QED
  BY <1>2, <1>3

LEMMA EscrowOfNode ==
    ASSUME MineBlock \/ UpdateHeight \/ UNCHANGED vars \/ Crash
    PROVE  UNCHANGED Escrow!escrowVars
<1>1. CASE Crash
  <2>1. ASSUME NEW h \in Htlc PROVE Fate(h)' = Fate(h)
    BY <1>1 DEF Crash, Fate
  <2>2. QED
    BY <1>1, <2>1, EscrowStutter DEF Crash
<1>2. CASE MineBlock \/ UpdateHeight \/ UNCHANGED vars
  BY <1>2, FateUnchanged, EscrowStutter DEF MineBlock, UpdateHeight, vars
<1>3. QED
  BY <1>1, <1>2

(* Every behaviour of the plugin is one of the escrow: HTLCs are settled   *)
(* only after the payment, refunded only when it does not rely on them,    *)
(* and it is not sent again after it was paid.                             *)
THEOREM PluginImplementsEscrow ==
    ASSUME ReliableCalls
    PROVE  Spec => ImplementsEscrow
<1>1. Bookkeeping /\ MoneyInv /\ [Next]_vars =>
          [Escrow!EscrowNext]_(Escrow!escrowVars)
  BY NextCases, EscrowOfHtlc, EscrowOfTask, EscrowOfSend, EscrowOfEnd,
     EscrowOfNode
<1>2. QED
  BY <1>1, EscrowInitially, MoneyIsInvariant, PTL
     DEF Spec, ImplementsEscrow, Escrow!EscrowSpec

(* And so it loses nothing.                                                *)
THEOREM PluginLosesNothing ==
    ASSUME ReliableCalls
    PROVE  Spec => []Escrow!NoLoss
<1>1. Escrow!EscrowSpec => []Escrow!NoLoss
  BY Escrow!EscrowLosesNothing
<1>2. QED
  BY <1>1, PluginImplementsEscrow, PTL DEF ImplementsEscrow
=============================================================================
