------------------------------ MODULE HtlcManager ------------------------------
(***************************************************************************)
(* The core of the plugin, src/src/htlc_manager.rs: HTLCs that lightningd  *)
(* offers are held and aggregated into one payment per payment hash, a     *)
(* lifecycle task per payment waits until the payment is complete, pays    *)
(* the trampoline invoice and answers every held HTLC.                     *)
(*                                                                         *)
(* The code keys everything by payment hash and shares only a mutex        *)
(* between hashes; this module models one hash.                            *)
(*                                                                         *)
(* The datastore (PaymentStore) and the outgoing payment survive a crash   *)
(* of the node; the map of payments and the lifecycle tasks do not, and    *)
(* lightningd offers the HTLCs it has not resolved again.                  *)
(***************************************************************************)
EXTENDS FeePolicy, Sequences, FiniteSets, FiniteSetsExt

CONSTANTS
    Htlc,                \* the incoming HTLCs with this payment hash
    Kind,                \* [Htlc -> KindOfHtlc]: what check_htlc makes of it
    Amount,              \* [Htlc -> Nat]: htlc.amount_msat
    Total,               \* [Htlc -> Nat]: onion.total_msat, or forward_msat
    Expiry,              \* [Htlc -> Nat]: htlc.cltv_expiry
    Info,                \* [Htlc -> Invoice]: the trampoline info of the onion
    NoPayment,           \* no entry in the payments map
    Invoice,             \* the trampoline infos there are
    InvoiceAmount,       \* [Invoice -> Nat]: trampoline.amount_msat
    CltvDelta,           \* params.cltv_delta
    PolicyCltvDelta,     \* routing_policy.cltv_expiry_delta
    RoutingPolicy,       \* params.routing_policy, the fee part of it
    MinFinalCltv,        \* least expiry of a route: the invoice's final delta
    SelfRouteHints,      \* the values params.allow_self_route_hints takes
    Faults,              \* which calls the environment may make fail
    MaxLifecycles,       \* bound: lifecycle tasks ever spawned
    MaxCrashes,          \* bound: crashes of the node
    MaxHeight            \* bound: the last block

KindOfHtlc == {"trampoline", "self_hint", "other"}

ASSUME HtlcAssumption ==
    /\ IsFiniteSet(Htlc)
    /\ Kind \in [Htlc -> KindOfHtlc]
    /\ Amount \in [Htlc -> Nat]
    /\ Total \in [Htlc -> Nat]
    /\ Expiry \in [Htlc -> Nat]
    /\ Info \in [Htlc -> Invoice]
    /\ InvoiceAmount \in [Invoice -> Nat]
    /\ \A h \in Htlc : Expiry[h] <= U32Max

(* There is an invoice: the locals of a task always name one.              *)
ASSUME InvoiceAssumption == Invoice # {}

ASSUME ParamsAssumption ==
    /\ CltvDelta \in Nat
    /\ PolicyCltvDelta \in Nat
    /\ RoutingPolicy \in TrampolineRoutingPolicy
    /\ MinFinalCltv \in Nat \ {0}
    /\ SelfRouteHints \in (SUBSET BOOLEAN) \ {{}}
    /\ Faults \subseteq {"fetch", "write", "wait", "pay"}
    /\ MaxLifecycles \in Nat
    /\ MaxCrashes \in Nat
    /\ MaxHeight \in Nat

(* Lifecycle tasks are numbered in the order they are spawned.  A task     *)
(* makes at most one attempt, so its number also names the attempt.        *)
Lifecycle == 1..MaxLifecycles
NoLifecycle == 0

INSTANCE PaymentStore WITH Attempt <- Lifecycle, NoAttempt <- NoLifecycle

VARIABLES
    status,     \* [Htlc -> HtlcStatus]: the HTLC between lightningd and plugin
    answer,     \* [Htlc -> Answer]: the response the plugin gave
    payments,   \* the entry of the payments map for this hash, or NoPayment
    pc,         \* [Lifecycle -> Step]: where each lifecycle task is
    life,       \* [Lifecycle -> locals of payment_lifecycle]
    store,      \* the datastore's rows
    outgoing,   \* what lightningd has outgoing for this hash
    height,     \* the chain's height
    current_height, \* the height the block watcher knows
    crashes,    \* crashes so far
    allow_self_route_hints \* params.allow_self_route_hints

(* What a restart of the node, or the chain, changes.                      *)
node == <<height, current_height, crashes, allow_self_route_hints>>

vars == <<status, answer, payments, pc, life, store, outgoing, node>>

-----------------------------------------------------------------------------
(* Values                                                                  *)

Failure == {"temporary_trampoline_failure", "fee_or_expiry_insufficient",
            "temporary_node_failure"}
Answer == Failure \cup {"resolve", "continue", "none"}

(* replay: offered again after a restart, not yet handled.  answered: the  *)
(* plugin responded, lightningd has not committed the response.            *)
HtlcStatus == {"absent", "held", "answered", "replay",
               "settled", "failed", "continued"}

(* The awaits of payment_lifecycle at which it can be found.  The steps in *)
(* Active come before the resolve that removes the payment from the map.   *)
Active == {"fetch", "wait_payment", "recover_attempt", "recover_state",
           "select", "params", "height", "add_state", "add_attempt", "pay",
           "resolve", "panicked"}
Closing == {"fail_attempt", "fail_state", "succeed_state", "succeed_attempt"}
Step == Active \cup Closing \cup {"unborn", "done"}

Locals == [attempt    : Lifecycle \cup {NoLifecycle},
           generation : Nat,
           resp       : Answer,
           then       : {"done", "fail_attempt", "succeed_state"},
           trampoline : Invoice,
           max_fee    : Nat,
           backing    : SUBSET Htlc,
           cltv_expiry : Nat,
           max_cltv_delta : Nat,
           read_height : Nat]

NewLocals(info) ==
    [attempt |-> NoLifecycle, generation |-> 0, resp |-> "none",
     then |-> "done", trampoline |-> info, max_fee |-> 0, backing |-> {},
     cltv_expiry |-> 0, max_cltv_delta |-> 0, read_height |-> 0]

DeadLocals == NewLocals(CHOOSE i \in Invoice : TRUE)

(* struct PaymentState.  The unit messages in the channel payment_ready    *)
(* are counted; fail_requested is the queue of that channel.               *)
Payment == [trampoline      : Invoice,
            htlcs           : SUBSET Htlc,
            is_ready        : BOOLEAN,
            payment_ready   : Nat,
            is_fail_requested : BOOLEAN,
            fail_requested  : Seq(Failure),
            amount_received : Nat,
            cltv_expiry     : Nat]

ASSUME NoPaymentAssumption == NoPayment \notin Payment


NewPayment(info) ==
    [trampoline |-> info, htlcs |-> {}, is_ready |-> FALSE,
     payment_ready |-> 0, is_fail_requested |-> FALSE,
     fail_requested |-> <<>>, amount_received |-> 0, cltv_expiry |-> U32Max]

(* What lightningd has outgoing: whether a part is in flight, whether the  *)
(* preimage is known, and for the properties the HTLCs and the amount that *)
(* back it, the latest expiry of its parts and how many blocks passed      *)
(* between reading the height and sending the part.                        *)
Outgoing == [inflight : BOOLEAN,
             paid     : BOOLEAN,
             backing  : SUBSET Htlc,
             spent    : Nat,
             expiry   : Nat,
             lag      : Int]

NoOutgoing == [inflight |-> FALSE, paid |-> FALSE, backing |-> {},
               spent |-> 0, expiry |-> 0, lag |-> 0]

Live == outgoing.inflight \/ outgoing.paid

Minimum(a, b) == IF a < b THEN a ELSE b
SaturatingSub_going_negative(a, b) == a - b
SaturatingSub(a, b) == IF a > b THEN a - b ELSE 0

SumOf(f, S) == MapThenSumSet(LAMBDA h : f[h], S)

-----------------------------------------------------------------------------
Init ==
    /\ status = [h \in Htlc |-> "absent"]
    /\ answer = [h \in Htlc |-> "none"]
    /\ payments = NoPayment
    /\ pc = [t \in Lifecycle |-> "unborn"]
    /\ life = [t \in Lifecycle |-> DeadLocals]
    /\ store = EmptyStore
    /\ outgoing = NoOutgoing
    /\ height = 0
    /\ current_height = 0
    /\ crashes = 0
    /\ allow_self_route_hints \in SelfRouteHints

-----------------------------------------------------------------------------
(* handle_htlc, under the lock of the payments map.                        *)

Fail_every_time(p, failure) ==
    IF failure = "none" THEN p
    ELSE [p EXCEPT !.is_ready = FALSE,
                   !.is_fail_requested = TRUE,
                   !.fail_requested = Append(@, failure)]

(* PaymentState::fail: the first request wins, and none is answered here.  *)
Fail(p, failure) ==
    IF failure = "none" \/ p.is_fail_requested THEN p
    ELSE [p EXCEPT !.is_ready = FALSE,
                   !.is_fail_requested = TRUE,
                   !.fail_requested = Append(@, failure)]

(* PaymentState::add_htlc: always adds, and signals readiness once.        *)
BecomesReady_every_time(p, amount) ==
    /\ ~p.is_fail_requested
    /\ FeeSufficient(RoutingPolicy, amount, InvoiceAmount[p.trampoline])
BecomesReady_without_fee(p, amount) ==
    /\ ~p.is_ready
    /\ ~p.is_fail_requested
    /\ amount >= InvoiceAmount[p.trampoline]
BecomesReady(p, amount) ==
    /\ ~p.is_ready
    /\ ~p.is_fail_requested
    /\ FeeSufficient(RoutingPolicy, amount, InvoiceAmount[p.trampoline])

AddHtlc_checked_before(p, h) ==
    LET amount == WrappingAdd(p.amount_received, Amount[h])
        ready == BecomesReady(p, p.amount_received)
    IN  [p EXCEPT !.amount_received = amount,
                  !.cltv_expiry = Minimum(Expiry[h], @),
                  !.htlcs = @ \cup {h},
                  !.is_ready = IF ready THEN TRUE ELSE @,
                  !.payment_ready = IF ready THEN @ + 1 ELSE @]
AddHtlc(p, h) ==
    LET amount == WrappingAdd(p.amount_received, Amount[h])
        ready == BecomesReady(p, amount)
    IN  [p EXCEPT !.amount_received = amount,
                  !.cltv_expiry = Minimum(Expiry[h], @),
                  !.htlcs = @ \cup {h},
                  !.is_ready = IF ready THEN TRUE ELSE @,
                  !.payment_ready = IF ready THEN @ + 1 ELSE @]

(* The checks of handle_htlc in their order: the first that fails decides. *)
FailureOf(p, h) ==
    IF Info[h] # p.trampoline THEN "temporary_trampoline_failure"
    ELSE IF \/ Expiry[h] - height < PolicyCltvDelta
            \/ ~FeeSufficient(RoutingPolicy, Total[h], InvoiceAmount[Info[h]])
         THEN "fee_or_expiry_insufficient"
    ELSE "none"

(* What lightningd offers.  All HTLCs that are not resolved are money that *)
(* somebody has: the network sees to that, not the plugin.                 *)
Unresolved == {h \in Htlc : status[h] \in {"held", "answered", "replay"}}

IsFunded(h) == SumOf(Amount, Unresolved \cup {h}) <= MoneySupply

IsOffered(h) == status[h] \in {"absent", "replay"} /\ IsFunded(h)

(* check_htlc answers an HTLC that is not a trampoline payment, or whose   *)
(* invoice has this node in a route hint, without touching the payments.   *)
IsTrampoline(h) ==
    \/ Kind[h] = "trampoline"
    \/ Kind[h] = "self_hint" /\ allow_self_route_hints

AnswerUntouched(h) ==
    /\ IsOffered(h)
    /\ ~IsTrampoline(h)
    /\ status' = [status EXCEPT ![h] = "answered"]
    /\ answer' = [answer EXCEPT ![h] = IF Kind[h] = "other"
                                       THEN "continue"
                                       ELSE "temporary_node_failure"]
    /\ UNCHANGED <<payments, pc, life, store, outgoing, node>>

(* The map is keyed by payment hash, so any payment is the one to join.    *)
IsVacant(h) == payments = NoPayment

(* An HTLC for a payment in the map joins it.                              *)
JoinPayment(h) ==
    /\ IsOffered(h)
    /\ IsTrampoline(h)
    /\ ~IsVacant(h)
    /\ payments' = AddHtlc(Fail(payments, FailureOf(payments, h)), h)
    /\ status' = [status EXCEPT ![h] = "held"]
    /\ answer' = [answer EXCEPT ![h] = "none"]
    /\ UNCHANGED <<pc, life, store, outgoing, node>>

(* The first HTLC of a payment inserts it and spawns its lifecycle.        *)
StartPayment(h, t) ==
    /\ IsOffered(h)
    /\ IsTrampoline(h)
    /\ IsVacant(h)
    /\ pc[t] = "unborn"
    /\ \A u \in Lifecycle : u < t => pc[u] # "unborn"
    /\ LET p == NewPayment(Info[h])
       IN  payments' = AddHtlc(Fail(p, FailureOf(p, h)), h)
    /\ pc' = [pc EXCEPT ![t] = "fetch"]
    /\ life' = [life EXCEPT ![t] = NewLocals(Info[h])]
    /\ status' = [status EXCEPT ![h] = "held"]
    /\ answer' = [answer EXCEPT ![h] = "none"]
    /\ UNCHANGED <<store, outgoing, node>>

(* lightningd commits the response: it settles or fails the HTLC for good. *)
CommitAnswer(h) ==
    /\ status[h] = "answered"
    /\ status' = [status EXCEPT ![h] =
                    CASE answer[h] = "resolve" -> "settled"
                      [] answer[h] = "continue" -> "continued"
                      [] OTHER -> "failed"]
    /\ UNCHANGED <<answer, payments, pc, life, store, outgoing, node>>

-----------------------------------------------------------------------------
(* payment_lifecycle.  Helpers first: going to a step, and going to the    *)
(* resolve with an answer, after which the task continues at `then'.       *)

Goto(t, step) == pc' = [pc EXCEPT ![t] = step]

ResolveWith(t, resp, then) ==
    /\ Goto(t, "resolve")
    /\ life' = [life EXCEPT ![t].resp = resp, ![t].then = then]

(* A datastore write that is allowed happens and returns Ok, or the call   *)
(* fails.  A failing call may still have had its effect.                   *)
Written(allowed, s) == allowed /\ store' = s

WriteFails(allowed, s) ==
    \/ ~allowed /\ store' = store
    \/ "write" \in Faults /\ allowed /\ store' \in {store, s}

(* A task that ends drops its locals.                                      *)
Finish(t) ==
    /\ Goto(t, "done")
    /\ life' = [life EXCEPT ![t] = DeadLocals]

(* The rows and the payment a task looks at when it starts.                *)
FetchPayment(t) ==
    /\ pc[t] = "fetch"
    /\ \/ /\ FetchPaymentInfo(store) = "free"
          /\ Goto(t, "select")
          /\ UNCHANGED life
       \/ /\ FetchPaymentInfo(store) = "pending"
          /\ Goto(t, "wait_payment")
          /\ life' = [life EXCEPT ![t].attempt = store.attempt,
                                  ![t].generation = store.generation]
       \/ /\ FetchPaymentInfo(store) = "succeeded"
          /\ ResolveWith(t, "resolve", "done")
       \/ /\ "fetch" \in Faults
          /\ ResolveWith(t, "temporary_node_failure", "done")
    /\ UNCHANGED <<status, answer, payments, store, outgoing, node>>

(* An error of wait_payment is met with todo!(): the task panics.          *)
WaitPaymentFails_answering(t) ==
    ResolveWith(t, "temporary_node_failure", "done")
WaitPaymentFails(t) == Goto(t, "panicked") /\ UNCHANGED life

(* wait_payment, for a payment that was pending when the task started: the *)
(* preimage as soon as it is known, None when nothing is outgoing anymore, *)
(* or an error.                                                            *)
WaitPayment(t) ==
    /\ pc[t] = "wait_payment"
    /\ \/ /\ outgoing.paid
          /\ ResolveWith(t, "resolve", "succeed_state")
       \/ /\ ~Live
          /\ Goto(t, "recover_attempt")
          /\ UNCHANGED life
       \/ "wait" \in Faults /\ WaitPaymentFails(t)
    /\ UNCHANGED <<status, answer, payments, store, outgoing, node>>

(* mark_failed for the attempt found pending: both writes must succeed, or *)
(* the payment is given up.                                                *)
RecoveryFails_silently(t) == Finish(t)
RecoveryFails(t) == ResolveWith(t, "temporary_node_failure", "done")

RecoverAttempt(t) ==
    /\ pc[t] = "recover_attempt"
    /\ LET a == life[t].attempt
           allowed == FailAttemptAllowed(store, a)
       IN  \/ /\ Written(allowed, FailAttemptInfo(store, a))
              /\ Goto(t, "recover_state")
              /\ UNCHANGED life
           \/ WriteFails(allowed, FailAttemptInfo(store, a)) /\ RecoveryFails(t)
    /\ UNCHANGED <<status, answer, payments, outgoing, node>>

RecoverState(t) ==
    /\ pc[t] = "recover_state"
    /\ LET allowed == FreeStateAllowed(store, life[t].generation)
       IN  \/ /\ Written(allowed, FreeState(store))
              /\ Goto(t, "select")
              /\ UNCHANGED life
           \/ WriteFails(allowed, FreeState(store)) /\ RecoveryFails(t)
    /\ UNCHANGED <<status, answer, payments, outgoing, node>>

(* The select: the MPP timeout (which may have passed already when the     *)
(* task gets here), a failure request or the payment being ready, in any   *)
(* order when several have happened.                                       *)
TimeOut(t) ==
    /\ pc[t] = "select"
    /\ ResolveWith(t, "temporary_trampoline_failure", "done")
    /\ UNCHANGED <<status, answer, payments, store, outgoing, node>>

ReceiveFailRequest(t) ==
    /\ pc[t] = "select"
    /\ payments.fail_requested # <<>>
    /\ payments' = [payments EXCEPT !.fail_requested = Tail(@)]
    /\ ResolveWith(t, Head(payments.fail_requested), "done")
    /\ UNCHANGED <<status, answer, store, outgoing, node>>

ReceivePaymentReady(t) ==
    /\ pc[t] = "select"
    /\ payments.payment_ready > 0
    /\ payments' = [payments EXCEPT !.payment_ready = @ - 1]
    /\ Goto(t, "params")
    /\ UNCHANGED <<status, answer, life, store, outgoing, node>>

MaxFee_all_received(received, amount) == received
MaxFee(received, amount) == SaturatingSub(received, amount)

(* The payment parameters, read under the lock.  For the properties the    *)
(* task remembers which HTLCs these parameters were computed from.         *)
ReadParams(t) ==
    /\ pc[t] = "params"
    /\ life' = [life EXCEPT
                  ![t].max_fee = MaxFee(payments.amount_received,
                                     InvoiceAmount[life[t].trampoline]),
                  ![t].cltv_expiry = payments.cltv_expiry,
                  ![t].backing = payments.htlcs]
    /\ Goto(t, "height")
    /\ UNCHANGED <<status, answer, payments, store, outgoing, node>>

MaxCltvDelta_without_gap(cltv_expiry, h) ==
    Minimum(SaturatingSub(cltv_expiry, h), PolicyCltvDelta)
MaxCltvDelta(cltv_expiry, h) ==
    Minimum(SaturatingSub(SaturatingSub(cltv_expiry, h), CltvDelta),
            PolicyCltvDelta)

ReadHeight(t) ==
    /\ pc[t] = "height"
    /\ life' = [life EXCEPT
                  ![t].read_height = current_height,
                  ![t].max_cltv_delta =
                      MaxCltvDelta(life[t].cltv_expiry, current_height)]
    /\ Goto(t, "add_state")
    /\ UNCHANGED <<status, answer, payments, store, outgoing, node>>

(* add_payment_attempt, the state row and then the attempt's row.          *)
AddState(t) ==
    /\ pc[t] = "add_state"
    /\ LET s == AddAttemptState(store, t)
       IN  \/ /\ Written(TRUE, s)
              /\ Goto(t, "add_attempt")
              /\ life' = [life EXCEPT ![t].attempt = t,
                                      ![t].generation = s.generation]
           \/ /\ WriteFails(TRUE, s)
              /\ ResolveWith(t, "temporary_node_failure", "done")
    /\ UNCHANGED <<status, answer, payments, outgoing, node>>

AddAttempt(t) ==
    /\ pc[t] = "add_attempt"
    /\ LET s == AddAttemptInfo(store, t)
       IN  \/ /\ Written(TRUE, s)
              /\ Goto(t, "pay")
              /\ UNCHANGED life
           \/ /\ WriteFails(TRUE, s)
              /\ ResolveWith(t, "temporary_node_failure", "done")
    /\ UNCHANGED <<status, answer, payments, outgoing, node>>

(* pay returns: Ok once the preimage is known, Err when nothing is         *)
(* outgoing anymore.  The fault "pay" returns Err whatever is outgoing.    *)
PayReturns(t) ==
    /\ pc[t] = "pay"
    /\ \/ outgoing.paid /\ ResolveWith(t, "resolve", "succeed_state")
       \/ /\ ~Live \/ "pay" \in Faults
          /\ ResolveWith(t, "temporary_trampoline_failure", "fail_attempt")
    /\ UNCHANGED <<status, answer, payments, store, outgoing, node>>

(* resolve: remove the payment from the map, answer every held HTLC.       *)
Listeners_first_only(p) == {CHOOSE h \in p.htlcs : TRUE}
Listeners(p) == p.htlcs

Resolve(t) ==
    /\ pc[t] = "resolve"
    /\ payments' = NoPayment
    /\ status' = [h \in Htlc |-> IF h \in Listeners(payments)
                                 THEN "answered" ELSE status[h]]
    /\ answer' = [h \in Htlc |-> IF h \in Listeners(payments)
                                 THEN life[t].resp ELSE answer[h]]
    /\ IF life[t].then = "done" THEN Finish(t)
                                ELSE Goto(t, life[t].then) /\ UNCHANGED life
    /\ UNCHANGED <<store, outgoing, node>>

(* mark_failed after the payment failed: an error ends it.                 *)
FailAttempt(t) ==
    /\ pc[t] = "fail_attempt"
    /\ LET a == life[t].attempt
           allowed == FailAttemptAllowed(store, a)
       IN  \/ /\ Written(allowed, FailAttemptInfo(store, a))
              /\ Goto(t, "fail_state")
              /\ UNCHANGED life
           \/ /\ WriteFails(allowed, FailAttemptInfo(store, a))
              /\ Finish(t)
    /\ UNCHANGED <<status, answer, payments, outgoing, node>>

FailState(t) ==
    /\ pc[t] = "fail_state"
    /\ LET allowed == FreeStateAllowed(store, life[t].generation)
       IN  \/ Written(allowed, FreeState(store))
           \/ WriteFails(allowed, FreeState(store))
    /\ Finish(t)
    /\ UNCHANGED <<status, answer, payments, outgoing, node>>

(* mark_succeeded: an error ends it.                                       *)
SucceedPayment(t) ==
    /\ pc[t] = "succeed_state"
    /\ \/ /\ Written(TRUE, SucceedState(store))
          /\ Goto(t, "succeed_attempt")
          /\ UNCHANGED life
       \/ /\ WriteFails(TRUE, SucceedState(store))
          /\ Finish(t)
    /\ UNCHANGED <<status, answer, payments, outgoing, node>>

SucceedAttempt(t) ==
    /\ pc[t] = "succeed_attempt"
    /\ LET a == life[t].attempt
           allowed == SucceedAttemptAllowed(store, a)
       IN  \/ Written(allowed, SucceedAttemptInfo(store, a))
           \/ WriteFails(allowed, SucceedAttemptInfo(store, a))
    /\ Finish(t)
    /\ UNCHANGED <<status, answer, payments, outgoing, node>>

-----------------------------------------------------------------------------
(* lightningd: the outgoing payment, the chain, crashes.                   *)

(* The running pay command sends a part, on the longest route it may use,  *)
(* as long as it has no preimage.                                          *)
SendPart(t) ==
    /\ pc[t] = "pay"
    /\ ~outgoing.paid
    /\ life[t].max_cltv_delta >= MinFinalCltv
    /\ outgoing' = [outgoing EXCEPT
                      !.inflight = TRUE,
                      !.backing = life[t].backing,
                      !.spent = InvoiceAmount[life[t].trampoline]
                                + life[t].max_fee,
                      !.expiry = height + life[t].max_cltv_delta,
                      !.lag = height - life[t].read_height]
    /\ UNCHANGED <<status, answer, payments, pc, life, store, node>>

(* A part is fulfilled; others may still be in flight, as they may be when *)
(* all remaining ones are done.                                            *)
PartSucceeds ==
    /\ outgoing.inflight
    /\ \E more \in BOOLEAN :
          outgoing' = [outgoing EXCEPT !.inflight = more, !.paid = TRUE]
    /\ UNCHANGED <<status, answer, payments, pc, life, store, node>>

PartsFail ==
    /\ outgoing.inflight
    /\ outgoing' = IF outgoing.paid THEN [outgoing EXCEPT !.inflight = FALSE]
                                    ELSE NoOutgoing
    /\ UNCHANGED <<status, answer, payments, pc, life, store, node>>

MineBlock ==
    /\ height < MaxHeight
    /\ height' = height + 1
    /\ UNCHANGED <<status, answer, payments, pc, life, store, outgoing,
                   current_height, crashes, allow_self_route_hints>>

UpdatedHeight(known, reported) == IF reported > known THEN reported ELSE known

(* update_height, with a height reported by a block_added notification or  *)
(* a poll, both of which may be delivered late.                            *)
UpdateHeight ==
    /\ \E reported \in 0..height :
          current_height' = UpdatedHeight(current_height, reported)
    /\ UNCHANGED <<status, answer, payments, pc, life, store, outgoing,
                   height, crashes, allow_self_route_hints>>

(* The node goes down and comes up: tasks, map and uncommitted responses   *)
(* are gone, the HTLCs are offered again, and the block watcher polls      *)
(* before the first hook is called.  Options may have another value.       *)
Crash ==
    /\ crashes < MaxCrashes
    /\ crashes' = crashes + 1
    /\ payments' = NoPayment
    /\ pc' = [t \in Lifecycle |-> IF pc[t] = "unborn" THEN "unborn"
                                                      ELSE "done"]
    /\ life' = [t \in Lifecycle |-> DeadLocals]
    /\ status' = [h \in Htlc |-> IF status[h] \in {"held", "answered"}
                                 THEN "replay" ELSE status[h]]
    /\ answer' = [h \in Htlc |-> IF status[h] \in {"held", "answered"}
                                 THEN "none" ELSE answer[h]]
    /\ current_height' = height
    /\ allow_self_route_hints' \in SelfRouteHints
    /\ UNCHANGED <<store, outgoing, height>>

-----------------------------------------------------------------------------
Handle(h) ==
    \/ AnswerUntouched(h)
    \/ JoinPayment(h)
    \/ \E t \in Lifecycle : StartPayment(h, t)

(* The steps of a lifecycle task that the runtime schedules.               *)
LifecycleStep(t) ==
    \/ FetchPayment(t) \/ WaitPayment(t)
    \/ RecoverAttempt(t) \/ RecoverState(t)
    \/ TimeOut(t) \/ ReceiveFailRequest(t) \/ ReceivePaymentReady(t)
    \/ ReadParams(t) \/ ReadHeight(t) \/ AddState(t) \/ AddAttempt(t)
    \/ PayReturns(t) \/ Resolve(t)
    \/ FailAttempt(t) \/ FailState(t)
    \/ SucceedPayment(t) \/ SucceedAttempt(t)

Lightningd ==
    \/ \E t \in Lifecycle : SendPart(t)
    \/ PartSucceeds \/ PartsFail
    \/ MineBlock \/ UpdateHeight
    \/ Crash

Next ==
    \/ \E h \in Htlc : Handle(h) \/ CommitAnswer(h)
    \/ \E t \in Lifecycle : LifecycleStep(t)
    \/ Lightningd

Spec == Init /\ [][Next]_vars

(* tokio schedules every task that can go on, and the timer of the select  *)
(* fires.  lightningd offers replayed HTLCs and commits responses.  Parts  *)
(* resolve, at the latest when their HTLCs expire.  A pay command may send *)
(* parts again and again, but only until retry_for has passed: so pay,     *)
(* which can return between two of them, returns eventually.               *)
Fairness ==
    /\ \A h \in Htlc : WF_vars(status[h] = "replay" /\ Handle(h))
                     /\ WF_vars(CommitAnswer(h))
    /\ \A t \in Lifecycle : WF_vars(LifecycleStep(t)) /\ SF_vars(PayReturns(t))
    /\ WF_vars(PartSucceeds \/ PartsFail)

FairSpec == Spec /\ Fairness

-----------------------------------------------------------------------------
(* Properties                                                              *)

(* Every variable keeps its type.                                          *)
TypeOK ==
    /\ status \in [Htlc -> HtlcStatus]
    /\ answer \in [Htlc -> Answer]
    /\ payments \in Payment \cup {NoPayment}
    /\ pc \in [Lifecycle -> Step]
    /\ life \in [Lifecycle -> Locals]
    /\ store \in Store
    /\ outgoing \in Outgoing
    /\ height \in Nat
    /\ current_height \in Nat
    /\ crashes \in Nat
    /\ allow_self_route_hints \in SelfRouteHints

(* The payment is in the map exactly while one task is before the end of   *)
(* its resolve: the two expect() of the lifecycle, on the payment being    *)
(* ready for paying and on it being there to resolve, never panic.         *)
OneTaskPerPayment ==
    /\ \A t, u \in Lifecycle : pc[t] \in Active /\ pc[u] \in Active => t = u
    /\ (\E t \in Lifecycle : pc[t] \in Active) <=> payments # NoPayment

(* An HTLC that waits for a response is in the payment that will answer    *)
(* it, and a payment holds no HTLC that was answered: the oneshot receiver *)
(* of handle_htlc is never left without its sender.                        *)
HeldIsTracked ==
    \A h \in Htlc :
        status[h] = "held" <=> payments # NoPayment /\ h \in payments.htlcs

(* A handler sends on the two channels of capacity 1 while it holds the    *)
(* lock that the receiving task needs to go on: a second message would     *)
(* block every payment.  It is never sent.                                 *)
SendNeverBlocks ==
    payments # NoPayment =>
        payments.payment_ready <= 1 /\ Len(payments.fail_requested) <= 1

(* The steps of a task that has not looked at the channels yet.            *)
Waiting == {"fetch", "wait_payment", "recover_attempt", "recover_state",
            "select"}

(* A task that has not looked at the channels yet finds a message there    *)
(* once the HTLCs that are held suffice: however they join, and whatever   *)
(* failure was requested before, none waits for the timeout while the      *)
(* payment is complete.                                                    *)
CompleteIsAnnounced ==
    \A t \in Lifecycle :
        /\ pc[t] \in Waiting
        /\ FeeSufficient(RoutingPolicy, SumOf(Amount, payments.htlcs),
                         InvoiceAmount[payments.trampoline])
        => payments.payment_ready > 0 \/ payments.fail_requested # <<>>

(* A task that pays, or is about to, was given HTLCs that cover the amount *)
(* of the invoice it pays and the fee the policy asks for: over the        *)
(* integers, whatever wrapped when the amounts were added and compared.    *)
PaysWhenSufficient ==
    \A t \in Lifecycle :
        pc[t] \in {"height", "add_state", "add_attempt", "pay"} =>
            FeePaid(RoutingPolicy, SumOf(Amount, life[t].backing),
                    InvoiceAmount[life[t].trampoline])

(* An HTLC that the outgoing payment relies on can still be claimed.       *)
Claimable(h) ==
    \/ status[h] \in {"held", "replay", "settled"}
    \/ status[h] = "answered" /\ answer[h] = "resolve"

(* While something is outgoing, or was paid, no HTLC behind it is failed   *)
(* back: not by a timeout, a failure request, an error or a restart.       *)
BackingIsClaimable == Live => \A h \in outgoing.backing : Claimable(h)

(* And those HTLCs are worth what the outgoing payment may cost: the       *)
(* amount of the invoice and the maximum fee given to pay.                 *)
Solvent == Live => SumOf(Amount, outgoing.backing) >= outgoing.spent

(* The store does not call a payment free that is outgoing or paid, so a   *)
(* restarted node finds it: `This allows us to fetch payment information   *)
(* in case of a restart when a payment is in-flight.'                      *)
OutgoingIsRecorded == Live => store.state \in {"pending", "succeeded"}

(* The preimage in the store is never overwritten: the answer to the       *)
(* question in add_payment_attempt, `double check whether we're not        *)
(* accidentally overwriting the preimage here?'                            *)
PreimageIsKept ==
    [][store.state = "succeeded" => store'.state = "succeeded"]_vars

(* pay is called only when nothing of an earlier payment, of this run of   *)
(* the node or of one before, is outgoing or paid.                         *)
PaysOnce ==
    [][\A t \in Lifecycle : pc[t] # "pay" /\ pc'[t] = "pay" => ~Live]_vars

(* The outgoing parts expire at least cltv_delta before every HTLC behind  *)
(* them, less the blocks mined since the height was read: the gap shrinks  *)
(* by nothing else.                                                        *)
GapShrinksOnlyByLag ==
    outgoing.inflight =>
        \A h \in outgoing.backing :
            outgoing.expiry + CltvDelta <= Expiry[h] + outgoing.lag

(* A task that finds a payment pending of which nothing is outgoing        *)
(* anymore gets to record that it failed, and goes on: what                *)
(* test_replay_payment_in_flight_failure_then_success expects of a replay. *)
RecoveryGoesOn ==
    [][\A t \in Lifecycle :
          pc[t] = "recover_attempt" => pc'[t] # "resolve"]_vars

(* The plugin implements the escrow: an HTLC is open there until           *)
(* lightningd commits an answer.                                           *)
Fate(h) == CASE status[h] = "settled" -> "settled"
             [] status[h] = "failed"  -> "refunded"
             [] OTHER                 -> "open"

Escrow == INSTANCE HtlcEscrow WITH
              fate     <- [h \in Htlc |-> Fate(h)],
              inflight <- outgoing.inflight,
              paid     <- outgoing.paid,
              backing  <- outgoing.backing

ImplementsEscrow == Escrow!EscrowSpec

(* Every HTLC the plugin takes is answered, also over restarts.            *)
EveryHtlcIsAnswered ==
    \A h \in Htlc : status[h] \in {"held", "replay"} ~>
                       status[h] \in {"settled", "failed", "continued"}

(* Every HTLC behind an outgoing payment that was paid is claimed.         *)
PaidIsClaimed ==
    outgoing.paid ~> \A h \in outgoing.backing : status[h] = "settled"
=============================================================================
