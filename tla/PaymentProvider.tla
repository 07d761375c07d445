---------------------------- MODULE PaymentProvider ----------------------------
(***************************************************************************)
(* One call of PayPaymentProvider, src/src/payment_provider.rs: `pay' runs *)
(* lightningd's pay command and, unless the outcome is clear, falls back   *)
(* to `wait_payment', which lists the parts of the payment and waits for   *)
(* the pending ones.  HtlcManager uses only what a call returns; this      *)
(* module shows when that is what HtlcManager assumes.                     *)
(*                                                                         *)
(* The parts resolve concurrently with the call.  lightningd's side (the   *)
(* pay command, listsendpays, waitsendpay) is modelled from how the code   *)
(* uses it: no part is sent once the pay command has returned.             *)
(***************************************************************************)
EXTENDS Naturals, FiniteSets

CONSTANTS Part,      \* the parts of the payment
          Faults     \* {"rpc"} when a list or wait call may fail, or {}

ASSUME ProviderFaultsAssumption == Faults \subseteq {"rpc"}

VARIABLES parts,     \* [Part -> PartStatus]: lightningd's table of sendpays
          call,      \* the method that was called
          pc,        \* where the call is
          answered,  \* the listsendpays calls that have returned
          listed_complete, \* whether the one for COMPLETE had a preimage
          list_failed,     \* whether one of them failed
          waiting,   \* the parts whose waitsendpay has not returned
          result     \* what the call returned

vars == <<parts, call, pc, answered, listed_complete, list_failed, waiting,
          result>>

PartStatus == {"unsent", "pending", "complete", "failed"}
Call == {"pay", "wait_payment"}
Listing == {"COMPLETE", "PENDING"}
ProviderStep == {"pay", "list", "wait", "done"}
(* preimage: Ok(preimage) or Ok(Some(preimage)).  failed: what tells the   *)
(* caller that the payment failed.  error: a failure of a list or wait     *)
(* call, which the caller of pay cannot tell from failed.                  *)
Result == {"none", "preimage", "failed", "error"}

PartsThatAre(s) == {p \in Part : parts[p] = s}
IsOutgoing == PartsThatAre("pending") # {}
IsPaid == PartsThatAre("complete") # {}

-----------------------------------------------------------------------------
(* wait_payment is called for what a node that went down left behind, pay  *)
(* for a payment of which only failed parts may exist.                     *)
Init ==
    /\ \/ /\ call = "wait_payment"
          /\ parts \in [Part -> PartStatus]
          /\ pc = "list"
       \/ /\ call = "pay"
          /\ parts \in [Part -> {"unsent", "failed"}]
          /\ pc = "pay"
    /\ answered = {}
    /\ listed_complete = FALSE
    /\ list_failed = FALSE
    /\ waiting = {}
    /\ result = "none"

Return(r) ==
    /\ pc' = "done"
    /\ result' = r

(* The pay command returned: COMPLETE, PENDING, FAILED with or without a   *)
(* warning that it completed partially, or an error.                       *)
PayReturns ==
    /\ pc = "pay"
    /\ \/ IsPaid /\ Return("preimage")
       \/ ~IsOutgoing /\ ~IsPaid /\ Return("failed")
    /\ UNCHANGED <<parts, call, answered, listed_complete, list_failed, waiting>>

(* In the other cases, PENDING, a partial completion and an error, pay     *)
(* goes on with wait_payment.                                              *)
PayIsUnclear ==
    /\ pc = "pay"
    /\ pc' = "list"
    /\ UNCHANGED <<parts, call, answered, listed_complete, list_failed, waiting,
                   result>>

(* The two listings are requested together and answered at moments of      *)
(* their own.                                                              *)
ListSendpays(l) ==
    /\ pc = "list"
    /\ l \notin answered
    /\ answered' = answered \cup {l}
    /\ IF l = "COMPLETE" THEN listed_complete' = IsPaid /\ UNCHANGED waiting
                         ELSE waiting' = PartsThatAre("pending")
                              /\ UNCHANGED listed_complete
    /\ UNCHANGED <<parts, call, pc, list_failed, result>>

ListSendpaysFails(l) ==
    /\ "rpc" \in Faults
    /\ pc = "list"
    /\ l \notin answered
    /\ answered' = answered \cup {l}
    /\ list_failed' = TRUE
    /\ UNCHANGED <<parts, call, pc, listed_complete, waiting, result>>

(* The join of the two, and the waitsendpay calls it leads to.             *)
JoinListings ==
    /\ pc = "list"
    /\ answered = Listing
    /\ \/ list_failed /\ Return("error")
       \/ ~list_failed /\ listed_complete /\ Return("preimage")
       \/ /\ ~list_failed /\ ~listed_complete
          /\ IF waiting = {} THEN Return("failed")
                             ELSE pc' = "wait" /\ UNCHANGED result
    /\ UNCHANGED <<parts, call, answered, listed_complete, list_failed, waiting>>

(* The loop goes on until every waitsendpay has returned; the mutated    *)
(* forms give up at the first part that failed, or never.                  *)
NothingLeft_after_one(rest) == TRUE
NothingLeft_never(rest) == FALSE
NothingLeft(rest) == rest = {}

(* waitsendpay returns for one of the parts, in any order: with the        *)
(* preimage, with a code that says the part failed (202, 203, 204, 208,    *)
(* 209), or with another error.                                            *)
WaitSendpay(p) ==
    /\ pc = "wait"
    /\ p \in waiting
    /\ \/ /\ parts[p] = "complete"
          /\ Return("preimage")
          /\ UNCHANGED waiting
       \/ /\ parts[p] = "failed"
          /\ waiting' = waiting \ {p}
          /\ IF NothingLeft(waiting \ {p}) THEN Return("failed")
                                           ELSE UNCHANGED <<pc, result>>
    /\ UNCHANGED <<parts, call, answered, listed_complete, list_failed>>

WaitSendpayFails(p) ==
    /\ "rpc" \in Faults
    /\ pc = "wait"
    /\ p \in waiting
    /\ Return("error")
    /\ UNCHANGED <<parts, call, answered, listed_complete, list_failed, waiting>>

-----------------------------------------------------------------------------
(* lightningd: the pay command sends parts as long as it has no preimage;  *)
(* parts resolve.                                                          *)
SendPart(p) ==
    /\ pc = "pay"
    /\ ~IsPaid
    /\ parts[p] = "unsent"
    /\ parts' = [parts EXCEPT ![p] = "pending"]
    /\ UNCHANGED <<call, pc, answered, listed_complete, list_failed, waiting,
                   result>>

ResolvePart(p) ==
    /\ parts[p] = "pending"
    /\ \E s \in {"complete", "failed"} : parts' = [parts EXCEPT ![p] = s]
    /\ UNCHANGED <<call, pc, answered, listed_complete, list_failed, waiting,
                   result>>

Provider ==
    \/ PayReturns \/ PayIsUnclear \/ JoinListings
    \/ \E l \in Listing : ListSendpays(l) \/ ListSendpaysFails(l)
    \/ \E p \in Part : WaitSendpay(p) \/ WaitSendpayFails(p)

Next ==
    \/ Provider
    \/ \E p \in Part : SendPart(p) \/ ResolvePart(p)

Spec == Init /\ [][Next]_vars

(* The RPCs return, and parts resolve, at the latest when they expire.     *)
FairSpec ==
    /\ Spec
    /\ WF_vars(Provider)
    /\ \A p \in Part : WF_vars(ResolvePart(p))

-----------------------------------------------------------------------------
(* A preimage is returned only if a part was paid: settling the incoming   *)
(* HTLCs with it is backed by a payment.  A definite failure is returned   *)
(* only when no part of the payment is outgoing anymore.                   *)
OutcomeIsDefinite ==
    /\ result = "preimage" => IsPaid
    /\ result = "failed" => ~IsOutgoing

(* A definite failure means that nothing was paid either: `the return      *)
(* value is the preimage, if successful'.                                  *)
FailureMeansUnpaid == result = "failed" => ~IsPaid

(* Every call returns.                                                     *)
CallReturns == <>(pc = "done")
=============================================================================
