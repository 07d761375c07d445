----------------------------- MODULE PaymentStore -----------------------------
(***************************************************************************)
(* The rows that src/src/store.rs keeps in lightningd's datastore for one  *)
(* payment hash: the state row trampoline/payments/<hash>/state and one    *)
(* row per attempt under trampoline/payments/<hash>/attempts.  Every       *)
(* operation of the store that writes, writes two rows with two separate   *)
(* RPC calls, so each write is an operator of its own here and the module  *)
(* that uses them decides what happens in between.                         *)
(*                                                                         *)
(* The datastore counts the updates of a row in its generation: a new row  *)
(* has generation 0, and a write that names a generation is refused when   *)
(* the row has another one.                                                *)
(***************************************************************************)
EXTENDS Integers

CONSTANTS Attempt,     \* attempt ids (the code takes the clock in nanoseconds)
          NoAttempt    \* no attempt id

PersistState == {"absent", "free", "pending", "succeeded"}
AttemptInfo  == {"absent", "started", "failed", "succeeded"}

Store == [state      : PersistState,
          attempt    : Attempt \cup {NoAttempt},
          generation : Nat,
          attempts   : [Attempt -> AttemptInfo]]

EmptyStore == [state      |-> "absent",
               attempt    |-> NoAttempt,
               generation |-> 0,
               attempts   |-> [a \in Attempt |-> "absent"]]

-----------------------------------------------------------------------------
(* The datastore RPC.                                                      *)

WriteState(s, state, attempt) ==
    [s EXCEPT !.state = state,
              !.attempt = attempt,
              !.generation = IF s.state = "absent" THEN 0 ELSE @ + 1]

WriteAttempt(s, attempt, info) == [s EXCEPT !.attempts[attempt] = info]

(* MUST_REPLACE with a generation, and MUST_REPLACE without one.           *)
MayReplaceState(s, generation) ==
    s.state # "absent" /\ s.generation = generation

MayReplaceAttempt(s, attempt) == s.attempts[attempt] # "absent"

-----------------------------------------------------------------------------
(* fetch_payment_info: no row means the payment is free.                   *)
FetchPaymentInfo_pending_as_free(s) ==
    IF s.state = "succeeded" THEN "succeeded" ELSE "free"
FetchPaymentInfo_without_preimage(s) ==
    IF s.state = "pending" THEN "pending" ELSE "free"
FetchPaymentInfo(s) == IF s.state = "absent" THEN "free" ELSE s.state

(* add_payment_attempt: CREATE_OR_REPLACE the state, whatever it was, then *)
(* MUST_CREATE the attempt.                                                *)
AddAttemptState(s, attempt) == WriteState(s, "pending", attempt)
AddAttemptInfo(s, attempt)  == WriteAttempt(s, attempt, "started")

(* mark_failed: MUST_REPLACE the attempt, then MUST_REPLACE the state at   *)
(* the generation the attempt was made with.                               *)
FailAttemptAllowed(s, attempt)  == MayReplaceAttempt(s, attempt)
FailAttemptInfo(s, attempt)     == WriteAttempt(s, attempt, "failed")
FreeStateAllowed_ignoring_generation(s, generation) == s.state # "absent"
FreeStateAllowed(s, generation) == MayReplaceState(s, generation)
FreeState(s)                    == WriteState(s, "free", NoAttempt)

(* mark_succeeded: CREATE_OR_REPLACE the state, then MUST_REPLACE the      *)
(* attempt.                                                                *)
SucceedState(s)                   == WriteState(s, "succeeded", NoAttempt)
SucceedAttemptAllowed(s, attempt) == MayReplaceAttempt(s, attempt)
SucceedAttemptInfo(s, attempt)    == WriteAttempt(s, attempt, "succeeded")
=============================================================================
