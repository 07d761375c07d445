# A verification of the trampoline plugin

The plugin (`src/src`) lets a Core Lightning node forward *trampoline*
payments.  A sender pays the node a BOLT-11 invoice of somebody else: its HTLCs
end at the node and carry the invoice in the payment metadata.  The plugin holds
them in the `htlc_accepted` hook until they add up to the amount of the invoice
and a fee, pays the invoice with lightningd's `pay`, and claims the held HTLCs
with the preimage, or fails them back.  The node loses money when an HTLC is
failed back whose outgoing payment succeeds later, or when the invoice is paid
twice.  Most of this project is about why that does not happen, across
restarts, failed calls, late blocks and tasks in any order, and where it can.

## Inventory

| part | source | state | operations |
|---|---|---|---|
| HtlcManager | `htlc_manager.rs` | `payments`: payment hash -> `PaymentState`, under one mutex; one lifecycle task per payment with its locals | `handle_htlc`, `payment_lifecycle`, `resolve`, `add_htlc`, `fail` |
| Datastore | `store.rs` | rows in lightningd's datastore: one state row and one row per attempt for each hash | `fetch_payment_info`, `add_payment_attempt`, `mark_failed`, `mark_succeeded` |
| PaymentProvider | `payment_provider.rs` | none but the locals of a call | `pay`, `wait_payment` |
| Routing policy | `messages.rs` | none | `fee_sufficient` |
| BlockWatcher | `block_watcher.rs` | `current_height` under a mutex; a shutdown channel | `start`, `poll_forever`, `new_block`, `current_height` |
| Plugin driver | `cln_plugin/mod.rs` | pipe, response channel of capacity 4, one task per call, broadcast of the end | `configure`, `start`, `run`, `dispatch_one`, `join` |
| main, hook callbacks | `main.rs`, `plugin.rs` | the order of start and shutdown | `main`, `on_htlc_accepted`, `on_block_added` |
| Plugin options | `cln_plugin/options.rs`, `main.rs` | the values of the init call | announce, convert, refuse |
| TLV streams | `tlv.rs` | none | parse, serialise, `get`, `remove` |
| JSON-RPC codec and messages | `cln_plugin/codec.rs`, `messages.rs` | the buffers of both directions | `encode`, `decode`, `find_separator`, `deserialize` |
| Plugin logging | `cln_plugin/logging.rs` | an unbounded queue; the output lock, shared with the driver | `on_event`, `start_writer` |
| RPC client, e-mail | `rpc.rs`, `email.rs` | none | one call per connection; a mail after a failed payment |

How they interact.  lightningd writes hook calls and notifications into the
plugin's pipe; the driver's loop starts a task for each.  The task of an HTLC
calls `handle_htlc`, which adds the HTLC to the payment of its hash, under the
mutex, and waits on a oneshot channel.  The first HTLC of a hash spawns the
lifecycle task, which reads the store, waits for a pending payment of an earlier
run, selects between a timer and two channels of capacity 1 fed by the handlers,
reads the payment's parameters and the block watcher's height, records the
attempt, calls the payment provider, and resolves: it takes the payment off the
map and answers every oneshot channel.  Only then it records the outcome.

What is hard about it:

* the lifecycle gives up the mutex at every `await`, and HTLCs join meanwhile;
* the payment leaves the map before its outcome is recorded, so two lifecycles
  of one hash overlap, told apart by the generation of the state row;
* every operation of the store that writes makes two calls, and the node may go
  down between them, or the calls may fail;
* the node may go down at any time; the outgoing payment goes on without it, and
  lightningd offers the HTLCs again, perhaps to a plugin with other options;
* a handler sends to a bounded channel while it holds the mutex;
* heights are applied by concurrent tasks, in any order;
* callbacks wait for each other while one loop both reads the calls and writes
  the responses;
* that loop drops a read that has come half whenever a response is ready, and
  shares its output with the writer of the log;
* the payload of an HTLC is parsed by two functions that disagree about its
  framing, with reads that panic beyond its end.

What makes each part correct:

* HtlcManager: an HTLC behind an outgoing or paid payment is never failed back
  (`BackingIsClaimable`), those HTLCs are worth what the payment may cost
  (`Solvent`) and expire late enough (`GapShrinksOnlyByLag`), a hash is paid once
  (`PaysOnce`), every HTLC is answered (`EveryHtlcIsAnswered`), one task serves a
  payment (`OneTaskPerPayment`), no receiver is orphaned (`HeldIsTracked`), no
  handler blocks (`SendNeverBlocks`), a complete payment is announced to its task
  (`CompleteIsAnnounced`) and only a complete one is paid (`PaysWhenSufficient`).
* Datastore: a payment in flight is on record (`OutgoingIsRecorded`), a preimage
  is never lost (`PreimageIsKept`).
* Payload: what is read of a stream that is cut or written again is right
  (`CutStreamIsPrefix`, `RewrittenSaysTheSame`, `PrefixIsSkipped`), an HTLC that
  is continued loses no entry but its metadata (`OnlyMetadataIsDropped`), and an
  amount is one of 64 bits (`AmountFits`).
* PaymentProvider: a definite outcome is one (`OutcomeIsDefinite`), every call
  returns (`CallReturns`).
* Policy: the check is the one over the integers (`SufficientIsPaid`), for every
  rate and base fee, although its last addition may wrap.
* BlockWatcher: the height only rises and catches up (`HeightOnlyRises`,
  `HeightCatchesUp`), and is known before the first hook (`HeightIsKnown`).
* Driver and main: calls are answered (`HooksAreAnswered`), and a process whose
  pipe has closed terminates (`WaitingMainExits`).
* Options: no value that lightningd may send makes the plugin panic
  (`OptionsNeverPanic`), and a plugin that runs has the parameters that were set,
  not others modulo 2^16 (`ConfigurationIsSound`).
* Codec, logging and loop: both directions are pipes of whole messages
  (`InputIsAPipe`, `OutputIsAPipe`), every call gets its response into the
  output (`CallsAreAnswered`), and the log's queue is emptied even when writes
  fail (`LogsAreDrained`).

## Modules

| module | models | built from |
|---|---|---|
| `FeePolicy` | `fee_sufficient`, with the policy as its argument and the width of its integers as a parameter | |
| `PaymentStore` | the rows of one hash and, one operator per write, the operations on them | |
| `HtlcManager` | handler, map, lifecycle tasks, and lightningd with the outgoing payment, the chain and crashes | `FeePolicy`, `PaymentStore`, `HtlcEscrow` |
| `HtlcEscrow` | the abstract promise: HTLCs are open, settled or refunded, and backing is not refunded | |
| `Tlv` | compact sizes, tu64, streams of entries, over bytes of a parametric base | |
| `HtlcPayload` | from the payload of an HTLC to its kind, its amount and the fee check; `default_response` | `Tlv`, `FeePolicy` |
| `PaymentProvider` | one call of `pay` or `wait_payment` against parts that resolve | |
| `BlockWatcher` | the watcher's actions | |
| `PluginOptions` | option types, the table of options, `handle_init`'s values, what `main` makes of them | |
| `PluginDriver` | handshake, driver, hook tasks, `main`, and lightningd at the other end of the pipe | `BlockWatcher`, `PluginOptions` |
| `MessagePipe` | the abstract promise: messages are received whole, once and in order | |
| `FramedPipe` | the same with bytes: the codec between a sender and a receiver | `MessagePipe` |
| `PluginIo` | the loop's select, the output lock and the log's writer, with one `FramedPipe` for input and one for output | `FramedPipe` |
| `MC*` | values of the constants | |
| `*Proofs` | the theorems | |

Correspondence of `HtlcManager` and the code.  `payments` is the entry of the
map for the hash that is modelled (`NoPayment` when there is none);
`payment_ready` counts the unit messages in that channel and `fail_requested` is
the queue of the other.  `pc[t]` is the `await` at which lifecycle task `t`
stands and `life[t]` its locals.  A task makes at most one attempt, so its number
stands for the attempt id, which the code takes from the clock.  `store` is the
rows, with the generation that the datastore counts.  `JoinPayment` and
`StartPayment` are `handle_htlc` from the lock to the end of its block, with the
three checks, the calls of `fail` and `add_htlc`; `AnswerUntouched` its early
returns.  Each await of `payment_lifecycle` is an action: `FetchPayment`,
`WaitPayment`, `RecoverAttempt` and `RecoverState` (the two writes of
`mark_failed` in the replay path), the three branches of the select (`TimeOut`,
`ReceiveFailRequest`, `ReceivePaymentReady`), `ReadParams`, `ReadHeight`,
`AddState` and `AddAttempt`, `PayReturns`, `Resolve`, and the two writes each of
`mark_failed` and `mark_succeeded` after it.  The field `resolution` of
`PaymentState` is left out: it is set when the payment is off the map, so nobody
reads it.  The `+=` of `add_htlc` is an addition that wraps.  Two pieces of bookkeeping exist for the properties only: `backing` (the
HTLCs the parameters of a payment were computed from) and the fields of
`outgoing` other than `inflight` and `paid`.

`PluginDriver` has `main` and `driver` as positions of the two tasks, `input` as
the unread part of the pipe, `hook[r]` as the stage of a call, `responses` as
the channel, `woken` as main's broadcast receiver.  The watcher's actions come
from `BlockWatcher`; `main` starts and stops it, `DispatchNotification` feeds
it.  The handshake carries the options: `sent` are the values lightningd has for
them, `option_values` what `handle_init` keeps and `params` what `main`
computes.  `PluginIo` takes the loop apart where `PluginDriver` takes messages
for granted: in each direction the bytes that were ever encoded are one sequence
`stream`, and the numbers `moved` and `taken` say how much of it the receiver
has read and decoded, so that the buffers of sender and receiver are the parts
of the stream between them.  `HtlcManager` uses two results of `PluginDriver`:
the height after a restart is a polled one (`HeightIsKnown`), and reported
heights are at most the chain's, in any order; `update_height` itself, which keeps
the largest of them (`HeightOnlyRises`), is in both.

`HtlcPayload` is where `HtlcManager` gets the kind of an HTLC from.
`ExtractTrampolineInfo` and `DefaultResponse` are the two functions of
`htlc_manager.rs`, over the streams of `Tlv`; a parse has the status `ok`, `err` or
`panic`.  The first takes the metadata as a bare stream, the second as one with a
length in front, and this is kept.  The comment at `tlv.rs:174` says that the
length protects against overruns; the code drops it again (`into_inner`), so the
model reads on, as the code does.

A definition named `X_how` is a mutated form of `X`, a bug that `X` does not
have.  No specification uses them; they are there to check that a property can
fail.  For each property of each passing run, replacing `X` by its mutated form
violates the property under that run's own configuration.

## Runs

| run | instance | shows |
|---|---|---|
| `safety` | 3 HTLCs, one of 3 units and one of 1 for invoice i1 that need each other (3 are enough for the invoice, not for the fee) and one of 4 units for i2, the same hash; failing writes and waits; 2 crashes; 4 lifecycles | the money properties, the refinement of the escrow, bookkeeping (about 530,000 states) |
| `faults` | 3 HTLCs: one good, one for a self route hint that gets too close to its expiry, one that announces too little; every call fails; 1 crash; 2 lifecycles; blocks up to height 2 | bookkeeping, types and the gap of the expiries under every fault (about 1,750,000) |
| `liveness` | 3 HTLCs, failing writes, 1 crash, fairness | every HTLC is answered, also after the crash; a paid payment is claimed (about 5,400) |
| `provider` | 3 parts in every initial state, failing calls, fairness | definite outcomes, returning calls (about 4,300) |
| `payload` | bytes of 5 values, integers of 1, 2 and 3 bytes; every metadata of up to 5 bytes and every one with an invoice and an amount; HTLCs of 1, 7 and 60 units, so every amount received up to the money supply of 109; a base fee of 3 and the rates 0, 1 and 2 tenths | streams, payloads, and the fee check with its overflow and its wrap (about 96,000) |
| `driver` | 2 calls that are answered together, a call without handler, channel of capacity 1, 2 blocks, 3 good and 10 bad settings of the options, fairness | the process from handshake to shutdown (about 86,000) |
| `io` | 2 of 6 texts, among them one with single newlines, one that is empty and no JSON, and one of an unknown method; 2 log events; any number of bytes at a time; fairness | both directions are pipes, calls are answered, the log is drained (about 56,000) |
| `fetch_fails`, `option_changed`, `torn_attempt`, `listing_race`, `lost_wakeup` | the smallest instance that shows it | the disagreements below |

Why the bounds are enough.  Two HTLCs that need each other plus a third are the
least in which a payment is incomplete, complete and overfull, and in which an
HTLC joins late or with other trampoline info.  A hash has interesting overlaps
of at most two lifecycles: one that is recording its outcome and the next; four
numbers allow a third to start after each of two crashes.  More than one crash
is needed for a crash in the recovery from a crash.  Three parts let the
provider find one complete, one pending and one failed.  A channel of capacity 1
is harder than one of 4, since it is full more often.  A base of 5 leaves two
plain bytes and the three markers, so five bytes hold every kind of entry,
complete and cut.  Invoices of up to 124 units reach both ends of the fee check: at
a rate of 2 tenths the checked multiplication overflows from 63 on; at 0 and 1
tenths, which stand for the 0 and 1 millionths that the options allow, it never
does, and the unchecked addition wraps from 122 and from 111 on, to an amount that
has been received.  The money supply is as large as `MoneyAssumption` allows for
that width (109 + 3 + 124 \div 10 = 124).  The options
are set to the ends of their types, to the values just beyond, and to each
contradiction that `main` looks for.  Two messages each way are enough for a
buffer to hold the end of one and the beginning of the next.  The numbers of
lifecycles, crashes, blocks, calls and log events are bounds in guards
(`MaxLifecycles`, `MaxCrashes`, `MaxHeight`, `MaxCalls`, `MaxLogs`).  Deadlock
is not checked: every system here stops when all HTLCs are answered, a call has
returned or the process has exited; that it does not stop earlier is what the
liveness properties say.

Fault switches (`Faults`): `fetch` and `write` (the datastore call fails; a
failing write may have had its effect), `wait` (`wait_payment` returns an
error), `pay` (`pay` returns an error while something is outgoing).
`SelfRouteHints` is the set of values the option may take at each start.

### Disagreements of code and documentation

* `fetch_fails`: when the state of a payment cannot be read after a restart, its
  HTLCs are failed back although the payment may be in flight.
* `option_changed`: `check_htlc` looks at `allow_self_route_hints` although its
  own comment asks that checks a restart may change are not made there.
* `torn_attempt`: a crash between the two writes of `add_payment_attempt` leaves
  a pending state whose attempt row is missing; `mark_failed` fails on it at
  every replay and the hash can never be paid again.
* `listing_race`: a part fulfilled between the answers of the two `listsendpays`
  calls is in neither, and a paid payment is reported as failed.
* `lost_wakeup`: a driver that ends before `main` subscribes in `join` wakes
  nobody, and the process stays.

An error of `wait_payment` in the lifecycle runs into a `todo!()`.  In the model
the task then stays at `panicked`: its payment remains in the map, nothing is
lost or paid twice, and its HTLCs are never answered.  The code says so itself.

One more disagreement has no run of its own.  An error of a list or wait call
inside `pay` leaves it by the question mark (`payment_provider.rs:114`), and the
lifecycle takes it for a failed payment although its own comment
(`htlc_manager.rs:603-604`) says that `pay` returns "once the payment has fully
resolved".  In `PaymentProvider` this is the result `error`, and `OutcomeIsDefinite`
shows that it is the only way to return with parts outgoing and no preimage; in
`HtlcManager` it is the fault `pay`.

## Fairness

`HtlcManager!Fairness`: tokio runs every task that is not waiting, and the timer
of the select fires (weak fairness of a task's steps); lightningd offers
replayed HTLCs and commits responses; parts resolve, at the latest at their
expiry.  `pay` may send parts again and again, but only until `retry_for` has
passed, which `PayPaymentProvider` always sets; so `PayReturns`, which is enabled
between two parts, has strong fairness.  Nothing makes a sender offer a new HTLC,
a write succeed or a crash happen.  `PaymentProvider`: calls return and parts
resolve.  `PluginDriver`: every task is run; `select!` chooses randomly among the
ready branches, so both the reading and the writing branch of the loop are
taken; a shutdown message is seen by `poll_forever` before its timer fires once
more; lightningd answers `get_info` now and then while it is there.  Callbacks of
calls that wait for each other return once all of them are being handled;
without that assumption the timeout of the lifecycle would hide a loop that waits
for a callback.  `PluginIo`: the loop's select takes each of its two branches
again and again while it is ready (strong fairness of reading and of receiving a
response, for the other branch may disable either for a while); a callback that
waits for room in the channel gets it in turn; the output lock is given in the
order in which it was asked for, as tokio's mutex does; lightningd reads what is
written while it is there.  It need not send anything.

## Modelling assumptions

* There is only so much money (`MoneySupply`, 21 million bitcoins).  An invoice or
  an onion may name any amount of 64 bits, but what HTLCs carry is a part of the
  balance of a channel, so all HTLCs that are not resolved are together worth no
  more than there is.  This is the guard `IsFunded` of the actions that stand for
  lightningd offering an HTLC, in `HtlcManager` and `HtlcPayload`; the code has no
  such check, and its `+=` (`htlc_manager.rs:744`) would wrap without it.
  `MoneyAssumption` says that this supply, the largest base fee and the largest
  rate part that passes the checked multiplication fit the type together;
  `RealMoney` proves it for the real numbers, where it holds with a factor of
  eight to spare.  What an HTLC *announces* is not assumed to be funded: there a
  wrapped sum may pass the check, as in the code.
* One payment hash.  Payments of other hashes share only the mutex, which is
  never held over an await that can block (`SendNeverBlocks`).
* A crash takes the plugin and lightningd down together; the datastore, the
  incoming HTLCs and the outgoing parts survive.
* No part is sent after `pay` has returned or the node went down.
* `HtlcManager` takes the outcome of `pay` and `wait_payment` to be definite,
  unless the fault says otherwise.  `PaymentProvider` shows what that needs:
  `OutcomeIsDefinite` holds, but the race of the listings breaks
  `FailureMeansUnpaid`, and an error of a list call inside `pay` is taken for a
  failed payment.
* Time is abstract: a timer may fire at any moment.  The time left after a failed
  pending payment may be zero or not.
* The chain enforces nothing: an incoming HTLC that times out on chain is out of
  scope, and the gap between the expiries is what protects against it.
* Requests other than those of lightningd's protocol (a second `getmanifest`, a
  message without `method`) are not sent, except calls without a handler, which
  end the loop; in `PluginIo` also a built-in call, which is a `todo!()` in
  `dispatch_one`, and a text that is no call.

## Proofs

`tlapm` proves every invariant and every action property of the passing runs, and
the refinements, for every value of the constants that satisfies their
assumptions: any number of HTLCs, invoices, lifecycles, crashes, parts, bytes and
blocks.

* `HtlcManagerProofs` (no assumption on faults): `TypeCorrect`, `OneTask`,
  `HeldTracked`, `NoBlockedSend`.  The invariant `Bookkeeping` is the type invariant
  and the three properties together, with `ChannelInv`: what `is_ready` and
  `is_fail_requested` say about the two channels.  While
  the payment is neither ready nor failed no ready message has been sent, while
  it is not failed no failure has, and either channel holds at most one message.
* `HtlcManagerMoneyProofs` (under `ReliableCalls`: the datastore can be read,
  `pay` reports definite outcomes, and the option does not change):
  `BackingStaysClaimable`, `OutgoingStaysRecorded`, `PaidAtMostOnce`,
  `PreimageStays`, `PluginImplementsEscrow`, `PluginLosesNothing`.
  None of these is inductive.  The argument is in `MoneyInv`: the state row is the
  only thing that later tasks go by, and it is written by tasks that have already
  left the map.  So the invariant says who may still write what: a task that is
  about to free the row holds a generation, and either that is no longer the
  row's, or nothing is outgoing and no other task has taken the row; a task that
  is about to record a preimage has one that is really there; and while a
  payment is outgoing or paid, the row says pending or succeeded, and every HTLC
  behind it is held in a payment whose task can only resolve it with the
  preimage.  The assumptions are the negations of what `fetch_fails`,
  `option_changed` and `listing_race` show.
* `HtlcManagerProofs` also has `GapShrinks`; its invariant carries the minimum of
  the expiries from the payment to the locals and to the parts.
* The same module has the money that is counted, again whatever fails:
  `AlwaysSolvent`, `OnlySufficientIsPaid` and `CompletePaymentIsAnnounced`.
  `FundsInv` follows the sum: a payment's `amount_received` is the sum of its
  HTLCs, which has not wrapped because they are funded (`OfferedIsFunded`); a ready
  message is sent only when that sum pays invoice and fee over the integers
  (`SufficientIsFeePaid`, from `MoneyAssumption`); what a task read before HTLCs
  joined is covered by those it read it from, and so are the parts.  What is paid
  stays paid (`FeePaidGrows`), so a message that a later failure request has
  overtaken does no harm.  `WakeupInv` says that a payment
  called ready or failed has the message in its channel until the task looks.
  Both are needed for the third theorem: the sum suffices, so one of the flags
  is set, so a message is there.  The sum over a set of HTLCs is a recursive
  function of the community modules; `SumCounts` shows it to be the number of
  elements of `Units`, a set with one element for each unit of each HTLC, and
  all that is needed of sums (`SumOfMore`) follows from the cardinality of a
  union.  The induction in it goes through a least counterexample, of which the
  library's theorem about well-founded orders says that it exists.
* `HtlcPayloadProofs`, the fee check: `FeeCheckIsExact`, for every policy that the
  options allow and every invoice of 64 bits.  The last addition of the code is
  not checked, and at rates of 0 or 1 millionth it does wrap, for invoices close
  to 2^64.  It cannot wrap for an invoice that somebody can pay
  (`FeeAdditionFits`), because a product that fits 64 bits is divided by a million
  and the base fee has 32 bits; and an invoice that nobody can pay is refused by
  the first comparison, whatever the sum wraps to.  What was received has not
  wrapped either (`FeeInvariant`).  Both rest on `MoneyAssumption`.
* `HtlcPayloadProofs`, the streams, for every sequence of bytes:
  `StreamRoundTrip`, `StreamIsRewrittenTheSame`, `CutStreamLosesTheEnd`,
  `PrefixIsSkippedWhole`, `OthersAreKept` and `AmountFitsTheType`.  The loops of
  `from_bytes` and `to_bytes` are recursive functions from the number of turns to
  the state after them.  `LoopExists` shows that such a function exists, and
  `TurnInduction` is the induction over its turns, for a *set* of good turns:
  the provers cannot instantiate an operator, but a set they can, and a least
  bad turn refutes itself.  Reading inverts writing for a big-endian integer, then
  for a compact size in each of its four forms, then for an entry, and turn by
  turn for a stream.  A cut stream is read in lockstep with the whole one, until
  an entry reaches over the cut: from there the read errs or stops.  The
  assumptions are that buffers have lengths that fit 64 bits (a `usize`, `Buffer`)
  and that the other entries of the payload that are looked at are not the
  metadata itself.
* `HtlcEscrow`: `EscrowLosesNothing`, which `PluginLosesNothing` carries over.
* `PaymentProviderProofs`: `OutcomesAreDefinite`, for any number of parts and with
  every call failing.  The invariant adds what the call knows: once the pending
  parts were listed, whatever is outgoing is waited for, because the pay
  command has returned and sends nothing more.
* `PluginDriverProofs`: `DriverTypeCorrect`, `HeightKnownFirst`, `HeightRises`,
  `NoOptionPanics`, `ConfiguredAsSet`, for any calls, blocks and options.  The
  invariant orders the starts of watcher and driver, bounds every height that is
  anywhere on its way, and follows the options from the init call to `main`.  The
  assumption on the options is that lightningd's integers have 64 bits
  (`IsJson`); that it sends a value with the announced type is in the action.
* `FramedPipeProofs`: `FramedPipeIsAPipe`, that bytes implement messages, for any
  texts without an empty line (`TextsAreFramable`, which the comment of
  `codec.rs` states as the protocol's guarantee).  The invariant lays every
  message out in the stream and keeps `taken` at the end of one; then the first
  separator in the buffer is the one behind the next message.
* `PluginIoProofs`: `InputIsAPipeOfCalls` and `OutputIsAPipeOfMessages`, which
  carry that theorem over to both directions: every step of the loop and of the
  log's writer is a step of the pipe or leaves it alone, the dropped read among
  them.

Only model-checked: liveness (`EveryHtlcIsAnswered`, `PaidIsClaimed`, `CallReturns`,
`HeightCatchesUp`, `HooksAreAnswered`, `WaitingMainExits`, `CallsAreAnswered`,
`LogsAreDrained`), because fairness and ENABLED are out of the prover's reach.  The
runs of the five disagreements each violate their property; `BackingIsClaimable`
is one of them, which is why its proof needs `ReliableCalls`.

## Not modelled

The RPC client (one connection per call and no state; its failures are fault
switches) and the e-mail service (formatting and one SMTP call in a task of its
own after a failed payment, whose result is only logged).  Of the plugin
library: the registration methods of the builder, `disable`, custom
notifications, dynamic options and the accessors of `Value`, none of which the
plugin uses, or only before the start.  Of the messages: the fields of the
manifest and of the configuration.  That a text is UTF-8 and JSON, or that an
invoice parses and is signed, is one membership test.  Levels and wording of log
events are left out.

## Plan

Done, in this order: `FeePolicy`, `PaymentStore`, `HtlcManager`, `HtlcEscrow`,
`PaymentProvider`, the proofs about them, `BlockWatcher`, `PluginDriver`,
then `Tlv` and `HtlcPayload`, `PluginOptions` in `PluginDriver`, `MessagePipe`,
`FramedPipe` and `PluginIo`, the proofs about `PaymentProvider`, `PluginDriver`,
`FramedPipe` and `PluginIo`, and then those about the sums of `HtlcManager`, its
wakeups and the streams of `HtlcPayload`.

Next:

1. `HtlcManager` composed with `PaymentProvider`: the part-level provider in the
   place of the definite outcome, with the money theorems carried over.
2. Two hashes in `HtlcManager`, to drop the first modelling assumption.

Not planned: a proof that `PluginDriver` implements the height of `HtlcManager`.
Both use the same `update_height`, and `HeightOnlyRises` is proved of the first.
