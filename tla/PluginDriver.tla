----------------------------- MODULE PluginDriver -----------------------------
(***************************************************************************)
(* The process around the HtlcManager: main (src/src/main.rs) makes the    *)
(* handshake with lightningd, starts the block watcher and the plugin      *)
(* driver (src/src/cln_plugin/mod.rs) and waits for the driver to end.     *)
(* The driver's loop reads the calls of lightningd and runs each in a task *)
(* of its own; the tasks put their responses in a channel of capacity 4    *)
(* that the same loop empties into the pipe.                               *)
(*                                                                         *)
(* A call of the htlc_accepted hook may wait for others: the HTLCs of one  *)
(* payment are answered together.  That is all of the HtlcManager that is  *)
(* seen here.                                                              *)
(***************************************************************************)
EXTENDS BlockWatcher, PluginOptions, Sequences

CONSTANTS Hook,        \* the hook calls lightningd makes
          Unhandled,   \* calls of a method that has no handler
          Needs,       \* [Hook -> SUBSET Hook]: the calls it is answered with
          Sent,        \* the options lightningd may have values for
          Capacity,    \* of the response channel: 4
          MaxHeight    \* bound: the last block

ASSUME DriverAssumption ==
    /\ Unhandled \subseteq Hook
    /\ Needs \in [Hook -> SUBSET Hook]
    /\ \A options \in Sent : \A name \in DOMAIN options : IsJson(options[name])
    /\ Capacity \in Nat \ {0}
    /\ MaxHeight \in Nat

VARIABLES
    main,       \* where main is
    driver,     \* where the task of the driver is
    pipe,       \* whether lightningd is there: "open" or "closed"
    input,      \* what lightningd wrote that was not read yet
    hook,       \* [Hook -> HookStatus]
    responses,  \* the calls whose response is in the channel
    woken,      \* whether main's receiver of wait_handle has the message
    sent,           \* the options in the init call, the empty function before
    option_values,  \* ConfiguredPlugin::option_values, the same
    params          \* what main makes of them, the same

configVars == <<sent, option_values, params>>
driverVars == <<main, driver, pipe, input, hook, responses, woken, configVars>>
vars == <<watcherVars, driverVars>>

(* join: start has returned, join has not subscribed yet.                  *)
MainStep == {"manifest", "init", "setup", "watcher", "start", "join", "joined",
             "stop", "await", "exited", "failed"}
(* ended: the loop was left, the waiting tasks are not notified yet.       *)
DriverStep == {"unborn", "running", "ended", "gone"}
(* lost: the response was sent to a channel without a receiver.            *)
HookStatus == {"idle", "called", "running", "returned", "queued", "answered",
               "lost"}

(* A message names the hook call or the height of a block it is about, the *)
(* messages of the handshake name nothing.                                 *)
Message(kind, what) == [kind |-> kind, what |-> what]

IsAlive == main \notin {"exited", "failed"}

DriverInit ==
    /\ main = "manifest"
    /\ driver = "unborn"
    /\ pipe = "open"
    /\ input = <<Message("getmanifest", 0)>>
    /\ hook = [r \in Hook |-> "idle"]
    /\ responses = <<>>
    /\ woken = FALSE
    /\ sent = <<>>
    /\ option_values = <<>>
    /\ params = <<>>

Init == WatcherInit /\ DriverInit

-----------------------------------------------------------------------------
(* main                                                                    *)

GotoMain(step) == main' = step

Read == input' = Tail(input)

(* configure: answer getmanifest, with the options.  lightningd then sends *)
(* init, with the values it has for them.                                  *)
AnswerManifest ==
    /\ main = "manifest"
    /\ input # <<>>
    /\ IF pipe = "open"
       THEN /\ GotoMain("init")
            /\ input' = Append(Tail(input), Message("init", 0))
            /\ sent' \in {options \in Sent : MaySend(options)}
       ELSE /\ GotoMain("failed")
            /\ Read
            /\ UNCHANGED sent
    /\ UNCHANGED <<watcherVars, driver, pipe, hook, responses, woken,
                   option_values, params>>

HandleInit ==
    /\ main = "init"
    /\ input # <<>>
    /\ Read
    /\ IF HandleInitPanics(sent)
       THEN GotoMain("failed") /\ UNCHANGED option_values
       ELSE GotoMain("setup") /\ option_values' = OptionValues(sent)
    /\ UNCHANGED <<watcherVars, driver, pipe, hook, responses, woken, sent,
                   params>>

(* The connection is lost in the handshake: after the manifest this is how *)
(* --help ends.                                                            *)
HandshakeLost ==
    /\ main = "init"
    /\ input = <<>>
    /\ pipe = "closed"
    /\ GotoMain("exited")
    /\ UNCHANGED <<configVars, watcherVars, driver, pipe, input, hook,
                   responses, woken>>

(* main asks lightningd for its node id and reads its options.  Then it    *)
(* starts the block watcher.                                               *)
Setup ==
    /\ main = "setup"
    /\ ParamsAreValid(option_values)
    /\ params' = Params(option_values)
    /\ GotoMain("watcher")
    /\ StartWatcher
    /\ UNCHANGED <<driver, pipe, input, hook, responses, woken, sent,
                   option_values>>

(* A call of lightningd fails: get_info, or the first poll of the watcher. *)
SetupFails ==
    /\ \/ main = "setup"
       \/ main = "watcher" /\ watcher = "first_poll"
    /\ GotoMain("failed")
    /\ UNCHANGED <<configVars, watcherVars, driver, pipe, input, hook,
                   responses, woken>>

(* An option is of no use; those of the e-mails are read when the watcher  *)
(* runs already.                                                           *)
OptionsFail ==
    /\ \/ main = "setup" /\ ~ParamsAreValid(option_values)
       \/ main = "start" /\ ~EmailParamsAreValid(option_values)
    /\ GotoMain("failed")
    /\ UNCHANGED <<configVars, watcherVars, driver, pipe, input, hook,
                   responses, woken>>

(* BlockWatcher::start has returned.                                       *)
WatcherStarted ==
    /\ main = "watcher"
    /\ watcher \in {"sleep", "poll", "update"}
    /\ GotoMain("start")
    /\ UNCHANGED <<configVars, watcherVars, driver, pipe, input, hook,
                   responses, woken>>

(* start: answer init and spawn the driver.                                *)
StartDriver ==
    /\ main = "start"
    /\ EmailParamsAreValid(option_values)
    /\ IF pipe = "open" THEN GotoMain("join") /\ driver' = "running"
                        ELSE GotoMain("failed") /\ UNCHANGED driver
    /\ UNCHANGED <<configVars, watcherVars, pipe, input, hook, responses,
                   woken>>

Join ==
    /\ main = "join"
    /\ GotoMain("joined")
    /\ UNCHANGED <<configVars, watcherVars, driver, pipe, input, hook,
                   responses, woken>>

Joined ==
    /\ main = "joined"
    /\ woken
    /\ GotoMain("stop")
    /\ UNCHANGED <<configVars, watcherVars, driver, pipe, input, hook,
                   responses, woken>>

(* The shutdown channel has room for the only message that is ever sent.   *)
StopWatcher ==
    /\ main = "stop"
    /\ shutdown = 0
    /\ shutdown' = shutdown + 1
    /\ GotoMain("await")
    /\ UNCHANGED <<configVars, height, current_height, watcher, polled, added,
                   driver, pipe, input, hook, responses, woken>>

AwaitWatcher ==
    /\ main = "await"
    /\ watcher = "stopped"
    /\ GotoMain("exited")
    /\ UNCHANGED <<configVars, watcherVars, driver, pipe, input, hook,
                   responses, woken>>

-----------------------------------------------------------------------------
(* The driver's loop: one iteration reads a message or writes a response.  *)

MayDispatch_one_at_a_time == \A r \in Hook : hook[r] # "running"
MayDispatch == TRUE

DispatchRequest ==
    /\ driver = "running"
    /\ MayDispatch
    /\ input # <<>>
    /\ Head(input).kind = "request"
    /\ Read
    /\ LET r == Head(input).what
       IN  IF r \in Unhandled
           THEN driver' = "ended" /\ UNCHANGED hook
           ELSE hook' = [hook EXCEPT ![r] = "running"] /\ UNCHANGED driver
    /\ UNCHANGED <<configVars, watcherVars, main, pipe, responses, woken>>

DispatchNotification ==
    /\ driver = "running"
    /\ MayDispatch
    /\ input # <<>>
    /\ Head(input).kind = "block_added"
    /\ Read
    /\ added' = added \cup {Head(input).what}
    /\ UNCHANGED <<configVars, height, current_height, watcher, polled,
                   shutdown, main, driver, pipe, hook, responses, woken>>

ReadFails ==
    /\ driver = "running"
    /\ input = <<>>
    /\ pipe = "closed"
    /\ driver' = "ended"
    /\ UNCHANGED <<configVars, watcherVars, main, pipe, input, hook,
                   responses, woken>>

(* The response is written, or the error of the write ends the loop.       *)
WriteResponse ==
    /\ driver = "running"
    /\ responses # <<>>
    /\ responses' = Tail(responses)
    /\ IF pipe = "open"
       THEN hook' = [hook EXCEPT ![Head(responses)] = "answered"]
            /\ UNCHANGED driver
       ELSE hook' = [hook EXCEPT ![Head(responses)] = "lost"]
            /\ driver' = "ended"
    /\ UNCHANGED <<configVars, watcherVars, main, pipe, input, woken>>

(* joiner.send reaches the receivers there are.  The loop only ends with   *)
(* an error.                                                               *)
Notifies_on_success(outcome) == outcome = "ok"
Notifies(outcome) == TRUE

NotifyJoiners ==
    /\ driver = "ended"
    /\ driver' = "gone"
    /\ woken' = (Notifies("error") /\ main = "joined")
    /\ UNCHANGED <<configVars, watcherVars, main, pipe, input, hook,
                   responses>>

HasRoom_always == TRUE
HasRoom == Len(responses) < Capacity

(* The task of a hook call: the callback returns once the calls it needs   *)
(* are being handled too, and its response waits for room in the channel.  *)
CallbackReturns(r) ==
    /\ hook[r] = "running"
    /\ \A s \in Needs[r] : hook[s] \notin {"idle", "called"}
    /\ hook' = [hook EXCEPT ![r] = "returned"]
    /\ UNCHANGED <<configVars, watcherVars, main, driver, pipe, input,
                   responses, woken>>

SendResponse(r) ==
    /\ hook[r] = "returned"
    /\ \/ /\ driver = "running"
          /\ HasRoom
          /\ responses' = Append(responses, r)
          /\ hook' = [hook EXCEPT ![r] = "queued"]
       \/ /\ driver # "running"
          /\ hook' = [hook EXCEPT ![r] = "lost"]
          /\ UNCHANGED responses
    /\ UNCHANGED <<configVars, watcherVars, main, driver, pipe, input, woken>>

-----------------------------------------------------------------------------
(* lightningd: it calls a plugin that has answered init.                   *)

IsInitialized == driver # "unborn"

CallHook(r) ==
    /\ IsInitialized
    /\ pipe = "open"
    /\ hook[r] = "idle"
    /\ hook' = [hook EXCEPT ![r] = "called"]
    /\ input' = Append(input, Message("request", r))
    /\ UNCHANGED <<configVars, watcherVars, main, driver, pipe, responses,
                   woken>>

MineBlock ==
    /\ pipe = "open"
    /\ height < MaxHeight
    /\ height' = height + 1
    /\ input' = IF IsInitialized
                THEN Append(input, Message("block_added", height + 1))
                ELSE input
    /\ UNCHANGED <<configVars, current_height, watcher, polled, added,
                   shutdown, main, driver, pipe, hook, responses, woken>>

ClosePipe ==
    /\ pipe = "open"
    /\ pipe' = "closed"
    /\ UNCHANGED <<configVars, watcherVars, main, driver, input, hook,
                   responses, woken>>

-----------------------------------------------------------------------------
Main ==
    \/ AnswerManifest \/ HandleInit \/ HandshakeLost
    \/ Setup \/ SetupFails \/ OptionsFail \/ WatcherStarted \/ StartDriver
    \/ Join \/ Joined \/ StopWatcher \/ AwaitWatcher

Driver ==
    \/ DispatchRequest \/ DispatchNotification \/ ReadFails \/ NotifyJoiners

HookTask(r) == CallbackReturns(r) \/ SendResponse(r)

PollReturns == GetInfo /\ UNCHANGED driverVars
Watcher ==
    (GetInfo \/ PollForever) /\ UNCHANGED driverVars
BlockTask ==
    (\E h \in added : NewBlock(h)) /\ UNCHANGED driverVars

Process ==
    \/ Main \/ Driver \/ WriteResponse \/ Watcher \/ BlockTask
    \/ \E r \in Hook : HookTask(r)

Lightningd == (\E r \in Hook : CallHook(r)) \/ MineBlock \/ ClosePipe

(* When main returns the runtime drops every task.                         *)
Next == IsAlive /\ (Process \/ Lightningd)

Spec == Init /\ [][Next]_vars

(* The runtime schedules every task that can go on.  The select of the     *)
(* loop takes a ready branch at random, so neither is starved, and the     *)
(* shutdown message of poll_forever is seen before its timer fires again.  *)
(* lightningd, while it is there, answers get_info every now and then.     *)
Fairness ==
    /\ WF_vars(IsAlive /\ Main)
    /\ WF_vars(IsAlive /\ Driver)
    /\ WF_vars(IsAlive /\ WriteResponse)
    /\ WF_vars(IsAlive /\ Watcher)
    /\ SF_vars(IsAlive /\ pipe = "open" /\ PollReturns)
    /\ SF_vars(IsAlive /\ ReceiveShutdown /\ UNCHANGED driverVars)
    /\ WF_vars(IsAlive /\ BlockTask)
    /\ \A r \in Hook : WF_vars(IsAlive /\ HookTask(r))

FairSpec == Spec /\ Fairness

-----------------------------------------------------------------------------
(* Properties                                                              *)

TypeOK ==
    /\ height \in Nat
    /\ current_height \in Nat
    /\ watcher \in WatcherStep
    /\ polled \in Nat
    /\ added \subseteq Nat
    /\ shutdown \in 0..1
    /\ main \in MainStep
    /\ driver \in DriverStep
    /\ pipe \in {"open", "closed"}
    /\ hook \in [Hook -> HookStatus]
    /\ responses \in Seq(Hook)
    /\ Len(responses) <= Capacity
    /\ woken \in BOOLEAN

(* No HTLC is handled before the height of the chain is known, as it was   *)
(* at the start or later: HtlcManager's Crash relies on it.                *)
HeightIsKnown == driver # "unborn" => current_height > 0

(* The options lightningd has values for never make the plugin panic: it   *)
(* sends them with the types the plugin announced, and those are the types *)
(* that handle_init and the option types of the code expect.               *)
OptionsNeverPanic ==
    /\ main = "init" => ~HandleInitPanics(sent)
    /\ main = "setup" =>
        \A name \in DOMAIN Options : ~OptionPanics(option_values, name)

(* A plugin that runs has the parameters the user set, or the default, as  *)
(* numbers and not modulo their type; and a policy that leaves blocks to   *)
(* the outgoing payment besides those that it is to expire earlier.        *)
Configured(name) ==
    LET set == SentValue(sent, name)
        default == Options[name].default
    IN  CASE Has(set, "number") -> set.number
          [] Has(set, "bool")   -> set.bool
          [] set = None /\ Has(default, "integer") -> default.integer
          [] set = None /\ Has(default, "boolean") -> default.boolean

ConfigurationIsSound ==
    driver # "unborn" =>
        /\ params.cltv_delta < params.cltv_expiry_delta
        /\ params.cltv_delta = Configured("trampoline-cltv-delta")
        /\ params.cltv_expiry_delta =
               Configured("trampoline-policy-cltv-delta")
        /\ params.fee_base_msat = Configured("trampoline-policy-fee-base")
        /\ params.fee_proportional_millionths =
               Configured("trampoline-policy-fee-per-satoshi")
        /\ params.mpp_timeout = Configured("trampoline-mpp-timeout")
        /\ params.payment_timeout = Configured("trampoline-payment-timeout")
        /\ params.allow_self_route_hints =
               ~Configured("trampoline-no-self-route-hints")
        /\ params.xpay = Configured("trampoline-xpay")

(* The height never goes back and is never ahead of the chain, whatever    *)
(* the order in which the poll and the tasks of the notifications get to   *)
(* update it.                                                              *)
HeightOnlyRises ==
    [][current_height' >= current_height /\ current_height' <= height']_vars

(* The plugin learns of every block, also of those mined while it starts,  *)
(* for as long as it runs and lightningd is there.                         *)
HeightCatchesUp ==
    \A h \in 1..MaxHeight :
        height >= h ~> current_height >= h \/ ~IsAlive \/ pipe = "closed"
                       \/ watcher = "stopped"

(* A hook call is answered once the calls it is answered with were made,   *)
(* unless the loop ends: no callback waits for the loop that would read    *)
(* what it waits for, nor the loop for the room its own channel lacks.     *)
HooksAreAnswered ==
    \A r \in Hook :
        /\ hook[r] # "idle"
        /\ \A s \in Needs[r] : hook[s] # "idle"
        ~> hook[r] = "answered" \/ driver \in {"ended", "gone"}

(* When the loop ends while main waits in join, the watcher is stopped and *)
(* the plugin terminates.                                                  *)
WaitingMainExits == driver = "ended" /\ main = "joined" ~> main = "exited"

(* `Now that we have left the reader loop its time to notify any waiting   *)
(* tasks.  This most likely will cause the main task to exit and the       *)
(* plugin to terminate.'                                                   *)
EndOfLoopEndsMain == driver = "ended" ~> ~IsAlive
=============================================================================
