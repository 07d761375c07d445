-------------------------- MODULE PluginDriverProofs --------------------------
(***************************************************************************)
(* Proofs about the process around HtlcManager, for any calls, any number  *)
(* of blocks and whatever the user sets the options to.                    *)
(***************************************************************************)
EXTENDS PluginDriver, TLAPS

-----------------------------------------------------------------------------
(* The options                                                             *)

(* What the properties need of the table of options.                       *)
LEMMA OptionsOfParams ==
    /\ Options["trampoline-cltv-delta"] = IntegerOption(34)
    /\ Options["trampoline-policy-cltv-delta"] = IntegerOption(1008)
    /\ Options["trampoline-policy-fee-base"] = IntegerOption(0)
    /\ Options["trampoline-policy-fee-per-satoshi"] = IntegerOption(5000)
    /\ Options["trampoline-mpp-timeout"] = IntegerOption(60)
    /\ Options["trampoline-payment-timeout"] = IntegerOption(60)
    /\ Options["trampoline-no-self-route-hints"] = Option("Flag", None)
    /\ Options["trampoline-xpay"] = Option("DefaultBoolean", FALSE)
BY DEF Options, ParamOptions

(* And those of the e-mails.                                               *)
LEMMA OptionsOfEmails ==
    /\ Options["trampoline-email-from"] = Option("String", None)
    /\ Options["trampoline-email-to"] = Option("String", None)
    /\ Options["trampoline-email-cc"] = Option("String", None)
    /\ Options["trampoline-email-subject"] = Option("DefaultString", Subject)
BY DEF Options, EmailOptions

(* There are no others.                                                    *)
LEMMA OptionsHaveNames == DOMAIN Options = ParamOptions \cup EmailOptions
BY DEF Options

(* The default of an option is a value of its type, for each of the types. *)
LEMMA DefaultIsTyped ==
    ASSUME NEW type \in OptionType, NEW default
    PROVE  /\ Option(type, default).type = type
           /\ ~FromValuePanics(type, Option(type, default).default)
BY DEF Option, OptionType, ConvertDefault, FromValuePanics, VariantOf,
       IsOptional, Has, String, Integer, Boolean, None

(* So every option has a default of its own type.                          *)
LEMMA OptionsAreTyped ==
    ASSUME NEW name \in DOMAIN Options
    PROVE  /\ Options[name].type \in OptionType
           /\ ~FromValuePanics(Options[name].type, Options[name].default)
<1>1. /\ "Flag" \in OptionType /\ "DefaultBoolean" \in OptionType
      /\ "String" \in OptionType /\ "DefaultString" \in OptionType
      /\ "DefaultInteger" \in OptionType
  BY DEF OptionType
<1>2. ASSUME NEW type \in OptionType, NEW default,
             Options[name] = Option(type, default)
      PROVE  /\ Options[name].type \in OptionType
             /\ ~FromValuePanics(Options[name].type, Options[name].default)
  BY <1>2, DefaultIsTyped
<1>3. CASE name \in ParamOptions
  <2>1. CASE name = "trampoline-no-self-route-hints"
    BY <1>1, <1>2, <2>1, OptionsOfParams
  <2>2. CASE name = "trampoline-xpay"
    BY <1>1, <2>2, OptionsOfParams
       DEF Option, ConvertDefault, FromValuePanics, VariantOf, Has, Boolean
  <2>3. CASE name \in {"trampoline-cltv-delta", "trampoline-policy-cltv-delta",
                      "trampoline-policy-fee-base",
                      "trampoline-policy-fee-per-satoshi",
                      "trampoline-mpp-timeout", "trampoline-payment-timeout"}
    <3>1. \E default : Options[name] = IntegerOption(default)
      BY <2>3, OptionsOfParams
    <3>2. QED
      BY <1>1, <1>2, <3>1 DEF IntegerOption
  <2>4. QED
    BY <1>3, <2>1, <2>2, <2>3 DEF ParamOptions
<1>4. CASE name \in EmailOptions
  BY <1>1, <1>2, <1>4, OptionsOfEmails DEF EmailOptions
<1>5. QED
  BY <1>3, <1>4, OptionsHaveNames

(* What lightningd sends for an option is never a value that handle_init   *)
(* or the type of the option does not expect.                              *)
LEMMA SentIsTyped ==
    ASSUME NEW options \in Sent, MaySend(options)
    PROVE  /\ ~HandleInitPanics(options)
           /\ \A name \in DOMAIN Options :
                  ~OptionPanics(OptionValues(options), name)
<1>1. ASSUME NEW name \in DOMAIN Options, name \in DOMAIN options
      PROVE  /\ IsJson(options[name])
             /\ IsSentAs(options[name], ValueTypeOf(Options[name].type))
  BY <1>1, DriverAssumption DEF MaySend
<1>2. ~HandleInitPanics(options)
  <2>1. SUFFICES ASSUME NEW name \in DOMAIN Options
                 PROVE  LET json == SentValue(options, name)
                        IN  \/ json = None
                            \/ Has(json, "string") \/ Has(json, "bool")
                            \/ Has(json, "number")
                               /\ json.number \in (-I64Max - 1)..I64Max
    BY DEF HandleInitPanics
  <2>2. CASE name \notin DOMAIN options
    BY <2>2 DEF SentValue
  <2>3. CASE name \in DOMAIN options
    BY <1>1, <2>3 DEF SentValue, IsJson, Has
  <2>4. QED
    BY <2>2, <2>3
<1>3. ASSUME NEW name \in DOMAIN Options
      PROVE  ~OptionPanics(OptionValues(options), name)
  <2> DEFINE type == Options[name].type
             default == Options[name].default
             value == OptionValues(options)[name]
  <2>1. type \in OptionType /\ ~FromValuePanics(type, default)
    BY OptionsAreTyped
  <2>2. value = OptionValue(SentValue(options, name), default)
    BY DEF OptionValues
  <2>3. CASE name \notin DOMAIN options
    <3>1. value = OptionValue(None, default)
      BY <2>2, <2>3 DEF SentValue
    <3>2. OptionValue(None, default) = default
      BY DEF OptionValue, None, Has
    <3>3. QED
      BY <2>1, <3>1, <3>2 DEF OptionPanics
  <2>4. CASE name \in DOMAIN options
    <3> DEFINE json == options[name]
    <3>1. IsJson(json) /\ IsSentAs(json, ValueTypeOf(type))
      BY <1>1, <2>4
    <3>2. json # None
      BY <3>1 DEF IsJson, None
    <3>3. value = OptionValue(json, default)
      BY <2>2, <2>4 DEF SentValue
    <3> HIDE DEF json, type, default, value
    <3>4. Has(value, VariantOf(type))
      BY <2>1, <3>1, <3>2, <3>3
         DEF IsJson, IsSentAs, ValueTypeOf, OptionType, OptionValue,
             VariantOf, Has, String, Integer, Boolean
    <3>5. QED
      BY <3>4 DEF OptionPanics, FromValuePanics, type, value
  <2>5. QED
    BY <2>3, <2>4
<1>4. QED
  BY <1>2, <1>3

(* An option that has the right type has the value that was set, or the    *)
(* default.                                                                *)
LEMMA IntegerIsConfigured ==
    ASSUME sent \in Sent, option_values = OptionValues(sent),
           NEW name \in DOMAIN Options, NEW d \in Int,
           Options[name] = IntegerOption(d), ~OptionPanics(option_values, name)
    PROVE  option_values[name].integer = Configured(name)
<1> DEFINE json == SentValue(sent, name)
<1>1. /\ Options[name].default = Integer(d)
      /\ Options[name].type = "DefaultInteger"
  BY DEF IntegerOption, Option, ConvertDefault
<1>2. option_values[name] = OptionValue(json, Integer(d))
  BY <1>1 DEF OptionValues
<1>3. Has(option_values[name], "integer")
  BY <1>1 DEF OptionPanics, FromValuePanics, VariantOf, IsOptional
<1>4. json = None \/ IsJson(json)
  BY DriverAssumption DEF SentValue
<1>5. CASE json = None
  <2>1. option_values[name] = Integer(d)
    BY <1>2, <1>5 DEF OptionValue, None, Has
  <2>2. Configured(name) = Integer(d).integer
    BY <1>1, <1>5 DEF Configured, None, Has, Integer
  <2>3. QED
    BY <2>1, <2>2
<1>6. CASE IsJson(json)
  <2> HIDE DEF json
  <2>1. json # None
    BY <1>6 DEF IsJson, None
  <2>2. Has(json, "number") /\ option_values[name] = Integer(json.number)
    BY <1>2, <1>3, <1>6, <2>1
       DEF OptionValue, IsJson, Has, String, Integer, Boolean
  <2>3. ~Has(json, "bool") /\ ~Has(json, "string")
    BY <1>6, <2>2 DEF IsJson, Has
  <2>4. Configured(name) = json.number
    BY <2>1, <2>2, <2>3 DEF Configured, json
  <2>5. QED
    BY <2>2, <2>4 DEF Integer
<1>7. QED
  BY <1>4, <1>5, <1>6

(* The same for the two options that are a choice.                         *)
LEMMA BooleanIsConfigured ==
    ASSUME sent \in Sent, option_values = OptionValues(sent),
           NEW name \in {"trampoline-no-self-route-hints", "trampoline-xpay"},
           ~OptionPanics(option_values, name)
    PROVE  option_values[name].boolean = Configured(name)
<1> DEFINE json == SentValue(sent, name)
<1>1. /\ Options[name].default = Boolean(FALSE)
      /\ Options[name].type \in {"Flag", "DefaultBoolean"}
      /\ name \in DOMAIN Options
  <2>1. CASE name = "trampoline-no-self-route-hints"
    BY <2>1, OptionsOfParams, OptionsHaveNames
       DEF Option, ConvertDefault, ParamOptions
  <2>2. CASE name = "trampoline-xpay"
    BY <2>2, OptionsOfParams, OptionsHaveNames
       DEF Option, ConvertDefault, ParamOptions
  <2>3. QED
    BY <2>1, <2>2
<1>2. option_values[name] = OptionValue(json, Boolean(FALSE))
  BY <1>1 DEF OptionValues
<1>3. Has(option_values[name], "boolean")
  BY <1>1 DEF OptionPanics, FromValuePanics, VariantOf, IsOptional
<1>4. json = None \/ IsJson(json)
  BY DriverAssumption DEF SentValue
<1>5. CASE json = None
  <2>1. option_values[name] = Boolean(FALSE)
    BY <1>2, <1>5 DEF OptionValue, None, Has
  <2>2. Configured(name) = Boolean(FALSE).boolean
    BY <1>1, <1>5 DEF Configured, None, Has, Boolean
  <2>3. QED
    BY <2>1, <2>2
<1>6. CASE IsJson(json)
  <2> HIDE DEF json
  <2>1. json # None
    BY <1>6 DEF IsJson, None
  <2>2. Has(json, "bool") /\ option_values[name] = Boolean(json.bool)
    BY <1>2, <1>3, <1>6, <2>1
       DEF OptionValue, IsJson, Has, String, Integer, Boolean
  <2>3. ~Has(json, "number") /\ ~Has(json, "string")
    BY <1>6, <2>2 DEF IsJson, Has
  <2>4. Configured(name) = json.bool
    BY <2>1, <2>2, <2>3 DEF Configured, json
  <2>5. QED
    BY <2>2, <2>4 DEF Boolean
<1>7. QED
  BY <1>4, <1>5, <1>6

(* A conversion that does not fail keeps the number.                       *)
LEMMA TryIntoKeeps ==
    ASSUME NEW i, NEW max, TryInto(i, max) # Unfit
    PROVE  TryInto(i, max) = i
BY DEF TryInto, Unfit

(* The parameters of a configuration that main accepts.                    *)
IsAccepted ==
    /\ sent \in Sent
    /\ option_values = OptionValues(sent)
    /\ ParamsAreValid(option_values)
    /\ params = Params(option_values)

ParamsAreSound ==
    /\ params.cltv_delta < params.cltv_expiry_delta
    /\ params.cltv_delta = Configured("trampoline-cltv-delta")
    /\ params.cltv_expiry_delta = Configured("trampoline-policy-cltv-delta")
    /\ params.fee_base_msat = Configured("trampoline-policy-fee-base")
    /\ params.fee_proportional_millionths =
           Configured("trampoline-policy-fee-per-satoshi")
    /\ params.mpp_timeout = Configured("trampoline-mpp-timeout")
    /\ params.payment_timeout = Configured("trampoline-payment-timeout")
    /\ params.allow_self_route_hints =
           ~Configured("trampoline-no-self-route-hints")
    /\ params.xpay = Configured("trampoline-xpay")

(* They are those that were set, and leave blocks to the payment.          *)
LEMMA AcceptedIsSound ==
    ASSUME IsAccepted
    PROVE  ParamsAreSound
<1>1. /\ sent \in Sent /\ option_values = OptionValues(sent)
      /\ \A name \in ParamOptions : ~OptionPanics(option_values, name)
      /\ EveryIntegerFits(params) /\ DeltasAreOrdered(params)
      /\ params = Params(option_values)
  BY DEF IsAccepted, ParamsAreValid
<1>2. ASSUME NEW name \in ParamOptions, NEW d \in Int, NEW max,
             Options[name] = IntegerOption(d),
             TryInto(option_values[name].integer, max) # Unfit
      PROVE  TryInto(option_values[name].integer, max) = Configured(name)
  <2>1. name \in DOMAIN Options
    BY OptionsHaveNames
  <2>2. option_values[name].integer = Configured(name)
    BY <1>1, <1>2, <2>1, IntegerIsConfigured
  <2>3. QED
    BY <1>2, <2>2, TryIntoKeeps
<1>3. params.cltv_delta = Configured("trampoline-cltv-delta")
  BY <1>1, <1>2, OptionsOfParams DEF ParamOptions, Params, EveryIntegerFits
<1>4. params.cltv_expiry_delta = Configured("trampoline-policy-cltv-delta")
  BY <1>1, <1>2, OptionsOfParams DEF ParamOptions, Params, EveryIntegerFits
<1>5. params.fee_base_msat = Configured("trampoline-policy-fee-base")
  BY <1>1, <1>2, OptionsOfParams DEF ParamOptions, Params, EveryIntegerFits
<1>6. params.fee_proportional_millionths =
          Configured("trampoline-policy-fee-per-satoshi")
  BY <1>1, <1>2, OptionsOfParams DEF ParamOptions, Params, EveryIntegerFits
<1>7. params.mpp_timeout = Configured("trampoline-mpp-timeout")
  BY <1>1, <1>2, OptionsOfParams DEF ParamOptions, Params, EveryIntegerFits
<1>8. params.payment_timeout = Configured("trampoline-payment-timeout")
  BY <1>1, <1>2, OptionsOfParams DEF ParamOptions, Params, EveryIntegerFits
<1>9. params.allow_self_route_hints =
          ~Configured("trampoline-no-self-route-hints")
  BY <1>1, BooleanIsConfigured DEF ParamOptions, Params
<1>10. params.xpay = Configured("trampoline-xpay")
  BY <1>1, BooleanIsConfigured DEF ParamOptions, Params
<1>11. params.cltv_delta < params.cltv_expiry_delta
  <2>1. params.cltv_delta \in Int /\ params.cltv_expiry_delta \in Int
    BY <1>1, OptionsAssumption DEF Params, TryInto, Unfit
  <2>2. QED
    BY <1>1, <2>1 DEF DeltasAreOrdered
<1>12. QED
  BY <1>3, <1>4, <1>5, <1>6, <1>7, <1>8, <1>9, <1>10, <1>11
     DEF ParamsAreSound

-----------------------------------------------------------------------------
(* The invariant                                                           *)

(* Heights come from the chain, and are at least the first.                *)
IsHeight(h) == h \in 1..height

HeightsAreKnown ==
    /\ height \in Nat \ {0}
    /\ current_height \in 0..height
    /\ polled \in 0..height
    /\ \A h \in added : IsHeight(h)
    /\ \A i \in 1..Len(input) :
           input[i].kind = "block_added" => IsHeight(input[i].what)

InputTypeOK ==
    /\ input \in Seq([kind : {"getmanifest", "init", "request", "block_added"},
                      what : Nat \cup Hook])
    /\ \A i \in 1..Len(input) :
           input[i].kind = "request" => input[i].what \in Hook

(* main starts the watcher before the driver, and waits for its first poll.*)
WatcherPolled == watcher \in {"sleep", "poll", "update", "stopped"}

StartsInOrder ==
    /\ main \in {"manifest", "init", "setup"} => watcher = "unborn"
    /\ main \in {"manifest", "init", "setup", "watcher", "start"} =>
           driver = "unborn"
    /\ main \in {"start", "join", "joined", "stop", "await"} => WatcherPolled
    /\ driver # "unborn" => WatcherPolled
    /\ watcher = "first_update" => polled > 0
    /\ WatcherPolled => current_height > 0

(* main has accepted the configuration when it starts the watcher.         *)
IsSetUp ==
    \/ main \in {"watcher", "start", "join", "joined", "stop", "await"}
    \/ driver # "unborn"

ConfigInv ==
    /\ main \in {"init", "setup"} => sent \in Sent /\ MaySend(sent)
    /\ main = "setup" => option_values = OptionValues(sent)
    /\ IsSetUp => IsAccepted

DriverInv ==
    /\ TypeOK
    /\ HeightsAreKnown
    /\ InputTypeOK
    /\ StartsInOrder
    /\ ConfigInv

(* The process starts with nothing known.                                  *)
LEMMA DriverInitInv == Init => DriverInv
<1> SUFFICES ASSUME Init PROVE DriverInv
  OBVIOUS
<1> USE DEF Init, WatcherInit, DriverInit
<1>1. TypeOK
  <2>1. responses \in Seq(Hook) /\ Len(responses) <= Capacity
    BY DriverAssumption
  <2>2. hook \in [Hook -> HookStatus]
    BY DEF HookStatus
  <2>3. /\ height \in Nat /\ current_height \in Nat /\ polled \in Nat
        /\ added \subseteq Nat /\ shutdown \in 0..1
    OBVIOUS
  <2>4. /\ watcher \in WatcherStep /\ main \in MainStep
        /\ driver \in DriverStep /\ pipe \in {"open", "closed"}
    BY DEF WatcherStep, MainStep, DriverStep
  <2>5. woken \in BOOLEAN
    OBVIOUS
  <2> QED
    BY <2>1, <2>2, <2>3, <2>4, <2>5 DEF TypeOK
<1>2. /\ Len(input) = 1 /\ input[1] = [kind |-> "getmanifest", what |-> 0]
      /\ InputTypeOK
  BY DEF InputTypeOK, Message
<1>3. HeightsAreKnown
  BY <1>2 DEF HeightsAreKnown, IsHeight
<1>4. StartsInOrder /\ ConfigInv
  BY DEF StartsInOrder, ConfigInv, WatcherPolled, IsSetUp
<1>5. QED
  BY <1>1, <1>2, <1>3, <1>4 DEF DriverInv

(* What main accepts stays what it is.                                     *)
LEMMA ConfigStep ==
    ASSUME DriverInv, Next
    PROVE  ConfigInv'
<1>1. ConfigInv /\ StartsInOrder
  BY DEF DriverInv
<1> USE <1>1 DEF ConfigInv, StartsInOrder, IsSetUp, GotoMain
<1>2. ASSUME UNCHANGED configVars PROVE IsAccepted' <=> IsAccepted
  BY <1>2 DEF configVars, IsAccepted
<1>3. CASE AnswerManifest
  BY <1>3 DEF AnswerManifest
<1>4. CASE HandleInit
  BY <1>4 DEF HandleInit
<1>5. CASE Setup
  BY <1>5 DEF Setup, IsAccepted
<1>6. CASE \/ HandshakeLost \/ SetupFails \/ OptionsFail \/ WatcherStarted
           \/ StartDriver \/ Join \/ Joined \/ StopWatcher \/ AwaitWatcher
  BY <1>2, <1>6 DEF HandshakeLost, SetupFails, OptionsFail, WatcherStarted,
     StartDriver, Join, Joined, StopWatcher, AwaitWatcher, configVars
<1>7. CASE Driver \/ WriteResponse
  BY <1>2, <1>7 DEF Driver, DispatchRequest, DispatchNotification, ReadFails,
     NotifyJoiners, WriteResponse, configVars
<1>8. CASE \/ \E r \in Hook : HookTask(r)
           \/ Watcher \/ BlockTask \/ Lightningd
  <2>1. UNCHANGED <<configVars, main, driver>>
    BY <1>8 DEF HookTask, CallbackReturns, SendResponse, Watcher, BlockTask,
       Lightningd, CallHook, MineBlock, ClosePipe, driverVars
  <2>2. QED
    BY <1>2, <2>1 DEF configVars
<1>9. QED
  BY <1>3, <1>4, <1>5, <1>6, <1>7, <1>8 DEF Next, Process, Main

(* main, the watcher and the driver start in their order.                  *)
LEMMA StartsStep ==
    ASSUME DriverInv, Next
    PROVE  StartsInOrder'
<1>1. StartsInOrder /\ HeightsAreKnown /\ TypeOK
  BY DEF DriverInv
<1>2. height \in Nat \ {0} /\ current_height \in Nat /\ polled \in Nat
      /\ \A h \in added : h \in Nat /\ h > 0
  BY <1>1 DEF HeightsAreKnown, IsHeight
<1> USE DEF StartsInOrder, WatcherPolled, GotoMain
<1>3. CASE Main
  BY <1>1, <1>3 DEF Main, AnswerManifest, HandleInit, HandshakeLost, Setup,
     StartWatcher, FirstStep, SetupFails, OptionsFail, WatcherStarted,
     StartDriver, Join, Joined, StopWatcher, AwaitWatcher, watcherVars
<1>4. CASE Driver \/ WriteResponse
  BY <1>1, <1>4 DEF Driver, DispatchRequest, DispatchNotification, ReadFails,
     NotifyJoiners, WriteResponse, watcherVars
<1>5. CASE (\E r \in Hook : HookTask(r)) \/ Lightningd
  BY <1>1, <1>5 DEF HookTask, CallbackReturns, SendResponse, Lightningd,
     CallHook, MineBlock, ClosePipe, watcherVars
<1>6. CASE Watcher
  <2>1. CASE GetInfo
    BY <1>1, <1>2, <1>6, <2>1 DEF Watcher, GetInfo, driverVars
  <2>2. CASE PollForever
    BY <1>1, <1>2, <1>6, <2>2 DEF Watcher, PollForever, GetInfoFails,
       UpdateFromPoll, UpdatedHeight, WakeUp, ReceiveShutdown, driverVars
  <2>3. QED
    BY <1>6, <2>1, <2>2 DEF Watcher
<1>7. CASE BlockTask
  BY <1>1, <1>2, <1>7 DEF BlockTask, NewBlock, UpdatedHeight, driverVars
<1>8. QED
  BY <1>3, <1>4, <1>5, <1>6, <1>7 DEF Next, Process

(* Reading the input, and what lightningd appends to it, keep its type.    *)
LEMMA InputStep ==
    ASSUME DriverInv, Next
    PROVE  /\ InputTypeOK'
           /\ \A i \in 1..Len(input') :
                  input'[i].kind = "block_added" =>
                      input'[i].what \in 1..height'
<1>1. HeightsAreKnown /\ InputTypeOK
  BY DEF DriverInv
<1> DEFINE Good(in, top) ==
        /\ in \in Seq([kind : {"getmanifest", "init", "request",
                                "block_added"},
                        what : Nat \cup Hook])
        /\ \A i \in 1..Len(in) :
               /\ in[i].kind = "request" => in[i].what \in Hook
               /\ in[i].kind = "block_added" => in[i].what \in 1..top
<1>2. Good(input, height) /\ height \in Nat
  BY <1>1 DEF HeightsAreKnown, InputTypeOK, IsHeight
<1>3. height' \in Nat /\ height' >= height
  BY <1>2 DEF Next, Process, Main, AnswerManifest, HandleInit, HandshakeLost,
     Setup, StartWatcher, SetupFails, OptionsFail, WatcherStarted, StartDriver,
     Join, Joined, StopWatcher, AwaitWatcher, Driver, DispatchRequest,
     DispatchNotification, ReadFails, NotifyJoiners, WriteResponse, HookTask,
     CallbackReturns, SendResponse, Watcher, GetInfo, PollForever,
     GetInfoFails, UpdateFromPoll, WakeUp, ReceiveShutdown, BlockTask,
     NewBlock, Lightningd, CallHook, MineBlock, ClosePipe, watcherVars
<1>4. Good(input, height')
  BY <1>2, <1>3
<1>5. ASSUME NEW in, Good(in, height'), in # <<>>
      PROVE  Good(Tail(in), height')
  <2>1. Tail(in) \in Seq([kind : {"getmanifest", "init", "request",
                                  "block_added"},
                          what : Nat \cup Hook])
        /\ Len(Tail(in)) = Len(in) - 1
        /\ \A i \in 1..Len(Tail(in)) : Tail(in)[i] = in[i + 1]
    BY <1>5
  <2>2. QED
    BY <1>5, <2>1
<1>6. ASSUME NEW in, Good(in, height'),
             NEW kind \in {"init", "request", "block_added"},
             NEW what \in Nat \cup Hook,
             kind = "request" => what \in Hook,
             kind = "block_added" => what \in 1..height'
      PROVE  Good(Append(in, Message(kind, what)), height')
  <2>1. Message(kind, what) \in [kind : {"getmanifest", "init", "request",
                                         "block_added"},
                                 what : Nat \cup Hook]
        /\ Message(kind, what).kind = kind /\ Message(kind, what).what = what
    BY DEF Message
  <2> HIDE DEF Good
  <2> DEFINE new == Append(in, Message(kind, what))
  <2>2. /\ new \in Seq([kind : {"getmanifest", "init", "request",
                                 "block_added"},
                         what : Nat \cup Hook])
        /\ Len(new) = Len(in) + 1 /\ Len(in) \in Nat
        /\ \A i \in 1..Len(in) : new[i] = in[i]
        /\ new[Len(in) + 1] = Message(kind, what)
    BY <1>6, <2>1 DEF Good
  <2>3. QED
    BY <1>6, <2>1, <2>2 DEF Good
<1> HIDE DEF Good
<1>7. \/ UNCHANGED input
      \/ input # <<>> /\ input' = Tail(input)
      \/ \E kind \in {"init", "request", "block_added"} :
            \E what \in Nat \cup Hook :
               /\ kind = "request" => what \in Hook
               /\ kind = "block_added" => what \in 1..height'
               /\ \/ input' = Append(input, Message(kind, what))
                  \/ input # <<>>
                     /\ input' = Append(Tail(input), Message(kind, what))
  <2>1. CASE AnswerManifest
    BY <2>1 DEF AnswerManifest, Read
  <2>2. CASE MineBlock
    BY <1>2, <2>2 DEF MineBlock
  <2>3. ASSUME NEW r \in Hook, CallHook(r)
        PROVE  input' = Append(input, Message("request", r))
    BY <2>3 DEF CallHook
  <2>4. CASE HandleInit \/ DispatchRequest \/ DispatchNotification
    BY <2>4 DEF HandleInit, DispatchRequest, DispatchNotification, Read
  <2>5. CASE \/ HandshakeLost \/ Setup \/ SetupFails \/ OptionsFail
             \/ WatcherStarted \/ StartDriver \/ Join \/ Joined
             \/ StopWatcher \/ AwaitWatcher
    BY <2>5 DEF HandshakeLost, Setup, SetupFails, OptionsFail, WatcherStarted,
       StartDriver, Join, Joined, StopWatcher, AwaitWatcher
  <2>6. CASE \/ ReadFails \/ NotifyJoiners \/ WriteResponse \/ ClosePipe
             \/ \E r \in Hook : HookTask(r)
    BY <2>6 DEF ReadFails, NotifyJoiners, WriteResponse, ClosePipe, HookTask,
       CallbackReturns, SendResponse
  <2>7. CASE Watcher \/ BlockTask
    BY <2>7 DEF Watcher, BlockTask, driverVars
  <2>8. QED
    BY <2>1, <2>2, <2>3, <2>4, <2>5, <2>6, <2>7
       DEF Next, Process, Main, Driver, Lightningd
<1>8. Good(input', height')
  BY <1>4, <1>5, <1>6, <1>7
<1>9. QED
  BY <1>8 DEF Good, InputTypeOK

(* Heights only come from the chain, and the larger one is kept.           *)
LEMMA HeightsStep ==
    ASSUME DriverInv, Next
    PROVE  /\ HeightsAreKnown'
           /\ current_height' >= current_height
           /\ current_height' <= height'
<1>1. HeightsAreKnown /\ InputTypeOK
  BY DEF DriverInv
<1>2. /\ height \in Nat \ {0} /\ current_height \in 0..height
      /\ polled \in 0..height /\ \A h \in added : h \in 1..height
  BY <1>1 DEF HeightsAreKnown, IsHeight
<1>3. \A i \in 1..Len(input') :
          input'[i].kind = "block_added" => input'[i].what \in 1..height'
  BY InputStep
<1> DEFINE Known ==
        /\ height' \in Nat \ {0} /\ current_height' \in 0..height'
        /\ polled' \in 0..height' /\ \A h \in added' : h \in 1..height'
        /\ current_height' >= current_height
<1> SUFFICES Known
  BY <1>2, <1>3 DEF HeightsAreKnown, IsHeight
<1>4. ASSUME UNCHANGED <<height, current_height, polled, added>> PROVE Known
  BY <1>2, <1>4
<1>5. CASE Main
  <2>1. UNCHANGED <<height, current_height, polled, added>>
    BY <1>5 DEF Main, AnswerManifest, HandleInit, HandshakeLost, Setup,
       StartWatcher, SetupFails, OptionsFail, WatcherStarted, StartDriver,
       Join, Joined, StopWatcher, AwaitWatcher, watcherVars
  <2>2. QED
    BY <1>4, <2>1
<1>6. CASE DispatchNotification
  <2>1. /\ input # <<>> /\ input \in Seq([kind : {"getmanifest", "init",
                                            "request", "block_added"},
                                    what : Nat \cup Hook])
        /\ Head(input).kind = "block_added"
    BY <1>1, <1>6 DEF DispatchNotification, InputTypeOK
  <2>2. Head(input) = input[1] /\ 1 \in 1..Len(input)
    BY <2>1
  <2>3. Head(input).what \in 1..height
    BY <1>1, <2>1, <2>2 DEF HeightsAreKnown, IsHeight
  <2>4. QED
    BY <1>2, <1>6, <2>3 DEF DispatchNotification
<1>7. CASE DispatchRequest \/ ReadFails \/ NotifyJoiners \/ WriteResponse
  BY <1>4, <1>7 DEF DispatchRequest, ReadFails, NotifyJoiners, WriteResponse,
     watcherVars
<1>8. CASE \/ \E r \in Hook : HookTask(r) \/ CallHook(r)
           \/ ClosePipe
  BY <1>4, <1>8 DEF HookTask, CallbackReturns, SendResponse, CallHook,
     ClosePipe, watcherVars
<1>9. CASE MineBlock
  BY <1>2, <1>9 DEF MineBlock
<1>10. CASE Watcher
  BY <1>2, <1>10 DEF Watcher, GetInfo, PollForever, GetInfoFails,
     UpdateFromPoll, UpdatedHeight, WakeUp, ReceiveShutdown
<1>11. CASE BlockTask
  BY <1>2, <1>11 DEF BlockTask, NewBlock, UpdatedHeight
<1>12. QED
  BY <1>5, <1>6, <1>7, <1>8, <1>9, <1>10, <1>11
     DEF Next, Process, Driver, Lightningd

(* The variables keep their types; the channel never holds more than fits. *)
LEMMA TypeStep ==
    ASSUME DriverInv, Next
    PROVE  TypeOK'
<1>1. TypeOK /\ HeightsAreKnown /\ InputTypeOK
  BY DEF DriverInv
<1>2. /\ height' \in Nat /\ current_height' \in Nat /\ polled' \in Nat
      /\ added' \subseteq Nat
  BY HeightsStep DEF HeightsAreKnown, IsHeight
<1> DEFINE ProcessTypeOK ==
        /\ watcher \in WatcherStep /\ shutdown \in 0..1 /\ main \in MainStep
        /\ driver \in DriverStep /\ pipe \in {"open", "closed"}
           HookTypeOK ==
        /\ hook \in [Hook -> HookStatus]
        /\ responses \in Seq(Hook) /\ Len(responses) <= Capacity
<1>3. ProcessTypeOK /\ HookTypeOK /\ woken \in BOOLEAN
  BY <1>1 DEF TypeOK
<1> USE DEF WatcherStep, MainStep, DriverStep, GotoMain
<1>4. ProcessTypeOK'
  <2>1. CASE Main
    BY <1>3, <2>1 DEF Main, AnswerManifest, HandleInit, HandshakeLost, Setup,
       StartWatcher, FirstStep, SetupFails, OptionsFail, WatcherStarted,
       StartDriver, Join, Joined, StopWatcher, AwaitWatcher, watcherVars
  <2>2. CASE Driver \/ WriteResponse
    BY <1>3, <2>2 DEF Driver, DispatchRequest, DispatchNotification,
       ReadFails, NotifyJoiners, WriteResponse, watcherVars
  <2>3. CASE (\E r \in Hook : HookTask(r)) \/ Lightningd
    BY <1>3, <2>3 DEF HookTask, CallbackReturns, SendResponse, Lightningd,
       CallHook, MineBlock, ClosePipe, watcherVars
  <2>4. CASE Watcher \/ BlockTask
    BY <1>3, <2>4 DEF Watcher, GetInfo, PollForever, GetInfoFails,
       UpdateFromPoll, WakeUp, ReceiveShutdown, BlockTask, NewBlock, driverVars
  <2>5. QED
    BY <2>1, <2>2, <2>3, <2>4 DEF Next, Process
<1>5. HookTypeOK'
  <2>1. ASSUME UNCHANGED <<hook, responses>> PROVE HookTypeOK'
    BY <1>3, <2>1
  <2>2. CASE DispatchRequest
    BY <1>3, <2>2 DEF DispatchRequest, HookStatus
  <2>3. CASE WriteResponse
    <3>1. Tail(responses) \in Seq(Hook) /\ Len(Tail(responses)) <= Capacity
      BY <1>3, <2>3, DriverAssumption DEF WriteResponse
    <3>2. QED
      BY <1>3, <2>3, <3>1 DEF WriteResponse, HookStatus
  <2>4. ASSUME NEW r \in Hook, CallbackReturns(r) \/ CallHook(r)
        PROVE  HookTypeOK'
    BY <1>3, <2>4 DEF CallbackReturns, CallHook, HookStatus
  <2>5. ASSUME NEW r \in Hook, SendResponse(r) PROVE HookTypeOK'
    <3>1. CASE UNCHANGED responses
      BY <1>3, <2>5, <3>1 DEF SendResponse, HookStatus
    <3>2. CASE HasRoom /\ responses' = Append(responses, r)
      <4>1. responses' \in Seq(Hook) /\ Len(responses') <= Capacity
        BY <1>3, <3>2, DriverAssumption DEF HasRoom
      <4>2. QED
        BY <1>3, <2>5, <4>1 DEF SendResponse, HookStatus
    <3>3. QED
      BY <2>5, <3>1, <3>2 DEF SendResponse
  <2>6. CASE Main
    BY <2>1, <2>6 DEF Main, AnswerManifest, HandleInit, HandshakeLost, Setup,
       SetupFails, OptionsFail, WatcherStarted, StartDriver, Join, Joined,
       StopWatcher, AwaitWatcher
  <2>7. CASE \/ DispatchNotification \/ ReadFails \/ NotifyJoiners \/ Watcher
             \/ BlockTask \/ MineBlock \/ ClosePipe
    BY <2>1, <2>7 DEF DispatchNotification, ReadFails, NotifyJoiners, Watcher,
       BlockTask, MineBlock, ClosePipe, driverVars
  <2>8. QED
    BY <2>2, <2>3, <2>4, <2>5, <2>6, <2>7
       DEF Next, Process, Driver, HookTask, Lightningd
<1>6. woken' \in BOOLEAN
  <2>1. CASE NotifyJoiners
    BY <2>1 DEF NotifyJoiners
  <2>2. CASE UNCHANGED woken
    BY <1>3, <2>2
  <2>3. NotifyJoiners \/ UNCHANGED woken
    BY DEF Next, Process, Main, AnswerManifest, HandleInit, HandshakeLost,
       Setup, SetupFails, OptionsFail, WatcherStarted, StartDriver, Join,
       Joined, StopWatcher, AwaitWatcher, Driver, DispatchRequest,
       DispatchNotification, ReadFails, WriteResponse, HookTask,
       CallbackReturns, SendResponse, Watcher, BlockTask, Lightningd,
       CallHook, MineBlock, ClosePipe, driverVars
  <2>4. QED
    BY <2>1, <2>2, <2>3
<1>7. QED
  BY <1>2, <1>4, <1>5, <1>6 DEF TypeOK

(* The invariant is about nothing else.                                    *)
LEMMA DriverStutter ==
    ASSUME DriverInv, UNCHANGED vars
    PROVE  DriverInv'
BY DEF vars, watcherVars, driverVars, configVars, DriverInv, TypeOK,
   HeightsAreKnown, IsHeight, InputTypeOK, StartsInOrder, WatcherPolled,
   ConfigInv, IsSetUp, IsAccepted

(* Every step keeps the invariant.                                         *)
LEMMA DriverInvStep == DriverInv /\ [Next]_vars => DriverInv'
<1>1. ASSUME DriverInv, Next PROVE DriverInv'
  BY <1>1, TypeStep, HeightsStep, InputStep, StartsStep, ConfigStep
     DEF DriverInv
<1>2. QED
  BY <1>1, DriverStutter

-----------------------------------------------------------------------------
(* The properties                                                          *)

(* The variables have their types, and the channel of the responses never  *)
(* holds more than its capacity.                                           *)
THEOREM DriverTypeCorrect == Spec => []TypeOK
<1>1. DriverInv => TypeOK
  BY DEF DriverInv
<1>2. QED
  BY <1>1, DriverInitInv, DriverInvStep, PTL DEF Spec

(* No HTLC is handled before the height of the chain is known.             *)
THEOREM HeightKnownFirst == Spec => []HeightIsKnown
<1>1. DriverInv => HeightIsKnown
  BY DEF DriverInv, StartsInOrder, HeightIsKnown
<1>2. QED
  BY <1>1, DriverInitInv, DriverInvStep, PTL DEF Spec

(* The height known never goes back and is never ahead of the chain.       *)
THEOREM HeightRises == Spec => HeightOnlyRises
<1>1. ASSUME DriverInv, [Next]_vars
      PROVE  [current_height' >= current_height
              /\ current_height' <= height']_vars
  BY <1>1, HeightsStep
<1>2. QED
  BY <1>1, DriverInitInv, DriverInvStep, PTL DEF Spec, HeightOnlyRises

(* No configuration that lightningd accepts makes the plugin panic.        *)
THEOREM NoOptionPanics == Spec => []OptionsNeverPanic
<1>1. DriverInv => OptionsNeverPanic
  BY SentIsTyped DEF DriverInv, ConfigInv, OptionsNeverPanic
<1>2. QED
  BY <1>1, DriverInitInv, DriverInvStep, PTL DEF Spec

(* A plugin that runs has the parameters that were configured.             *)
THEOREM ConfiguredAsSet == Spec => []ConfigurationIsSound
<1>1. ASSUME DriverInv PROVE ConfigurationIsSound
  <2>1. driver # "unborn" => IsAccepted
    BY <1>1 DEF DriverInv, ConfigInv, IsSetUp
  <2>2. QED
    BY <2>1, AcceptedIsSound DEF ConfigurationIsSound, ParamsAreSound
<1>2. QED
  BY <1>1, DriverInitInv, DriverInvStep, PTL DEF Spec
=============================================================================
