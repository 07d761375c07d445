---------------------------- MODULE PluginOptions ----------------------------
(***************************************************************************)
(* The options of the plugin: the seven option types of                    *)
(* src/src/cln_plugin/options.rs, the values that handle_init takes from   *)
(* the init call (src/src/cln_plugin/mod.rs), and what main makes of them  *)
(* (src/src/main.rs).                                                      *)
(*                                                                         *)
(* A JSON value and a Value are records with the name of their variant as  *)
(* the only field.  A function that can fail returns a record with the     *)
(* status "ok", "err" or "panic".                                          *)
(***************************************************************************)
EXTENDS Integers

CONSTANTS
    U16Max, U32Max, I64Max,   \* u16::MAX, u32::MAX, i64::MAX
    Subject,                  \* the default subject of the e-mails
    AddressLists              \* the strings that are a JSON list of strings

ASSUME OptionsAssumption ==
    /\ U16Max \in Nat /\ U32Max \in Nat /\ I64Max \in Nat
    /\ 1008 <= U16Max /\ 5000 <= U32Max
    /\ U16Max <= U32Max /\ U32Max <= I64Max

String(s) == [string |-> s]
Integer(i) == [integer |-> i]
Boolean(b) == [boolean |-> b]
None == [none |-> TRUE]
Has(value, variant) == variant \in DOMAIN value

-----------------------------------------------------------------------------
(* OptionType: the value type that is announced to lightningd, the default *)
(* and the value that the code gets.                                       *)

OptionType == {"DefaultString", "DefaultInteger", "DefaultBoolean", "Flag",
               "String", "Integer", "Boolean"}

ValueTypeOf_flag_as_string(type) ==
    CASE type \in {"String", "DefaultString", "Flag"} -> "string"
      [] type \in {"Integer", "DefaultInteger"}       -> "int"
      [] OTHER                                        -> "bool"
ValueTypeOf(type) ==
    CASE type \in {"String", "DefaultString"}   -> "string"
      [] type \in {"Integer", "DefaultInteger"} -> "int"
      [] type \in {"Boolean", "DefaultBoolean"} -> "bool"
      [] OTHER                                  -> "flag"

ConvertDefault(type, default) ==
    CASE type = "DefaultString"  -> String(default)
      [] type = "DefaultInteger" -> Integer(default)
      [] type = "DefaultBoolean" -> Boolean(default)
      [] type = "Flag"           -> Boolean(FALSE)
      [] OTHER                   -> None

VariantOf(type) ==
    CASE type \in {"String", "DefaultString"}   -> "string"
      [] type \in {"Integer", "DefaultInteger"} -> "integer"
      [] OTHER                                  -> "boolean"
IsOptional(type) == type \in {"String", "Integer", "Boolean"}

(* from_value panics for a value of another type.                          *)
FromValuePanics(type, value) ==
    ~ \/ Has(value, VariantOf(type))
      \/ value = None /\ IsOptional(type)

-----------------------------------------------------------------------------
(* The options that main registers.                                        *)

Option(type, default) ==
    [type |-> type, default |-> ConvertDefault(type, default)]
IntegerOption(default) == Option("DefaultInteger", default)

ParamOptions == {"trampoline-cltv-delta", "trampoline-policy-cltv-delta",
                 "trampoline-policy-fee-base",
                 "trampoline-policy-fee-per-satoshi",
                 "trampoline-mpp-timeout", "trampoline-payment-timeout",
                 "trampoline-no-self-route-hints", "trampoline-xpay"}
EmailOptions == {"trampoline-email-from", "trampoline-email-to",
                 "trampoline-email-cc", "trampoline-email-subject"}

Options ==
    [name \in ParamOptions \cup EmailOptions |->
        CASE name = "trampoline-cltv-delta"             -> IntegerOption(34)
          [] name = "trampoline-policy-cltv-delta"      -> IntegerOption(1008)
          [] name = "trampoline-policy-fee-base"        -> IntegerOption(0)
          [] name = "trampoline-policy-fee-per-satoshi" -> IntegerOption(5000)
          [] name = "trampoline-mpp-timeout"            -> IntegerOption(60)
          [] name = "trampoline-payment-timeout"        -> IntegerOption(60)
          [] name = "trampoline-no-self-route-hints"    -> Option("Flag", None)
          [] name = "trampoline-xpay" -> Option("DefaultBoolean", FALSE)
          [] name = "trampoline-email-subject" ->
                 Option("DefaultString", Subject)
          [] OTHER -> Option("String", None)]

(* What lightningd can send for an option: its integers have 64 bits.      *)
IsJson(json) ==
    /\ DOMAIN json \in {{"string"}, {"number"}, {"bool"}}
    /\ Has(json, "number") => json.number \in (-I64Max - 1)..I64Max
    /\ Has(json, "bool") => json.bool \in BOOLEAN

(* What lightningd makes of the configuration: a value is sent with the    *)
(* type that was announced for its option.                                 *)
IsSentAs(json, valueType) ==
    CASE valueType = "string" -> Has(json, "string")
      [] valueType = "int"    -> Has(json, "number")
      [] OTHER                -> Has(json, "bool")
MaySend(sent) ==
    \A name \in DOMAIN sent \cap DOMAIN Options :
        IsSentAs(sent[name], ValueTypeOf(Options[name].type))

(* handle_init: a value that was sent counts, also if it is the default.   *)
OptionValue(json, default) ==
    CASE json = None         -> default
      [] Has(json, "string") -> String(json.string)
      [] Has(json, "number") -> Integer(json.number)
      [] Has(json, "bool")   -> Boolean(json.bool)

SentValue(sent, name) == IF name \in DOMAIN sent THEN sent[name] ELSE None

HandleInitPanics(sent) ==
    \E name \in DOMAIN Options :
        LET json == SentValue(sent, name)
        IN  ~ \/ json = None
              \/ Has(json, "string") \/ Has(json, "bool")
              \/ Has(json, "number") /\ json.number \in (-I64Max - 1)..I64Max

OptionValues(sent) ==
    [name \in DOMAIN Options |->
        OptionValue(SentValue(sent, name), Options[name].default)]

-----------------------------------------------------------------------------
(* main                                                                    *)

OptionPanics(values, name) == FromValuePanics(Options[name].type, values[name])

(* The conversions of an i64, with an error for what does not fit.         *)
Unfit == -1
TryInto_wrapping(i, max) == i % (max + 1)
TryInto(i, max) == IF i \in 0..max THEN i ELSE Unfit

Params(values) ==
    LET int(name, max) == TryInto(values[name].integer, max)
    IN  [cltv_delta |-> int("trampoline-cltv-delta", U16Max),
         cltv_expiry_delta |-> int("trampoline-policy-cltv-delta", U16Max),
         fee_base_msat |-> int("trampoline-policy-fee-base", U32Max),
         fee_proportional_millionths |->
             int("trampoline-policy-fee-per-satoshi", U32Max),
         mpp_timeout |-> int("trampoline-mpp-timeout", I64Max),
         payment_timeout |-> int("trampoline-payment-timeout", I64Max),
         allow_self_route_hints |->
             ~values["trampoline-no-self-route-hints"].boolean,
         xpay |-> values["trampoline-xpay"].boolean]

EveryIntegerFits(params) ==
    Unfit \notin {params.cltv_delta, params.cltv_expiry_delta,
                  params.fee_base_msat, params.fee_proportional_millionths,
                  params.mpp_timeout, params.payment_timeout}

(* The one relation between the options that is checked.                   *)
DeltasAreOrdered(params) == params.cltv_expiry_delta > params.cltv_delta

ParamsAreValid(values) ==
    /\ \A name \in ParamOptions : ~OptionPanics(values, name)
    /\ EveryIntegerFits(Params(values))
    /\ DeltasAreOrdered(Params(values))

(* get_email_params: without a sender there are no e-mails, whatever the   *)
(* other options say.                                                      *)
IsAddressList(value) == value \in {None} \cup {String(s) : s \in AddressLists}

EmailParamsAreValid(values) ==
    /\ \A name \in EmailOptions : ~OptionPanics(values, name)
    /\ \/ values["trampoline-email-from"] = None
       \/ /\ IsAddressList(values["trampoline-email-to"])
          /\ IsAddressList(values["trampoline-email-cc"])
=============================================================================
