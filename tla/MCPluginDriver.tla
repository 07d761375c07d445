---------------------------- MODULE MCPluginDriver ----------------------------
(***************************************************************************)
(* PluginDriver with two hook calls that are answered together and a call  *)
(* that no handler is for.  The options are set to the boundaries of their *)
(* types, to what is just beyond them, and to values that contradict each  *)
(* other: three of the settings are good ones.                             *)
(***************************************************************************)
EXTENDS PluginDriver, TLC

CONSTANTS r1, r2, r3,
          subject, address, list   \* strings, of which one is a JSON list

Calls == {r1, r2, r3}
MCUnhandled == {r3}
MCNeeds == [r \in Hook |-> IF r \in {r1, r2} THEN {r1, r2} ELSE {r}]

Number(i) == [number |-> i]
Bool(b) == [bool |-> b]
Str(s) == [string |-> s]

Deltas(delta, policy) == "trampoline-cltv-delta" :> Number(delta)
                         @@ "trampoline-policy-cltv-delta" :> Number(policy)
Emails(to) == "trampoline-email-from" :> Str(address)
              @@ "trampoline-email-to" :> Str(to)
              @@ "trampoline-email-subject" :> Str(address)

GoodOptions ==
    {<<>>,
     Deltas(0, U16Max)
         @@ "trampoline-policy-fee-per-satoshi" :> Number(U32Max)
         @@ "trampoline-payment-timeout" :> Number(I64Max)
         @@ "trampoline-xpay" :> Bool(TRUE) @@ Emails(list),
     Deltas(1, 2)
         @@ "trampoline-no-self-route-hints" :> Bool(TRUE)
         @@ "trampoline-email-cc" :> Str(address)}

BadOptions ==
    {Deltas(2, 2), Deltas(3, 2), Deltas(-1, 2), Deltas(1, U16Max + 1),
     "trampoline-policy-fee-base" :> Number(U32Max + 1),
     "trampoline-mpp-timeout" :> Number(-1),
     Emails(address),
     Emails(list) @@ "trampoline-email-cc" :> Str(address),
     "trampoline-no-self-route-hints" :> Str(address),
     "trampoline-email-from" :> Number(1)}

MCSent == GoodOptions \cup BadOptions
=============================================================================
