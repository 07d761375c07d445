----------------------------- MODULE MCPluginIo ------------------------------
(***************************************************************************)
(* PluginIo with bytes that are newlines, letters or digits: two calls (of *)
(* one and of three lines), a notification, a call of an unknown and of a  *)
(* built-in method, and a text that is not JSON.                           *)
(***************************************************************************)
EXTENDS PluginIo, TLC

MCByte == 0..3

One == <<1>>
Lines == <<1, 0, 2>>
Note == <<2>>
Unknown == <<1, 3>>
BuiltIn == <<3>>
Garbage == <<>>
Line == <<2>>

MCCalls == {One, Lines, Note, Unknown, BuiltIn, Garbage}
MCText == MCCalls \cup {<<3, 3>>, Line}

MCParse ==
    One :> [id |-> 1, method |-> "htlc_accepted"]
    @@ Lines :> [id |-> 2, method |-> "htlc_accepted"]
    @@ Note :> [id |-> 0, method |-> "block_added"]
    @@ Unknown :> [id |-> 3, method |-> "unknown"]
    @@ BuiltIn :> [id |-> 4, method |-> "init"]

MCResponseTo == [c \in Calls |-> IF c = Lines THEN <<3, 3>> ELSE <<3>>]
=============================================================================
