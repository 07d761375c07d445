------------------------------ MODULE PluginIo -------------------------------
(***************************************************************************)
(* What PluginDriver takes as given: that calls and responses go through   *)
(* standard input and output whole and in order.  Here they are bytes.     *)
(*                                                                         *)
(* The driver's loop (PluginDriver::run in src/src/cln_plugin/mod.rs)      *)
(* waits for the next message and for the next response at the same time,  *)
(* so a read that has got part of a message is dropped when a response     *)
(* comes first.  The output is shared with the writer of the log           *)
(* (src/src/cln_plugin/logging.rs), which sends every event as a           *)
(* notification: each locks it for one message at a time.                  *)
(***************************************************************************)
EXTENDS Naturals, Sequences, SequencesExt

CONSTANTS
    Byte, Newline, Text,    \* see FramedPipe
    Calls,          \* the texts lightningd may send
    Parse,          \* [those that are JSON-RPC -> their id and method]
    NoId,           \* of a notification
    Handled,        \* the methods with a callback
    ResponseTo,     \* [Calls -> Text]
    LogLine,        \* the text of a log event
    Capacity,       \* of the response channel: 4
    MaxCalls,       \* bound: calls of lightningd
    MaxLogs         \* bound: log events

(* Request of src/src/cln_plugin/messages.rs; there is no Notification.    *)
Builtin == {"getmanifest", "init"}

VARIABLES
    in_sent, in_stream, in_ends, in_moved, in_taken, in_received,
    out_sent, out_stream, out_ends, out_moved, out_taken, out_received,
    pipe,       \* whether lightningd is there: "open" or "closed"
    pc,         \* where the driver and the writer are
    frame,      \* the messages they are writing
    lock,       \* those that have asked for the output; the first has it
    tasks,      \* the calls that are being handled
    responses,  \* the responses in the channel
    logs        \* the events in the channel of the writer, and how many ever

inVars == <<in_sent, in_stream, in_ends, in_moved, in_taken, in_received>>
outVars == <<out_sent, out_stream, out_ends, out_moved, out_taken,
             out_received>>
workVars == <<pc, frame, lock>>
vars == <<inVars, outVars, pipe, workVars, tasks, responses, logs>>

In == INSTANCE FramedPipe WITH
          sent <- in_sent, stream <- in_stream, ends <- in_ends,
          moved <- in_moved, taken <- in_taken, received <- in_received
Out == INSTANCE FramedPipe WITH
          sent <- out_sent, stream <- out_stream, ends <- out_ends,
          moved <- out_moved, taken <- out_taken, received <- out_received

ASSUME IoAssumption ==
    /\ In!TextsAreFramable
    /\ Calls \subseteq Text
    /\ ResponseTo \in [Calls -> Text]
    /\ LogLine \in Text
    /\ Capacity \in Nat \ {0}

Worker == {"driver", "writer"}
(* idle is the select of the driver and the recv of the writer.            *)
Step == {"idle", "lock", "flush", "ended", "panicked"}

Init ==
    /\ In!Init
    /\ Out!Init
    /\ pipe = "open"
    /\ pc = [w \in Worker |-> "idle"]
    /\ frame = [w \in Worker |-> LogLine]
    /\ lock = <<>>
    /\ tasks = {}
    /\ responses = <<>>
    /\ logs = [queue |-> <<>>, count |-> 0]

-----------------------------------------------------------------------------
(* Logging: on_event sends to an unbounded channel, if the level is on.    *)

LogsOne ==
    /\ logs.count < MaxLogs
    /\ logs' = [queue |-> Append(logs.queue, LogLine),
                count |-> logs.count + 1]
MayLog == LogsOne \/ UNCHANGED logs

-----------------------------------------------------------------------------
(* The driver's reads.                                                     *)

(* FramedRead decodes what it has before it reads more.                    *)
ReadBytes(n) ==
    /\ pc["driver"] = "idle"
    /\ ~In!HasFrame(In!Buffer)
    /\ In!Transfer(n)
    /\ UNCHANGED <<outVars, pipe, workVars, tasks, responses, logs>>

(* The end of the stream, with or without bytes left over, is an error.    *)
ReadEnds ==
    /\ pc["driver"] = "idle"
    /\ ~In!HasFrame(In!Buffer)
    /\ In!IsFlushed
    /\ pipe = "closed"
    /\ pc' = [pc EXCEPT !["driver"] = "ended"]
    /\ MayLog
    /\ UNCHANGED <<inVars, outVars, pipe, frame, lock, tasks, responses>>

(* JsonRpc::deserialize.                                                   *)
KindOf(call) ==
    IF call.id = NoId THEN "CustomNotification"
    ELSE IF call.method \in Builtin THEN "Request"
    ELSE "CustomRequest"

(* What dispatch_one does with a text: a call of a built-in method is a    *)
(* todo!(), a call of an unknown one or a text that is no call an error.   *)
NextStep(text) ==
    IF text \notin DOMAIN Parse THEN "ended"
    ELSE IF KindOf(Parse[text]) = "Request" THEN "panicked"
    ELSE IF KindOf(Parse[text]) = "CustomRequest"
            /\ Parse[text].method \notin Handled THEN "ended"
    ELSE "idle"

Dispatch ==
    /\ pc["driver"] = "idle"
    /\ In!Decode
    /\ LET text == In!FirstText(In!Buffer)
       IN  /\ pc' = [pc EXCEPT !["driver"] = NextStep(text)]
           /\ tasks' = IF /\ NextStep(text) = "idle"
                          /\ KindOf(Parse[text]) = "CustomRequest"
                       THEN tasks \cup {text} ELSE tasks
    /\ MayLog
    /\ UNCHANGED <<outVars, pipe, frame, lock, responses>>

(* The task of a call puts its response in the channel, which is gone with *)
(* the loop.                                                               *)
Respond(text) ==
    /\ text \in tasks
    /\ tasks' = tasks \ {text}
    /\ \/ /\ pc["driver"] \in {"ended", "panicked"}
          /\ UNCHANGED responses
       \/ /\ pc["driver"] \notin {"ended", "panicked"}
          /\ Len(responses) < Capacity
          /\ responses' = Append(responses, ResponseTo[text])
    /\ MayLog
    /\ UNCHANGED <<inVars, outVars, pipe, workVars>>

-----------------------------------------------------------------------------
(* The writes of the driver and of the log's writer.                       *)

AskForOutput(w, text) ==
    /\ pc[w] = "idle"
    /\ pc' = [pc EXCEPT ![w] = "lock"]
    /\ frame' = [frame EXCEPT ![w] = text]
    /\ lock' = Append(lock, w)

(* A response comes first: the read is dropped.  The bytes it has got are  *)
(* in the buffer of the FramedRead, which stays.                           *)
TakenAfterCancel_forgetting == in_moved
TakenAfterCancel == in_taken

ReceiveResponse ==
    /\ responses # <<>>
    /\ AskForOutput("driver", Head(responses))
    /\ responses' = Tail(responses)
    /\ in_taken' = TakenAfterCancel
    /\ UNCHANGED <<in_sent, in_stream, in_ends, in_moved, in_received, outVars,
                   pipe, tasks, logs>>

ReceiveLog ==
    /\ logs.queue # <<>>
    /\ AskForOutput("writer", Head(logs.queue))
    /\ logs' = [logs EXCEPT !.queue = Tail(@)]
    /\ UNCHANGED <<inVars, outVars, pipe, tasks, responses>>

(* send: encode the message, write until nothing is left, unlock.          *)
Feed(w) ==
    /\ pc[w] = "lock"
    /\ Head(lock) = w
    /\ Out!Encode(frame[w])
    /\ pc' = [pc EXCEPT ![w] = "flush"]
    /\ UNCHANGED <<inVars, pipe, frame, lock, tasks, responses, logs>>

Flush(w, n) ==
    /\ pc[w] = "flush"
    /\ pipe = "open"
    /\ Out!Transfer(n)
    /\ UNCHANGED <<inVars, pipe, workVars, tasks, responses, logs>>

Flushed(w) ==
    /\ pc[w] = "flush"
    /\ Out!IsFlushed
    /\ pc' = [pc EXCEPT ![w] = "idle"]
    /\ lock' = Tail(lock)
    /\ UNCHANGED <<inVars, outVars, pipe, frame, tasks, responses, logs>>

(* The loop ends with an error; the writer goes on with the next event.    *)
AfterError_for_all(w) == "ended"
AfterError(w) == IF w = "driver" THEN "ended" ELSE "idle"

FlushFails(w) ==
    /\ pc[w] = "flush"
    /\ ~Out!IsFlushed
    /\ pipe = "closed"
    /\ pc' = [pc EXCEPT ![w] = AfterError(w)]
    /\ lock' = Tail(lock)
    /\ UNCHANGED <<inVars, outVars, pipe, frame, tasks, responses, logs>>

-----------------------------------------------------------------------------
(* lightningd: it makes every call once, and reads what is written.        *)

SendCall(text) ==
    /\ pipe = "open"
    /\ Len(in_sent) < MaxCalls
    /\ text \notin Range(in_sent)
    /\ In!Encode(text)
    /\ UNCHANGED <<outVars, pipe, workVars, tasks, responses, logs>>

ReadMessage ==
    /\ Out!Decode
    /\ UNCHANGED <<inVars, pipe, workVars, tasks, responses, logs>>

ClosePipe ==
    /\ pipe = "open"
    /\ pipe' = "closed"
    /\ UNCHANGED <<inVars, outVars, workVars, tasks, responses, logs>>

-----------------------------------------------------------------------------
Reads ==
    \/ \E n \in 1..(Len(in_stream) - in_moved) : ReadBytes(n)
    \/ ReadEnds \/ Dispatch

Writes(w) ==
    \/ Feed(w) \/ Flushed(w) \/ FlushFails(w)
    \/ \E n \in 1..(Len(out_stream) - out_moved) : Flush(w, n)

Lightningd == (\E text \in Calls : SendCall(text)) \/ ClosePipe

Next ==
    \/ Reads \/ ReceiveResponse \/ ReceiveLog \/ ReadMessage
    \/ \E text \in Calls : Respond(text)
    \/ \E w \in Worker : Writes(w)
    \/ Lightningd

Spec == Init /\ [][Next]_vars

(* The tasks that can go on do; the select takes a ready branch at random, *)
(* room in the channel is given to one of the tasks that wait for it, and  *)
(* the lock in the order it was asked for.                                 *)
Fairness ==
    /\ SF_vars(Reads)
    /\ SF_vars(ReceiveResponse)
    /\ WF_vars(ReceiveLog)
    /\ WF_vars(ReadMessage)
    /\ SF_vars(\E text \in Calls : Respond(text))
    /\ WF_vars(\E w \in Worker : Writes(w))

FairSpec == Spec /\ Fairness

-----------------------------------------------------------------------------
(* Properties                                                              *)

(* The calls that are dispatched are those that lightningd makes, whole,   *)
(* in order and once, however they are cut and whichever reads are dropped.*)
InputIsAPipe == In!IsAPipe

(* So are the messages of the driver and of the log's writer that          *)
(* lightningd finds in the output they share.                              *)
OutputIsAPipe == Out!IsAPipe

(* Every call is responded to, however much is logged, unless the loop     *)
(* ends.                                                                   *)
Requests ==
    {text \in DOMAIN Parse : KindOf(Parse[text]) = "CustomRequest"
                             /\ Parse[text].method \in Handled}

CallsAreAnswered ==
    \A text \in Requests :
        text \in Range(in_sent)
        ~> \/ ResponseTo[text] \in Range(out_received)
           \/ pc["driver"] \in {"ended", "panicked"}
           \/ pipe = "closed"

(* "We continue draining the queue, even if we get some errors when        *)
(* forwarding."                                                            *)
LogsAreDrained == logs.queue # <<>> ~> logs.queue = <<>>
=============================================================================
