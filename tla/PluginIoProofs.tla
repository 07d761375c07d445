---------------------------- MODULE PluginIoProofs ----------------------------
(***************************************************************************)
(* Standard input and output are pipes of messages, whatever lightningd    *)
(* sends, whichever reads are dropped, and whoever shares the output: each *)
(* step of PluginIo is a step of either pipe, or none of its business, and *)
(* so the theorem about FramedPipe applies to both.                        *)
(***************************************************************************)
EXTENDS PluginIo, TLAPS

InProofs == INSTANCE FramedPipeProofs WITH
          sent <- in_sent, stream <- in_stream, ends <- in_ends,
          moved <- in_moved, taken <- in_taken, received <- in_received
OutProofs == INSTANCE FramedPipeProofs WITH
          sent <- out_sent, stream <- out_stream, ends <- out_ends,
          moved <- out_moved, taken <- out_taken, received <- out_received

(* What is written to the output can be framed.                            *)
WritesTexts ==
    /\ frame \in [Worker -> Text]
    /\ responses \in Seq(Text)
    /\ logs.queue \in Seq(Text)

(* The assumption on the messages, for the one pipe.                       *)
LEMMA InTextsAreFramable == InProofs!TextsAreFramable
BY IoAssumption DEF In!TextsAreFramable, In!IsFramable,
                    InProofs!TextsAreFramable, InProofs!IsFramable

(* And for the other.                                                      *)
LEMMA OutTextsAreFramable == OutProofs!TextsAreFramable
BY IoAssumption DEF In!TextsAreFramable, In!IsFramable,
                    OutProofs!TextsAreFramable, OutProofs!IsFramable

(* A step that encodes, moves or decodes is a step of FramedPipe.          *)
LEMMA InSteps ==
    /\ \A text \in Text : In!Encode(text) => InProofs!Next
    /\ \A n \in Nat \ {0} : In!Transfer(n) => InProofs!Next
    /\ In!Decode => InProofs!Next
<1>1. ASSUME NEW text \in Text, In!Encode(text) PROVE InProofs!Next
  <2>1. InProofs!Encode(text)
    BY <1>1 DEF In!Encode, In!Frame, InProofs!Encode, InProofs!Frame
  <2>2. QED
    BY <2>1 DEF InProofs!Next
<1>2. ASSUME NEW n \in Nat \ {0}, In!Transfer(n) PROVE InProofs!Next
  <2>1. InProofs!Transfer(n)
    BY <1>2 DEF In!Transfer, InProofs!Transfer
  <2>2. QED
    BY <2>1 DEF InProofs!Next
<1>3. ASSUME In!Decode PROVE InProofs!Next
  <2>1. InProofs!Decode
    BY <1>3 DEF In!Decode, In!HasFrame, In!Separators, In!Buffer,
        In!FirstText, In!FindSeparator, InProofs!Decode, InProofs!HasFrame,
        InProofs!Separators, InProofs!Buffer, InProofs!FirstText,
        InProofs!FindSeparator
  <2>2. QED
    BY <2>1 DEF InProofs!Next
<1>4. QED
  BY <1>1, <1>2, <1>3

(* The same for the output.                                                *)
LEMMA OutSteps ==
    /\ \A text \in Text : Out!Encode(text) => OutProofs!Next
    /\ \A n \in Nat \ {0} : Out!Transfer(n) => OutProofs!Next
    /\ Out!Decode => OutProofs!Next
<1>1. ASSUME NEW text \in Text, Out!Encode(text) PROVE OutProofs!Next
  <2>1. OutProofs!Encode(text)
    BY <1>1 DEF Out!Encode, Out!Frame, OutProofs!Encode, OutProofs!Frame
  <2>2. QED
    BY <2>1 DEF OutProofs!Next
<1>2. ASSUME NEW n \in Nat \ {0}, Out!Transfer(n) PROVE OutProofs!Next
  <2>1. OutProofs!Transfer(n)
    BY <1>2 DEF Out!Transfer, OutProofs!Transfer
  <2>2. QED
    BY <2>1 DEF OutProofs!Next
<1>3. ASSUME Out!Decode PROVE OutProofs!Next
  <2>1. OutProofs!Decode
    BY <1>3 DEF Out!Decode, Out!HasFrame, Out!Separators, Out!Buffer,
        Out!FirstText, Out!FindSeparator, OutProofs!Decode,
        OutProofs!HasFrame, OutProofs!Separators, OutProofs!Buffer,
        OutProofs!FirstText, OutProofs!FindSeparator
  <2>2. QED
    BY <2>1 DEF OutProofs!Next
<1>4. QED
  BY <1>1, <1>2, <1>3

(* The numbers of bytes that may be moved are natural numbers.             *)
LEMMA PortionIsNat ==
    ASSUME NEW len \in Nat, NEW at \in Nat, NEW n \in 1..(len - at)
    PROVE  n \in Nat \ {0}
OBVIOUS

-----------------------------------------------------------------------------
(* The input                                                               *)

(* Every step is a step of the input, or leaves it alone.  A read that is  *)
(* dropped leaves it alone: what it has got stays in the buffer.           *)
LEMMA InputStep ==
    ASSUME InProofs!PipeInv, [Next]_vars
    PROVE  [InProofs!Next]_InProofs!pipeVars
<1>1. Len(in_stream) \in Nat /\ in_moved \in Nat
  BY DEF InProofs!PipeInv, InProofs!PipeTypeOK
<1>2. CASE UNCHANGED inVars
  BY <1>2 DEF inVars, InProofs!pipeVars
<1>3. ASSUME Reads PROVE InProofs!Next \/ UNCHANGED inVars
  <2>1. ASSUME NEW n \in 1..(Len(in_stream) - in_moved), ReadBytes(n)
        PROVE  InProofs!Next
    <3>1. n \in Nat \ {0}
      BY <1>1, PortionIsNat
    <3>2. QED
      BY <2>1, <3>1, InSteps DEF ReadBytes
  <2>2. CASE ReadEnds
    BY <2>2 DEF ReadEnds
  <2>3. CASE Dispatch
    BY <2>3, InSteps DEF Dispatch
  <2>4. QED
    BY <1>3, <2>1, <2>2, <2>3 DEF Reads
<1>4. CASE ReceiveResponse
  BY <1>4, <1>2 DEF ReceiveResponse, TakenAfterCancel, inVars
<1>5. ASSUME NEW w \in Worker, Writes(w) PROVE UNCHANGED inVars
  BY <1>5 DEF Writes, Feed, Flush, Flushed, FlushFails
<1>6. ASSUME Lightningd PROVE InProofs!Next \/ UNCHANGED inVars
  <2>1. ASSUME NEW text \in Calls, SendCall(text) PROVE InProofs!Next
    BY <2>1, IoAssumption, InSteps DEF SendCall
  <2>2. QED
    BY <1>6, <2>1 DEF Lightningd, ClosePipe
<1>7. CASE ReceiveLog \/ ReadMessage \/ \E text \in Calls : Respond(text)
  BY <1>7, <1>2 DEF ReceiveLog, ReadMessage, Respond
<1>8. CASE UNCHANGED vars
  BY <1>8, <1>2 DEF vars
<1>9. QED
  BY <1>2, <1>3, <1>4, <1>5, <1>6, <1>7, <1>8 DEF Next

(* The dispatched calls are those of lightningd, whole, in order and once. *)
THEOREM InputIsAPipeOfCalls == Spec => InputIsAPipe
<1>1. Init => InProofs!Init
  BY DEF Init, In!Init, InProofs!Init
<1>2. Init => InProofs!PipeInv
  BY <1>1, InProofs!InitPipeInv
<1>3. InProofs!PipeInv /\ [Next]_vars => [InProofs!Next]_InProofs!pipeVars
  BY InputStep
<1>4. ASSUME InProofs!PipeInv, [InProofs!Next]_InProofs!pipeVars
      PROVE  InProofs!PipeInv'
  BY <1>4, InTextsAreFramable, InProofs!NextPipeInv
<1>5. Spec => InProofs!Spec
  BY <1>1, <1>2, <1>3, <1>4, PTL DEF Spec, InProofs!Spec
<1>6. InProofs!Spec => InProofs!IsAPipe
  BY InTextsAreFramable, InProofs!FramedPipeIsAPipe
<1>7. InProofs!Pipe!Init => In!Pipe!Init
  BY DEF InProofs!Pipe!Init, In!Pipe!Init
<1>8. [InProofs!Pipe!Next]_<<in_sent, in_received>>
      => [In!Pipe!Next]_<<in_sent, in_received>>
  BY DEF InProofs!Pipe!Next, InProofs!Pipe!Send, InProofs!Pipe!Receive,
         In!Pipe!Next, In!Pipe!Send, In!Pipe!Receive
<1>9. InProofs!IsAPipe => In!IsAPipe
  BY <1>7, <1>8, PTL DEF InProofs!IsAPipe, InProofs!Pipe!Spec,
                         In!IsAPipe, In!Pipe!Spec
<1>10. QED
  BY <1>5, <1>6, <1>9, PTL DEF InputIsAPipe

-----------------------------------------------------------------------------
(* The output                                                              *)

(* Workers only write texts: the responses of the tasks and log events.    *)
LEMMA WritesTextsStep ==
    ASSUME WritesTexts, [Next]_vars
    PROVE  WritesTexts'
<1> USE DEF WritesTexts
<1>1. CASE UNCHANGED <<frame, responses, logs>>
  BY <1>1
<1>2. ASSUME MayLog PROVE logs'.queue \in Seq(Text)
  <2>1. CASE UNCHANGED logs
    BY <2>1
  <2>2. CASE LogsOne
    <3>1. logs'.queue = Append(logs.queue, LogLine)
      BY <2>2 DEF LogsOne
    <3>2. QED
      BY <3>1, IoAssumption
  <2>3. QED
    BY <1>2, <2>1, <2>2 DEF MayLog
<1>3. ASSUME NEW text \in Text, NEW w \in Worker, AskForOutput(w, text)
      PROVE  frame' \in [Worker -> Text]
  BY <1>3 DEF AskForOutput
<1>4. CASE Reads
  BY <1>1, <1>2, <1>4 DEF Reads, ReadBytes, ReadEnds, Dispatch, workVars
<1>5. CASE ReceiveResponse
  <2>1. Head(responses) \in Text /\ Tail(responses) \in Seq(Text)
    BY <1>5 DEF ReceiveResponse
  <2>2. QED
    BY <1>3, <1>5, <2>1 DEF ReceiveResponse, Worker
<1>6. CASE ReceiveLog
  <2>1. Head(logs.queue) \in Text /\ Tail(logs.queue) \in Seq(Text)
    BY <1>6 DEF ReceiveLog
  <2>2. frame' \in [Worker -> Text]
    BY <1>3, <1>6, <2>1 DEF ReceiveLog, Worker
  <2>3. logs'.queue \in Seq(Text)
    BY <1>6, <2>1 DEF ReceiveLog
  <2>4. QED
    BY <1>6, <2>2, <2>3 DEF ReceiveLog
<1>7. ASSUME NEW text \in Calls, Respond(text) PROVE WritesTexts'
  <2>1. responses' \in Seq(Text)
    <3>1. ResponseTo[text] \in Text
      BY IoAssumption
    <3>2. QED
      BY <1>7, <3>1 DEF Respond
  <2>2. QED
    BY <1>2, <1>7, <2>1 DEF Respond, workVars
<1>8. CASE ReadMessage \/ Lightningd
  BY <1>1, <1>8 DEF ReadMessage, Lightningd, SendCall, ClosePipe, workVars
<1>9. ASSUME NEW w \in Worker, Writes(w) PROVE WritesTexts'
  BY <1>1, <1>9 DEF Writes, Feed, Flush, Flushed, FlushFails, workVars
<1>10. CASE UNCHANGED vars
  BY <1>1, <1>10 DEF vars, workVars
<1>11. QED
  BY <1>4, <1>5, <1>6, <1>7, <1>8, <1>9, <1>10 DEF Next

(* Every step is a step of the output, or leaves it alone.                 *)
LEMMA OutputStep ==
    ASSUME OutProofs!PipeInv, WritesTexts, [Next]_vars
    PROVE  [OutProofs!Next]_OutProofs!pipeVars
<1>1. Len(out_stream) \in Nat /\ out_moved \in Nat
  BY DEF OutProofs!PipeInv, OutProofs!PipeTypeOK
<1>2. CASE UNCHANGED outVars
  BY <1>2 DEF outVars, OutProofs!pipeVars
<1>3. ASSUME NEW w \in Worker, Writes(w)
      PROVE  OutProofs!Next \/ UNCHANGED outVars
  <2>1. CASE Feed(w)
    BY <2>1, OutSteps DEF Feed, WritesTexts
  <2>2. ASSUME NEW n \in 1..(Len(out_stream) - out_moved), Flush(w, n)
        PROVE  OutProofs!Next
    <3>1. n \in Nat \ {0}
      BY <1>1, PortionIsNat
    <3>2. QED
      BY <2>2, <3>1, OutSteps DEF Flush
  <2>3. QED
    BY <1>3, <2>1, <2>2 DEF Writes, Flushed, FlushFails
<1>4. CASE ReadMessage
  BY <1>4, OutSteps DEF ReadMessage
<1>5. CASE Reads
  BY <1>2, <1>5 DEF Reads, ReadBytes, ReadEnds, Dispatch
<1>6. CASE ReceiveResponse \/ ReceiveLog \/ Lightningd
  BY <1>2, <1>6 DEF ReceiveResponse, ReceiveLog, Lightningd, SendCall,
                    ClosePipe
<1>7. CASE \E text \in Calls : Respond(text)
  BY <1>2, <1>7 DEF Respond
<1>8. CASE UNCHANGED vars
  BY <1>2, <1>8 DEF vars
<1>9. QED
  BY <1>2, <1>3, <1>4, <1>5, <1>6, <1>7, <1>8 DEF Next

(* lightningd finds whole messages in the output that the driver and the   *)
(* log's writer share.                                                     *)
THEOREM OutputIsAPipeOfMessages == Spec => OutputIsAPipe
<1>1. Init => OutProofs!Init
  BY DEF Init, Out!Init, OutProofs!Init
<1>2. Init => OutProofs!PipeInv /\ WritesTexts
  BY <1>1, OutProofs!InitPipeInv, IoAssumption DEF Init, WritesTexts
<1>3. OutProofs!PipeInv /\ WritesTexts /\ [Next]_vars
      => [OutProofs!Next]_OutProofs!pipeVars /\ WritesTexts'
  BY OutputStep, WritesTextsStep
<1>4. ASSUME OutProofs!PipeInv, [OutProofs!Next]_OutProofs!pipeVars
      PROVE  OutProofs!PipeInv'
  BY <1>4, OutTextsAreFramable, OutProofs!NextPipeInv
<1>5. Spec => OutProofs!Spec
  BY <1>1, <1>2, <1>3, <1>4, PTL DEF Spec, OutProofs!Spec
<1>6. OutProofs!Spec => OutProofs!IsAPipe
  BY OutTextsAreFramable, OutProofs!FramedPipeIsAPipe
<1>7. OutProofs!Pipe!Init => Out!Pipe!Init
  BY DEF OutProofs!Pipe!Init, Out!Pipe!Init
<1>8. [OutProofs!Pipe!Next]_<<out_sent, out_received>>
      => [Out!Pipe!Next]_<<out_sent, out_received>>
  BY DEF OutProofs!Pipe!Next, OutProofs!Pipe!Send, OutProofs!Pipe!Receive,
         Out!Pipe!Next, Out!Pipe!Send, Out!Pipe!Receive
<1>9. OutProofs!IsAPipe => Out!IsAPipe
  BY <1>7, <1>8, PTL DEF OutProofs!IsAPipe, OutProofs!Pipe!Spec,
                         Out!IsAPipe, Out!Pipe!Spec
<1>10. QED
  BY <1>5, <1>6, <1>9, PTL DEF OutputIsAPipe
=============================================================================
