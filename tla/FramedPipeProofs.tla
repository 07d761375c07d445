--------------------------- MODULE FramedPipeProofs ---------------------------
(***************************************************************************)
(* FramedPipe is a pipe of messages, for messages of any length and bytes  *)
(* that are moved in any portions.                                         *)
(***************************************************************************)
EXTENDS FramedPipe, TLAPS

(* Where the message after the first n starts.                             *)
Start(n) == IF n = 0 THEN 0 ELSE ends[n]

(* Message i of the stream lies between its start and its end.             *)
IsLaidOut(i) ==
    /\ ends[i] = Start(i - 1) + Len(sent[i]) + 2
    /\ ends[i] <= Len(stream)
    /\ \A k \in 1..(Len(sent[i]) + 2) :
           stream[Start(i - 1) + k] = Frame(sent[i])[k]

PipeTypeOK ==
    /\ sent \in Seq(Text)
    /\ stream \in Seq(Byte)
    /\ ends \in Seq(Nat)
    /\ Len(ends) = Len(sent)
    /\ moved \in Nat
    /\ taken \in Nat
    /\ received \in Seq(Text)

(* The receiver has decoded up to the start of a message, the next one.    *)
IsAligned ==
    /\ Len(received) <= Len(sent)
    /\ \A i \in 1..Len(received) : received[i] = sent[i]
    /\ taken = Start(Len(received))
    /\ taken <= moved
    /\ moved <= Len(stream)

PipeInv ==
    /\ PipeTypeOK
    /\ Len(stream) = Start(Len(sent))
    /\ \A i \in 1..Len(sent) : IsLaidOut(i)
    /\ IsAligned

(* What the assumption says of one message.                                *)
LEMMA TextIsFramable ==
    ASSUME TextsAreFramable, NEW text \in Text
    PROVE  /\ text \in Seq(Byte)
           /\ Len(text) \in Nat
           /\ \A i \in 1..(Len(text) - 1) :
                  text[i] # Newline \/ text[i + 1] # Newline
           /\ Len(text) > 0 => text[Len(text)] # Newline
<1>1. IsFramable(text)
  BY DEF TextsAreFramable
<1>2. text \in Seq(Byte) /\ Len(text) \in Nat
  BY <1>1 DEF IsFramable
<1>3. Len(text) > 0 => text # <<>>
  BY <1>2
<1>4. QED
  BY <1>1, <1>2, <1>3 DEF IsFramable

(* A frame is the message and two newlines.                                *)
LEMMA FrameOfText ==
    ASSUME TextsAreFramable, NEW text \in Text
    PROVE  /\ Frame(text) \in Seq(Byte)
           /\ Len(Frame(text)) = Len(text) + 2
           /\ \A k \in 1..Len(text) : Frame(text)[k] = text[k]
           /\ Frame(text)[Len(text) + 1] = Newline
           /\ Frame(text)[Len(text) + 2] = Newline
<1>1. text \in Seq(Byte) /\ Newline \in Byte
  BY TextIsFramable DEF TextsAreFramable
<1>2. QED
  BY <1>1 DEF Frame

(* Of a buffer that begins with a frame, or with a part of one that has a  *)
(* separator, the first separator is the one that encode has put there.    *)
LEMMA FirstSeparator ==
    ASSUME TextsAreFramable, NEW text \in Text, NEW buffer \in Seq(Byte),
           \A k \in 1..Len(buffer) :
               k <= Len(text) + 2 => buffer[k] = Frame(text)[k],
           HasFrame(buffer)
    PROVE  /\ FindSeparator(buffer) = Len(text) + 1
           /\ Len(buffer) >= Len(text) + 2
           /\ FirstText(buffer) = text
<1> DEFINE n == Len(text)
<1>1. n \in Nat /\ Len(buffer) \in Nat /\ text \in Seq(Byte)
  BY TextIsFramable
<1>2. ASSUME NEW i \in Separators(buffer) PROVE i >= n + 1
  <2>1. i \in 1..(Len(buffer) - 1) /\ buffer[i] = Newline
        /\ buffer[i + 1] = Newline
    BY DEF Separators
  <2>2. CASE i < n
    <3>1. buffer[i] = text[i] /\ buffer[i + 1] = text[i + 1]
      <4>1. buffer[i] = Frame(text)[i] /\ buffer[i + 1] = Frame(text)[i + 1]
        BY <1>1, <2>1, <2>2
      <4>2. i \in 1..n /\ i + 1 \in 1..n
        BY <1>1, <2>1, <2>2
      <4>3. QED
        BY <4>1, <4>2, FrameOfText
    <3>2. i \in 1..(Len(text) - 1)
      BY <1>1, <2>1, <2>2
    <3>3. QED
      BY <2>1, <3>1, <3>2, TextIsFramable
  <2>3. CASE i = n
    <3>1. i \in 1..Len(buffer) /\ i \in 1..n /\ i <= n + 2
      BY <1>1, <2>1, <2>3
    <3>2. buffer[i] = text[n]
      BY <2>3, <3>1, FrameOfText
    <3>3. n > 0
      BY <1>1, <2>1, <2>3
    <3>4. QED
      BY <2>1, <3>2, <3>3, TextIsFramable
  <2>4. QED
    BY <1>1, <2>1, <2>2, <2>3
<1>3. PICK i : i \in Separators(buffer)
  BY DEF HasFrame
<1>4. Len(buffer) >= n + 2
  <2>1. i \in 1..(Len(buffer) - 1) /\ i >= n + 1
    BY <1>2, <1>3 DEF Separators
  <2>2. QED
    BY <1>1, <2>1
<1>5. n + 1 \in Separators(buffer)
  <2>1. n + 1 \in 1..Len(buffer) /\ n + 2 \in 1..Len(buffer)
        /\ n + 1 \in 1..(Len(buffer) - 1)
    BY <1>1, <1>4
  <2>2. buffer[n + 1] = Newline /\ buffer[n + 2] = Newline
    BY <1>1, <2>1, FrameOfText
  <2>3. (n + 1) + 1 = n + 2
    BY <1>1
  <2>4. QED
    BY <2>1, <2>2, <2>3 DEF Separators
<1>6. FindSeparator(buffer) = n + 1
  <2> DEFINE least == FindSeparator(buffer)
  <2>1. \A j \in Separators(buffer) : n + 1 <= j
    BY <1>1, <1>2 DEF Separators
  <2>2. least \in Separators(buffer)
        /\ \A j \in Separators(buffer) : least <= j
    BY <1>5, <2>1 DEF FindSeparator
  <2>3. least <= n + 1 /\ n + 1 <= least /\ least \in Nat
    BY <1>1, <1>5, <2>1, <2>2 DEF Separators
  <2> HIDE DEF least
  <2>4. least = n + 1
    BY <1>1, <2>3
  <2>5. QED
    BY <2>4 DEF least
<1>7. FirstText(buffer) = text
  <2>1. FirstText(buffer) = SubSeq(buffer, 1, n)
    BY <1>1, <1>6 DEF FirstText
  <2>2. \A k \in 1..n : buffer[k] = text[k]
    <3>1. TAKE k \in 1..n
    <3>2. k \in 1..Len(buffer) /\ k <= n + 2
      BY <1>1, <1>4
    <3>3. QED
      BY <3>2, FrameOfText
  <2>3. SubSeq(buffer, 1, n) \in Seq(Byte) /\ Len(SubSeq(buffer, 1, n)) = n
        /\ \A k \in 1..n : SubSeq(buffer, 1, n)[k] = buffer[k]
    BY <1>1, <1>4
  <2> DEFINE first == SubSeq(buffer, 1, n)
  <2> HIDE DEF first
  <2>4. first = text
    BY <1>1, <2>2, <2>3 DEF first
  <2>5. QED
    BY <2>1, <2>4 DEF first
<1>8. QED
  BY <1>4, <1>6, <1>7

-----------------------------------------------------------------------------
(* The invariant                                                           *)

(* The lengths of sequences that are put together add up.                  *)
LEMMA LenOfConcat ==
    ASSUME NEW s \in Seq(Byte), NEW t \in Seq(Byte)
    PROVE  Len(s \o t) = Len(s) + Len(t)
OBVIOUS

(* Where a message starts is a place in the stream.                        *)
LEMMA StartIsNat ==
    ASSUME PipeTypeOK, NEW n \in 0..Len(sent)
    PROVE  Start(n) \in Nat
BY DEF PipeTypeOK, Start

(* The initial state has the invariant.                                    *)
LEMMA InitPipeInv == Init => PipeInv
<1> SUFFICES ASSUME Init PROVE PipeInv
  OBVIOUS
<1>1. sent = <<>> /\ stream = <<>> /\ ends = <<>> /\ moved = 0 /\ taken = 0
      /\ received = <<>>
  BY DEF Init
<1>2. PipeTypeOK
  BY <1>1 DEF PipeTypeOK
<1>3. Len(stream) = Start(Len(sent))
  BY <1>1 DEF Start
<1>4. \A i \in 1..Len(sent) : IsLaidOut(i)
  BY <1>1
<1>5. IsAligned
  BY <1>1 DEF IsAligned, Start
<1>6. QED
  BY <1>2, <1>3, <1>4, <1>5 DEF PipeInv

(* A message that is encoded is laid out at the end of the stream, and the *)
(* others stay where they are.                                             *)
LEMMA EncodePipeInv ==
    ASSUME TextsAreFramable, PipeInv, NEW text \in Text, Encode(text)
    PROVE  PipeInv'
<1> DEFINE frame == Frame(text)
<1>1. PipeTypeOK
  BY DEF PipeInv
<1>m. PICK m \in Nat : m = Len(sent)
  BY <1>1 DEF PipeTypeOK
<1>l. PICK len \in Nat : len = Len(stream)
  BY <1>1 DEF PipeTypeOK
<1>2. m = Len(sent) /\ len = Len(stream) /\ m \in Nat
      /\ len \in Nat /\ Len(ends) = m
      /\ sent \in Seq(Text) /\ stream \in Seq(Byte) /\ ends \in Seq(Nat)
  BY <1>1, <1>m, <1>l DEF PipeTypeOK
<1>3. frame \in Seq(Byte) /\ Len(frame) = Len(text) + 2 /\ Len(text) \in Nat
  BY FrameOfText, TextIsFramable
<1> HIDE DEF frame
<1>4. /\ sent' = Append(sent, text)
      /\ stream' = stream \o frame
      /\ ends' = Append(ends, len + Len(frame))
      /\ moved' = moved /\ taken' = taken /\ received' = received
  BY <1>2 DEF Encode, frame
<1>5. /\ sent' \in Seq(Text) /\ Len(sent') = m + 1
      /\ \A i \in 1..m : sent'[i] = sent[i]
      /\ sent'[m + 1] = text
  BY <1>2, <1>4
<1>6. /\ stream' \in Seq(Byte) /\ Len(stream') = len + Len(text) + 2
      /\ \A k \in 1..len : stream'[k] = stream[k]
      /\ \A k \in 1..Len(frame) : stream'[len + k] = frame[k]
  <2>1. stream' \in Seq(Byte) /\ Len(stream') = len + Len(frame)
    <3>1. stream \o frame \in Seq(Byte)
      BY <1>2, <1>3
    <3>2. Len(stream \o frame) = Len(stream) + Len(frame)
      BY <1>2, <1>3, LenOfConcat
    <3>3. QED
      BY <1>2, <1>4, <3>1, <3>2
  <2>2. \A k \in 1..len : stream'[k] = stream[k]
    BY <1>2, <1>3, <1>4
  <2>3. ASSUME NEW k \in 1..Len(frame) PROVE stream'[len + k] = frame[k]
    <3>1. len + k \in 1..(len + Len(frame)) /\ len + k > len
          /\ (len + k) - len = k
      BY <1>2, <1>3
    <3>2. QED
      BY <1>2, <1>3, <1>4, <3>1
  <2>4. QED
    BY <1>2, <1>3, <2>1, <2>2, <2>3
<1>7. /\ ends' \in Seq(Nat) /\ Len(ends') = m + 1
      /\ \A i \in 1..m : ends'[i] = ends[i]
      /\ ends'[m + 1] = len + Len(text) + 2
  BY <1>2, <1>3, <1>4
<1>8. PipeTypeOK'
  BY <1>1, <1>4, <1>5, <1>6, <1>7 DEF PipeTypeOK
<1>9. \A n \in 0..m : Start(n)' = Start(n)
  BY <1>2, <1>7 DEF Start
<1>10. len = Start(m)
  BY <1>2 DEF PipeInv
<1>11. Len(stream') = Start(Len(sent))'
  <2>1. Start(m + 1)' = ends'[m + 1]
    BY <1>2 DEF Start
  <2>2. QED
    BY <1>5, <1>6, <1>7, <2>1 DEF Start
<1>12. ASSUME NEW i \in 1..m PROVE IsLaidOut(i)'
  <2>1. IsLaidOut(i)
    BY <1>2 DEF PipeInv
  <2>2. i - 1 \in 0..m /\ i \in 1..m
    BY <1>2
  <2>3. sent'[i] = sent[i] /\ ends'[i] = ends[i] /\ sent[i] \in Text
        /\ Start(i - 1)' = Start(i - 1)
    BY <1>2, <1>5, <1>7, <1>9, <2>2
  <2>4. Start(i - 1) \in Nat /\ Len(sent[i]) \in Nat
    BY <1>1, <1>2, <2>2, <2>3, StartIsNat, TextIsFramable
  <2>5. ends[i] = Start(i - 1) + Len(sent[i]) + 2 /\ ends[i] <= len
    BY <1>2, <2>1 DEF IsLaidOut
  <2>6. ends'[i] = Start(i - 1)' + Len(sent'[i]) + 2
    BY <2>3, <2>5
  <2>7. ends'[i] <= Len(stream')
    BY <1>2, <1>3, <1>6, <2>3, <2>4, <2>5
  <2>8. ASSUME NEW k \in 1..(Len(sent'[i]) + 2)
        PROVE  stream'[Start(i - 1)' + k] = Frame(sent'[i])[k]
    <3>1. k \in 1..(Len(sent[i]) + 2)
      BY <2>3
    <3>2. Start(i - 1) + k \in 1..len
      BY <1>2, <2>4, <2>5, <3>1
    <3>3. stream[Start(i - 1) + k] = Frame(sent[i])[k]
      BY <2>1, <3>1 DEF IsLaidOut
    <3>4. QED
      BY <1>6, <2>3, <3>2, <3>3
  <2>9. QED
    BY <2>6, <2>7, <2>8 DEF IsLaidOut, Frame
<1>13. IsLaidOut(m + 1)'
  <2>1. Start((m + 1) - 1)' = len
    <3>1. (m + 1) - 1 = m /\ m \in 0..m
      BY <1>2
    <3>2. QED
      BY <1>9, <1>10, <3>1
  <2>2. ends'[m + 1] = Start((m + 1) - 1)' + Len(sent'[m + 1]) + 2
    BY <1>5, <1>7, <2>1
  <2>3. ends'[m + 1] <= Len(stream')
    BY <1>2, <1>3, <1>6, <1>7
  <2>4. ASSUME NEW k \in 1..(Len(sent'[m + 1]) + 2)
        PROVE  stream'[Start((m + 1) - 1)' + k] = Frame(sent'[m + 1])[k]
    <3>1. k \in 1..Len(frame)
      BY <1>3, <1>5
    <3>2. stream'[len + k] = frame[k]
      BY <1>6, <3>1
    <3>3. QED
      BY <1>5, <2>1, <3>2 DEF frame
  <2>5. QED
    BY <2>2, <2>3, <2>4 DEF IsLaidOut, Frame
<1>14. \A i \in 1..Len(sent') : IsLaidOut(i)'
  <2>1. TAKE i \in 1..Len(sent')
  <2>2. i \in 1..m \/ i = m + 1
    BY <1>2, <1>5
  <2>3. QED
    BY <1>12, <1>13, <2>2
<1>15. IsAligned'
  <2>1. IsAligned
    BY DEF PipeInv
  <2>2. Len(received) \in 0..m
    BY <1>1, <1>2, <2>1 DEF IsAligned, PipeTypeOK
  <2>3. Start(Len(received))' = Start(Len(received))
    BY <1>4, <1>9, <2>2 DEF Start
  <2>4. \A i \in 1..Len(received) : received'[i] = sent'[i]
    BY <1>2, <1>4, <1>5, <2>1, <2>2 DEF IsAligned
  <2>5. moved <= Len(stream') /\ Len(received) <= Len(sent')
    BY <1>1, <1>2, <1>3, <1>5, <1>6, <2>1, <2>2 DEF IsAligned, PipeTypeOK
  <2>6. QED
    BY <1>4, <2>1, <2>3, <2>4, <2>5 DEF IsAligned
<1>16. QED
  BY <1>8, <1>11, <1>14, <1>15 DEF PipeInv

(* Moving bytes changes neither what is sent nor what is received.         *)
LEMMA TransferPipeInv ==
    ASSUME PipeInv, NEW n \in Nat, Transfer(n)
    PROVE  PipeInv'
<1>1. /\ moved + n <= Len(stream) /\ moved' = moved + n
      /\ UNCHANGED <<sent, stream, ends, taken, received>>
  BY DEF Transfer
<1>2. PipeTypeOK'
  BY <1>1 DEF PipeInv, PipeTypeOK
<1>3. Len(stream') = Start(Len(sent))'
  BY <1>1 DEF PipeInv, Start
<1>4. \A i \in 1..Len(sent') : IsLaidOut(i)'
  BY <1>1 DEF PipeInv, IsLaidOut, Start, Frame
<1>5. IsAligned'
  <2>1. taken \in Nat /\ moved \in Nat /\ IsAligned
    BY DEF PipeInv, PipeTypeOK
  <2>2. Start(Len(received))' = Start(Len(received))
    BY <1>1 DEF Start
  <2>3. QED
    BY <1>1, <2>1, <2>2 DEF IsAligned
<1>6. QED
  BY <1>2, <1>3, <1>4, <1>5 DEF PipeInv

(* What is decoded is the next message, up to the end of its frame.        *)
LEMMA DecodesNextMessage ==
    ASSUME TextsAreFramable, PipeInv, HasFrame(Buffer)
    PROVE  /\ Len(received) + 1 \in 1..Len(sent)
           /\ FirstText(Buffer) = sent[Len(received) + 1]
           /\ taken + FindSeparator(Buffer) + 1 = ends[Len(received) + 1]
           /\ ends[Len(received) + 1] <= moved
<1> DEFINE n == Len(received) + 1
           buffer == Buffer
<1>1. PipeTypeOK /\ IsAligned /\ Len(stream) = Start(Len(sent))
  BY DEF PipeInv
<1>2. /\ moved \in Nat /\ taken \in Nat /\ Len(received) \in Nat
      /\ Len(sent) \in Nat /\ stream \in Seq(Byte) /\ Len(stream) \in Nat
      /\ taken <= moved /\ moved <= Len(stream)
      /\ Len(received) <= Len(sent) /\ taken = Start(Len(received))
  BY <1>1 DEF PipeTypeOK, IsAligned
<1>3. /\ buffer \in Seq(Byte) /\ Len(buffer) = moved - taken
      /\ \A k \in 1..Len(buffer) : buffer[k] = stream[taken + k]
  <2>1. taken + 1 \in 1..(Len(stream) + 1) /\ moved \in 0..Len(stream)
    BY <1>2
  <2>2. \A k \in 1..(moved - taken) : (taken + 1) + k - 1 = taken + k
    BY <1>2
  <2>3. /\ SubSeq(stream, taken + 1, moved) \in Seq(Byte)
        /\ Len(SubSeq(stream, taken + 1, moved)) = moved - taken
        /\ \A k \in 1..(moved - taken) :
              SubSeq(stream, taken + 1, moved)[k] = stream[taken + k]
    BY <1>2, <2>1, <2>2
  <2>4. QED
    BY <2>3 DEF Buffer
<1> HIDE DEF buffer
<1>4. HasFrame(buffer)
  BY DEF buffer
<1>5. Len(buffer) > 1
  <2>1. PICK i : i \in 1..(Len(buffer) - 1)
    BY <1>4 DEF HasFrame, Separators
  <2>2. QED
    BY <1>2, <1>3, <2>1
<1>6. n \in 1..Len(sent)
  <2>1. Len(stream) > Start(Len(received))
    BY <1>2, <1>3, <1>5
  <2>2. Len(received) # Len(sent)
    BY <1>1, <1>2, <2>1
  <2>3. QED
    BY <1>2, <2>2
<1>7. /\ sent[n] \in Text /\ Len(sent[n]) \in Nat
      /\ ends[n] = taken + Len(sent[n]) + 2
      /\ \A k \in 1..(Len(sent[n]) + 2) :
             stream[taken + k] = Frame(sent[n])[k]
  <2>1. IsLaidOut(n)
    BY <1>6 DEF PipeInv
  <2>2. n - 1 = Len(received)
    BY <1>2
  <2>3. sent[n] \in Text
    BY <1>1, <1>6 DEF PipeTypeOK
  <2>4. Len(sent[n]) \in Nat
    BY <2>3, TextIsFramable
  <2>5. Start(n - 1) = taken
    BY <1>2, <2>2
  <2>6. QED
    BY <2>1, <2>3, <2>4, <2>5 DEF IsLaidOut
<1>8. \A k \in 1..Len(buffer) :
          k <= Len(sent[n]) + 2 => buffer[k] = Frame(sent[n])[k]
  <2>1. SUFFICES ASSUME NEW k \in 1..Len(buffer), k <= Len(sent[n]) + 2
                 PROVE  buffer[k] = Frame(sent[n])[k]
    OBVIOUS
  <2>2. k \in 1..(Len(sent[n]) + 2)
    BY <1>7, <2>1
  <2>3. QED
    BY <1>3, <1>7, <2>2
<1>9. /\ FindSeparator(buffer) = Len(sent[n]) + 1
      /\ Len(buffer) >= Len(sent[n]) + 2
      /\ FirstText(buffer) = sent[n]
  BY <1>3, <1>4, <1>7, <1>8, FirstSeparator
<1>10. taken + FindSeparator(buffer) + 1 = ends[n] /\ ends[n] <= moved
  BY <1>2, <1>3, <1>7, <1>9
<1>11. QED
  BY <1>6, <1>9, <1>10 DEF buffer

(* Decoding goes on from the start of a message to that of the next.       *)
LEMMA DecodePipeInv ==
    ASSUME TextsAreFramable, PipeInv, Decode
    PROVE  PipeInv'
<1> DEFINE n == Len(received) + 1
<1>1. HasFrame(Buffer)
  BY DEF Decode
<1>2. /\ n \in 1..Len(sent)
      /\ FirstText(Buffer) = sent[n]
      /\ taken + FindSeparator(Buffer) + 1 = ends[n]
      /\ ends[n] <= moved
  BY <1>1, DecodesNextMessage
<1>3. /\ received' = Append(received, sent[n])
      /\ taken' = ends[n]
      /\ UNCHANGED <<sent, stream, ends, moved>>
  BY <1>2 DEF Decode
<1>4. PipeTypeOK /\ IsAligned
  BY DEF PipeInv
<1>5. /\ received' \in Seq(Text) /\ Len(received') = n
      /\ received'[n] = sent[n]
      /\ \A i \in 1..Len(received) : received'[i] = received[i]
  <2>1. received \in Seq(Text) /\ sent[n] \in Text
    BY <1>2, <1>4 DEF PipeTypeOK
  <2>2. QED
    BY <1>3, <2>1
<1>6. PipeTypeOK'
  <2>1. ends[n] \in Nat
    BY <1>2, <1>4 DEF PipeTypeOK
  <2>2. QED
    BY <1>3, <1>4, <1>5, <2>1 DEF PipeTypeOK
<1>7. Len(stream') = Start(Len(sent))'
  BY <1>3 DEF PipeInv, Start
<1>8. \A i \in 1..Len(sent') : IsLaidOut(i)'
  BY <1>3 DEF PipeInv, IsLaidOut, Start, Frame
<1>9. IsAligned'
  <2>1. \A i \in 1..Len(received') : received'[i] = sent'[i]
    <3>1. TAKE i \in 1..Len(received')
    <3>2. i \in 1..Len(received) \/ i = n
      BY <1>2, <1>4, <1>5 DEF PipeTypeOK
    <3>3. QED
      BY <1>3, <1>4, <1>5, <3>2 DEF IsAligned
  <2>2. Start(Len(received))' = ends[n]
    BY <1>2, <1>3, <1>5 DEF Start
  <2>3. Len(received') <= Len(sent')
    BY <1>2, <1>3, <1>5
  <2>4. QED
    BY <1>2, <1>3, <1>4, <2>1, <2>2, <2>3 DEF IsAligned
<1>10. QED
  BY <1>6, <1>7, <1>8, <1>9 DEF PipeInv

(* Steps of others keep the invariant.                                     *)
LEMMA StutterPipeInv ==
    ASSUME PipeInv, UNCHANGED pipeVars
    PROVE  PipeInv'
BY DEF PipeInv, PipeTypeOK, IsAligned, IsLaidOut, Start, Frame, pipeVars

(* Every step keeps the invariant.                                         *)
LEMMA NextPipeInv ==
    ASSUME TextsAreFramable, PipeInv, [Next]_pipeVars
    PROVE  PipeInv'
<1>1. CASE \E text \in Text : Encode(text)
  BY <1>1, EncodePipeInv
<1>2. CASE \E n \in Nat \ {0} : Transfer(n)
  BY <1>2, TransferPipeInv
<1>3. CASE Decode
  BY <1>3, DecodePipeInv
<1>4. CASE UNCHANGED pipeVars
  BY <1>4, StutterPipeInv
<1>5. QED
  BY <1>1, <1>2, <1>3, <1>4 DEF Next

-----------------------------------------------------------------------------
(* The refinement                                                          *)

(* Every step is one of the abstract pipe, or none of its business.        *)
LEMMA StepIsPipeStep ==
    ASSUME TextsAreFramable, PipeInv, [Next]_pipeVars
    PROVE  [Pipe!Next]_<<sent, received>>
<1>1. ASSUME NEW text \in Text, Encode(text) PROVE Pipe!Send
  BY <1>1 DEF Encode, Pipe!Send
<1>2. CASE Decode
  <2>1. Len(received) + 1 \in 1..Len(sent)
        /\ FirstText(Buffer) = sent[Len(received) + 1]
    BY <1>2, DecodesNextMessage DEF Decode
  <2>2. Len(received) < Len(sent)
    BY <2>1 DEF PipeInv, PipeTypeOK
  <2>3. Pipe!Receive
    BY <1>2, <2>1, <2>2 DEF Decode, Pipe!Receive
  <2>4. QED
    BY <2>3 DEF Pipe!Next
<1>3. CASE UNCHANGED <<sent, received>>
  BY <1>3
<1>4. QED
  BY <1>1, <1>2, <1>3 DEF Next, Transfer, pipeVars, Pipe!Next

(* FramedPipe implements MessagePipe: the codec loses, cuts and reorders   *)
(* no message, whatever the portions that are written and read.            *)
THEOREM FramedPipeIsAPipe ==
    ASSUME TextsAreFramable
    PROVE  Spec => IsAPipe
<1>1. Init => PipeInv
  BY InitPipeInv
<1>2. PipeInv /\ [Next]_pipeVars => PipeInv'
  BY NextPipeInv
<1>3. PipeInv /\ [Next]_pipeVars => [Pipe!Next]_<<sent, received>>
  BY StepIsPipeStep
<1>4. Init => Pipe!Init
  BY DEF Init, Pipe!Init
<1>5. QED
  BY <1>1, <1>2, <1>3, <1>4, PTL DEF Spec, IsAPipe, Pipe!Spec
=============================================================================
