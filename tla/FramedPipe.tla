----------------------------- MODULE FramedPipe ------------------------------
(***************************************************************************)
(* Messages in a stream of bytes: the MultiLineCodec of                    *)
(* src/src/cln_plugin/codec.rs between two processes that write and read   *)
(* as many bytes at a time as they get to.                                 *)
(*                                                                         *)
(* The bytes that were ever encoded are kept as one sequence.  Those after *)
(* the first moved ones are in the buffer of the sender (or in the pipe),  *)
(* those between taken and moved in the buffer of the receiver.            *)
(***************************************************************************)
EXTENDS Naturals, Sequences

CONSTANTS Byte, Newline,
          Text          \* the messages: sequences of bytes

(* "Each message is separated by an empty line and we're guaranteed that   *)
(* no other empty line is present in the messages."                        *)
IsFramable(text) ==
    /\ text \in Seq(Byte)
    /\ \A i \in 1..(Len(text) - 1) : text[i] # Newline \/ text[i + 1] # Newline
    /\ text # <<>> => text[Len(text)] # Newline

(* What those who send through the pipe have to see to.                    *)
TextsAreFramable ==
    /\ Newline \in Byte
    /\ \A text \in Text : IsFramable(text)

VARIABLES
    sent,       \* the messages that were encoded
    stream,     \* the bytes they were encoded to
    ends,       \* of each message, where it ends in the stream
    moved,      \* how many bytes the receiver has read
    taken,      \* how many of them it has decoded
    received    \* the messages it has decoded

pipeVars == <<sent, stream, ends, moved, taken, received>>

Init ==
    /\ sent = <<>>
    /\ stream = <<>>
    /\ ends = <<>>
    /\ moved = 0
    /\ taken = 0
    /\ received = <<>>

(* MultiLineCodec::encode.                                                 *)
Frame_of_one_newline(text) == text \o <<Newline>>
Frame_of_three_newlines(text) == text \o <<Newline, Newline, Newline>>
Frame(text) == text \o <<Newline, Newline>>

(* find_separator: the first of two newlines in a row.                     *)
Separators(buffer) ==
    {i \in 1..(Len(buffer) - 1) : buffer[i] = Newline /\ buffer[i + 1] = Newline}
HasFrame(buffer) == Separators(buffer) # {}
FindSeparator(buffer) ==
    CHOOSE i \in Separators(buffer) : \A j \in Separators(buffer) : i <= j

(* MultiLineCodec::decode.                                                 *)
FirstText(buffer) == SubSeq(buffer, 1, FindSeparator(buffer) - 1)

Buffer == SubSeq(stream, taken + 1, moved)

Encode(text) ==
    /\ sent' = Append(sent, text)
    /\ stream' = stream \o Frame(text)
    /\ ends' = Append(ends, Len(stream) + Len(Frame(text)))
    /\ UNCHANGED <<moved, taken, received>>

Transfer(n) ==
    /\ moved + n <= Len(stream)
    /\ moved' = moved + n
    /\ UNCHANGED <<sent, stream, ends, taken, received>>

Decode ==
    /\ HasFrame(Buffer)
    /\ received' = Append(received, FirstText(Buffer))
    /\ taken' = taken + FindSeparator(Buffer) + 1
    /\ UNCHANGED <<sent, stream, ends, moved>>

IsFlushed == moved = Len(stream)

Next ==
    \/ \E text \in Text : Encode(text)
    \/ \E n \in Nat \ {0} : Transfer(n)
    \/ Decode

Spec == Init /\ [][Next]_pipeVars

-----------------------------------------------------------------------------
(* Properties                                                              *)

(* However the bytes are cut, whole messages arrive, in order and once.    *)
Pipe == INSTANCE MessagePipe
IsAPipe == Pipe!Spec
=============================================================================
