--------------------------------- MODULE Tlv ---------------------------------
(***************************************************************************)
(* TLV streams, src/src/tlv.rs: a stream is a sequence of entries, each of *)
(* which is written as its type, its length and its value.  Types and      *)
(* lengths are compact sizes: one byte, or a marker and 2, 4 or 8 bytes.   *)
(*                                                                         *)
(* The reads of the bytes crate panic beyond the end of the buffer.  The   *)
(* result of a function that reads is a record with the status "ok", "err" *)
(* or "panic".                                                             *)
(***************************************************************************)
EXTENDS Integers, SequencesExt

CONSTANTS Base,    \* the number of values of a byte: 256
          Widths   \* of the integers after the three markers: <<2, 4, 8>>

ASSUME TlvAssumption ==
    /\ Base \in Nat /\ Base > 3
    /\ Widths \in [1..3 -> Nat \ {0}]
    /\ Widths[1] < Widths[2] /\ Widths[2] < Widths[3]

Byte == 0..(Base - 1)

Failed(status) == [status |-> status]

-----------------------------------------------------------------------------
(* How many integers there are of so many bytes, 256^width.                *)
Values[width \in 0..Widths[3]] ==
    IF width = 0 THEN 1 ELSE Base * Values[width - 1]

U64 == 0..(Values[Widths[3]] - 1)

(* Big endian integers, as get_u16 to get_u64 and from_be_bytes read them  *)
(* and put_u16 to put_u64 write them.                                      *)
FromBigEndian(bytes) ==
    LET number[i \in 0..Len(bytes)] ==
          IF i = 0 THEN 0 ELSE number[i - 1] * Base + bytes[i]
    IN  number[Len(bytes)]
ToBigEndian(n, width) ==
    [i \in 1..width |-> (n \div Values[width - i]) % Base]

(* The three largest bytes (253, 254, 255) are markers.                    *)
Marker(k) == Base - 4 + k
WidthAfter(byte) ==
    IF byte < Marker(1) THEN 0 ELSE Widths[byte - Marker(1) + 1]

Suffix(bytes, n) == SubSeq(bytes, n + 1, Len(bytes))

(* The compact size in front, and the bytes that remain behind it.         *)
GetCompactSize(bytes) ==
    LET width == WidthAfter(bytes[1])
    IN  IF bytes = <<>> THEN Failed("panic")
        ELSE IF width + 1 > Len(bytes) THEN Failed("panic")
        ELSE [status |-> "ok",
              value  |-> IF width = 0
                         THEN bytes[1]
                         ELSE FromBigEndian(SubSeq(bytes, 2, width + 1)),
              rest   |-> Suffix(bytes, width + 1)]

FitsAByte_with_marker(n) == n <= Marker(1)
FitsAByte(n) == n < Marker(1)

PutCompactSize(n) ==
    IF FitsAByte(n)
    THEN <<n>>
    ELSE LET k == CHOOSE k \in 1..3 :
                    /\ n < Values[Widths[k]]
                    /\ \A j \in 1..(k - 1) : n >= Values[Widths[j]]
         IN  <<Marker(k)>> \o ToBigEndian(n, Widths[k])

(* A value without its leading zeros, whose length is that of the buffer.  *)
GetTu64_of_any_length(bytes) == [status |-> "ok", value |-> FromBigEndian(bytes)]
GetTu64(bytes) ==
    IF Len(bytes) > Widths[3]
    THEN Failed("err")
    ELSE [status |-> "ok", value |-> FromBigEndian(bytes)]

-----------------------------------------------------------------------------
(* SerializedTlvStream                                                     *)

(* The length of a buffer is a usize, which has the 64 bits of a u64.      *)
Buffer == {bytes \in Seq(Byte) : Len(bytes) \in U64}

Entry == [typ : U64, value : Buffer]

Stream(entries) == [status |-> "ok", entries |-> entries]

(* A value, if there are as many bytes as its length says.                 *)
Value_truncated(bytes, len) ==
    LET end == IF len > Len(bytes) THEN Len(bytes) ELSE len
    IN  [status |-> "ok", value |-> SubSeq(bytes, 1, end),
         rest |-> Suffix(bytes, end)]
Value(bytes, len) ==
    IF len > Len(bytes)
    THEN Failed("err")
    ELSE [status |-> "ok", value |-> SubSeq(bytes, 1, len),
          rest |-> Suffix(bytes, len)]

(* The loop of from_bytes reads entries while there are two bytes: a last  *)
(* one is left over.  It ends at the first read that fails.                *)
ReadEntry(s) ==
    LET typ   == GetCompactSize(s.rest)
        len   == GetCompactSize(typ.rest)
        value == Value(len.rest, len.value)
        entry == [typ |-> typ.value, value |-> value.value]
    IN  IF typ.status # "ok" THEN [s EXCEPT !.status = typ.status]
        ELSE IF len.status # "ok" THEN [s EXCEPT !.status = len.status]
        ELSE IF value.status # "ok" THEN [s EXCEPT !.status = value.status]
        ELSE [status |-> "ok", entries |-> Append(s.entries, entry),
              rest |-> value.rest]

Turn(s) == IF s.status = "ok" /\ Len(s.rest) >= 2 THEN ReadEntry(s) ELSE s

Result(s) == IF s.status = "ok" THEN Stream(s.entries) ELSE Failed(s.status)

(* A turn that reads takes two bytes or more, so that after as many turns  *)
(* as there are bytes the loop has ended.                                  *)
FromBytes(bytes) ==
    LET loop[i \in 0..Len(bytes)] ==
          IF i = 0 THEN [status |-> "ok", entries |-> <<>>, rest |-> bytes]
                   ELSE Turn(loop[i - 1])
    IN  Result(loop[Len(bytes)])

(* try_from: the length in front is read and skipped.  It limits nothing:  *)
(* into_inner gives back the buffer that take had limited.                 *)
TryFrom_unprefixed(bytes) == FromBytes(bytes)
TryFrom(bytes) ==
    LET prefix == GetCompactSize(bytes)
    IN  IF bytes = <<>> THEN Stream(<<>>)
        ELSE IF prefix.status = "ok" THEN FromBytes(prefix.rest)
        ELSE Failed(prefix.status)

PutEntry(entry) ==
    PutCompactSize(entry.typ) \o PutCompactSize(Len(entry.value))
    \o entry.value

ToBytes(entries) ==
    LET bytes[i \in 0..Len(entries)] ==
          IF i = 0 THEN <<>> ELSE bytes[i - 1] \o PutEntry(entries[i])
    IN  bytes[Len(entries)]

Position(entries, typ) == SelectInSeq(entries, LAMBDA e : e.typ = typ)
HasEntry(entries, typ) == Position(entries, typ) # 0
GetEntry(entries, typ) == entries[Position(entries, typ)].value

RemoveEntry_following(entries, typ) ==
    IF HasEntry(entries, typ)
    THEN SubSeq(entries, 1, Position(entries, typ) - 1) ELSE entries
RemoveEntry(entries, typ) ==
    IF HasEntry(entries, typ) THEN RemoveAt(entries, Position(entries, typ))
                         ELSE entries
=============================================================================
