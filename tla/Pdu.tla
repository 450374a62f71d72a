-------------------------------- MODULE Pdu ---------------------------------
(***************************************************************************)
(* A PDU on the wire, around the value it carries: the two versions of     *)
(* BSER (watchwoman-protocol/src/bser.rs) and a JSON line                  *)
(* (watchwoman-protocol/src/json.rs), as operators on sequences of bytes.  *)
(* The codecs of values are parameters, which Bser and Json define.  The   *)
(* widths 1, 2, 4 and 8 are the code's; a data byte has B values instead   *)
(* of 256, so that the borders between widths come within reach.           *)
(***************************************************************************)
EXTENDS Integers, Sequences

CONSTANTS B,
          ToLeBytes(_, _), FromLeBytes(_),   \* of iN, given the width N in bytes
          WriteValue(_), ReadValue(_),       \* a value in BSER
          Text(_), Document(_)               \* a value as a JSON text

ASSUME PduAssumption == B \in Nat /\ B >= 2 /\ B % 2 = 0

\* The integer tags and the bytes that follow each.
Width == [tag \in 3..6 |-> CASE tag = 3 -> 1 [] tag = 4 -> 2 [] tag = 5 -> 4 [] tag = 6 -> 8]

\* The tags whose width holds n.
Fits(n) == {tag \in DOMAIN Width :
              -(B ^ Width[tag] \div 2) <= n /\ n < B ^ Width[tag] \div 2}

\* The smallest width that fits, two's complement, little-endian.
write_int(n) ==
    LET tag == CHOOSE t \in Fits(n) : \A u \in Fits(n) : t <= u
    IN  <<tag>> \o ToLeBytes(n, Width[tag])

\* MAGIC_V1, or MAGIC_V2 and four capability bytes.
Header(version) == IF version = 1 THEN <<0, 1>> ELSE <<0, 2, 0, 0, 0, 0>>

encode_pdu(v, version) ==
    Header(version) \o write_int(Len(WriteValue(v))) \o WriteValue(v)

-----------------------------------------------------------------------------
\* Readers: a value and the bytes it took, or Bad for any ProtocolError.

Bad == [ok |-> FALSE]
Good(v, n) == [ok |-> TRUE, v |-> v, n |-> n]

need(buf, size) == Len(buf) >= size

From(buf, pos) == SubSeq(buf, pos + 1, Len(buf))

read_int(buf) ==
    IF /\ buf # <<>>
       /\ buf[1] \in DOMAIN Width
       /\ need(buf, 1 + Width[buf[1]])
    THEN Good(FromLeBytes(SubSeq(buf, 2, 1 + Width[buf[1]])), 1 + Width[buf[1]])
    ELSE Bad

\* The payload buf[start + 1..end]: the value must fill it.
read_payload(buf, start, end) ==
    LET r == ReadValue(SubSeq(buf, start + 1, end))
    IN  IF need(buf, end) /\ r.ok /\ r.n = end - start THEN Good(r.v, end) ELSE Bad

\* One PDU at the start of buf.
decode_pdu(buf) ==
    LET start == Len(Header(buf[2]))
        len == read_int(From(buf, start))
    IN  IF need(buf, 2) /\ buf[1] = 0 /\ buf[2] \in {1, 2} /\ need(buf, start) /\ len.ok
        THEN read_payload(buf, start + len.n, start + len.n + len.v)
        ELSE Bad

-----------------------------------------------------------------------------
\* JSON lines

NEWLINE == 10
Printable == 32

encode_line(v) == Append(Text(v), NEWLINE)

\* serde_json::from_slice skips white space before the document, which starts
\* with a printable character.
from_slice(text) ==
    LET doc == IF text # <<>> /\ text[1] = NEWLINE THEN Tail(text) ELSE text
    IN  IF doc # <<>> /\ doc[1] >= Printable THEN Document(doc) ELSE Bad

=============================================================================
