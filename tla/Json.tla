-------------------------------- MODULE Json --------------------------------
(***************************************************************************)
(* The JSON codec (watchwoman-protocol/src/json.rs) and the server's reader *)
(* of a JSON line.  A document is written as the Value of its shape; it has *)
(* no bytes and no rows.  The text serde_json makes of it is any sequence   *)
(* of printable bytes that only this document has: here its BSER bytes,     *)
(* moved past the control characters.  The byte B in a string is U+FFFD.    *)
(***************************************************************************)
EXTENDS Bser

\* String::from_utf8_lossy.
lossy(s) == [i \in DOMAIN s |-> IF s[i] = B - 1 THEN B ELSE s[i]]

\* Number::from_f64 refuses infinities and NaN: their exponent is all ones,
\* which the last byte tells.
finite(real) == Last(real) # B - 1

\* The columns of a row under their keys.
row_object(keys, row) == [i \in 1..Len(row) |-> <<keys[i], row[i]>>]

RECURSIVE to_serde(_)

\* A template becomes an array of objects.
to_serde(v) ==
    LET is(field) == field \in DOMAIN v
        fields(kvs) == [object |-> [i \in DOMAIN kvs |-> <<kvs[i][1], to_serde(kvs[i][2])>>]]
    IN  CASE is("real") -> IF finite(v.real) THEN v ELSE Null
          [] is("bytes") -> [string |-> lossy(v.bytes)]
          [] is("array") -> [array |-> [i \in DOMAIN v.array |-> to_serde(v.array[i])]]
          [] is("object") -> fields(v.object)
          [] is("rows") ->
               [array |-> [i \in DOMAIN v.rows |-> fields(row_object(v.keys, v.rows[i]))]]
          [] OTHER -> v

\* serde_json::to_writer, and serde_json::from_slice of a text without white
\* space around it.
to_writer(doc) == LET bytes == write_value(doc) IN [i \in DOMAIN bytes |-> bytes[i] + Printable]
text(v) == to_writer(to_serde(v))
document(doc) ==
    LET r == read_value([i \in DOMAIN doc |-> doc[i] - Printable])
    IN  IF r.ok /\ r.n = Len(doc) THEN r ELSE Bad

-----------------------------------------------------------------------------
\* What a value is after the wire: bytes that are UTF-8 come back as a string.
RECURSIVE canon(_)
canon(v) ==
    CASE "bytes" \in DOMAIN v -> utf8(v.bytes)
      [] "array" \in DOMAIN v -> [array |-> [i \in DOMAIN v.array |-> canon(v.array[i])]]
      [] "object" \in DOMAIN v ->
           [object |-> [i \in DOMAIN v.object |-> <<v.object[i][1], canon(v.object[i][2])>>]]
      [] "rows" \in DOMAIN v ->
           [keys |-> v.keys,
            rows |-> [i \in DOMAIN v.rows |-> [j \in DOMAIN v.rows[i] |-> canon(v.rows[i][j])]]]
      [] OTHER -> v

\* What a JSON client makes of v, next to what v is in BSER.
RECURSIVE agree(_, _)
agree(v, j) ==
    LET Fields(kvs, o) ==
            /\ DOMAIN kvs = DOMAIN o
            /\ \A i \in DOMAIN kvs : kvs[i][1] = o[i][1] /\ agree(kvs[i][2], o[i][2])
    IN  CASE "real" \in DOMAIN v -> j = v \/ (j = Null /\ ~finite(v.real))
          [] "bytes" \in DOMAIN v ->
               \A i \in DOMAIN v.bytes : v.bytes[i] \in {j.string[i], B - 1}
          [] "array" \in DOMAIN v ->
               /\ DOMAIN v.array = DOMAIN j.array
               /\ \A i \in DOMAIN v.array : agree(v.array[i], j.array[i])
          [] "object" \in DOMAIN v -> Fields(v.object, j.object)
          [] "rows" \in DOMAIN v ->
               /\ DOMAIN v.rows = DOMAIN j.array
               /\ \A i \in DOMAIN v.rows :
                     Fields([k \in DOMAIN v.keys |-> <<v.keys[k], v.rows[i][k]>>],
                            j.array[i].object)
          [] OTHER -> j = v

=============================================================================
