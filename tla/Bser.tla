-------------------------------- MODULE Bser --------------------------------
(***************************************************************************)
(* The BSER codec of values (watchwoman-protocol/src/bser.rs).  A value is *)
(* a record with a field of its own per variant of Value; the eight bytes  *)
(* of an f64 are kept as they are.  The byte B - 1 stands for bytes that   *)
(* are not UTF-8.                                                          *)
(***************************************************************************)
EXTENDS Pdu, SequencesExt

TAG_ARRAY == 0
TAG_OBJECT == 1
TAG_STRING == 2
TAG_REAL == 7
TAG_TRUE == 8
TAG_FALSE == 9
TAG_NULL == 10
TAG_TEMPLATE == 11
TAG_SKIP == 12
TAG_UTF8 == 13

Null == [lit |-> "null"]

Concat(ss) == FlattenSeq(ss)

-----------------------------------------------------------------------------
\* Writers

to_le_bytes(n, w) == [i \in 1..w |-> (n \div B ^ (i - 1)) % B]

write_string(s) == <<TAG_STRING>> \o write_int(Len(s)) \o s

RECURSIVE write_value(_)

\* A null in a template row is written as SKIP.
write_cell(v) == IF v = Null THEN <<TAG_SKIP>> ELSE write_value(v)

write_value(v) ==
    LET is(field) == field \in DOMAIN v
    IN  CASE is("lit") -> <<CASE v.lit = "null" -> TAG_NULL
                              [] v.lit = "true" -> TAG_TRUE
                              [] v.lit = "false" -> TAG_FALSE>>
          [] is("int") -> write_int(v.int)
          [] is("real") -> <<TAG_REAL>> \o v.real
          [] is("string") -> write_string(v.string)
          [] is("bytes") -> write_string(v.bytes)
          [] is("array") ->
               <<TAG_ARRAY>> \o write_int(Len(v.array))
                 \o Concat([i \in DOMAIN v.array |-> write_value(v.array[i])])
          [] is("object") ->
               <<TAG_OBJECT>> \o write_int(Len(v.object))
                 \o Concat([i \in DOMAIN v.object |->
                      write_string(v.object[i][1]) \o write_value(v.object[i][2])])
          [] is("rows") ->
               <<TAG_TEMPLATE, TAG_ARRAY>> \o write_int(Len(v.keys))
                 \o Concat([i \in DOMAIN v.keys |-> write_string(v.keys[i])])
                 \o write_int(Len(v.rows))
                 \o Concat([i \in DOMAIN v.rows |->
                      Concat([j \in DOMAIN v.rows[i] |-> write_cell(v.rows[i][j])])])

-----------------------------------------------------------------------------
\* Readers

from_le_bytes(bytes) ==
    LET w == Len(bytes)
        u == FoldLeft(+, 0, [i \in 1..w |-> bytes[i] * B ^ (i - 1)])
    IN  IF u >= B ^ w \div 2 THEN u - B ^ w ELSE u

\* std::str::from_utf8, or else the bytes.
utf8(s) == IF \E i \in DOMAIN s : s[i] = B - 1 THEN [bytes |-> s] ELSE [string |-> s]

RECURSIVE read_value(_)

\* The next reader starts from what the last one read, if it did.
Then(r, Next(_)) == IF r.ok THEN Next(r) ELSE Bad

\* In a template row SKIP stands for null.
read_cell(buf, inRow) ==
    IF inRow /\ buf # <<>> /\ buf[1] = TAG_SKIP THEN Good(Null, 1) ELSE read_value(buf)

\* n values one after the other.
RECURSIVE read_values(_, _, _)
read_values(buf, n, inRow) ==
    IF n <= 0 THEN Good(<<>>, 0)
    ELSE Then(read_cell(buf, inRow), LAMBDA head :
           Then(read_values(From(buf, head.n), n - 1, inRow), LAMBDA tail :
             Good(<<head.v>> \o tail.v, head.n + tail.n)))

\* A counted sequence at the start of buf: a tuple of `width` values per item.
read_counted(buf, width, inRow) ==
    Then(read_int(buf), LAMBDA count :
      Then(read_values(From(buf, count.n), count.v * width, inRow), LAMBDA all :
        Good([i \in 1..count.v |-> SubSeq(all.v, (i - 1) * width + 1, i * width)],
             count.n + all.n)))

IsKey(v) == "string" \in DOMAIN v \/ "bytes" \in DOMAIN v
Key(v) == IF "string" \in DOMAIN v THEN v.string ELSE v.bytes

read_string(buf) ==
    Then(read_int(From(buf, 1)), LAMBDA len :
      IF need(buf, 1 + len.n + len.v)
      THEN Good(utf8(SubSeq(buf, 2 + len.n, 1 + len.n + len.v)), 1 + len.n + len.v)
      ELSE Bad)

read_array(buf) ==
    Then(read_counted(From(buf, 1), 1, FALSE), LAMBDA r :
      Good([array |-> [i \in DOMAIN r.v |-> r.v[i][1]]], 1 + r.n))

\* The keys are distinct and UTF-8, as in the map they were written from.
read_object(buf) ==
    Then(read_counted(From(buf, 1), 2, FALSE), LAMBDA r :
      IF \A i \in DOMAIN r.v : IsKey(r.v[i][1])
      THEN Good([object |-> [i \in DOMAIN r.v |-> <<Key(r.v[i][1]), r.v[i][2]>>]], 1 + r.n)
      ELSE Bad)

IsKeys(v) == "array" \in DOMAIN v /\ \A i \in DOMAIN v.array : IsKey(v.array[i])

read_template(buf) ==
    Then(read_value(From(buf, 1)), LAMBDA k :
      IF IsKeys(k.v)
      THEN Then(read_counted(From(buf, 1 + k.n), Len(k.v.array), TRUE), LAMBDA r :
             Good([keys |-> [i \in DOMAIN k.v.array |-> Key(k.v.array[i])], rows |-> r.v],
                  1 + k.n + r.n))
      ELSE Bad)

read_value(buf) ==
    IF buf = <<>> THEN Bad
    ELSE CASE buf[1] = TAG_NULL -> Good(Null, 1)
           [] buf[1] = TAG_TRUE -> Good([lit |-> "true"], 1)
           [] buf[1] = TAG_FALSE -> Good([lit |-> "false"], 1)
           [] buf[1] \in DOMAIN Width ->
                Then(read_int(buf), LAMBDA r : Good([int |-> r.v], r.n))
           [] buf[1] = TAG_REAL ->
                IF need(buf, 9) THEN Good([real |-> SubSeq(buf, 2, 9)], 9) ELSE Bad
           [] buf[1] \in {TAG_STRING, TAG_UTF8} -> read_string(buf)
           [] buf[1] = TAG_ARRAY -> read_array(buf)
           [] buf[1] = TAG_OBJECT -> read_object(buf)
           [] buf[1] = TAG_TEMPLATE -> read_template(buf)
           [] OTHER -> Bad

=============================================================================
