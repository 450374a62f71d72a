-------------------------- MODULE ConnectionProofs --------------------------
(***************************************************************************)
(* Connection for every way of cutting up the bytes and every set of       *)
(* values whose codecs meet WireAssumption: PDUs are dispatched in order,  *)
(* none is refused, and both decoders read alike.                          *)
(***************************************************************************)
EXTENDS Connection, WellFoundedInduction, TLAPS

-----------------------------------------------------------------------------
\* What a PDU looks like on the wire.

Sendable == Values \cup More

Widths == {1, 2, 4, 8}

\* The integer tags.
LEMMA WidthType == DOMAIN Width = 3..6 /\ \A tag \in 3..6 : Width[tag] \in Widths
  <1>1. DOMAIN Width = 3..6
    BY DEF Width
  <1>2. ASSUME NEW tag \in 3..6 PROVE Width[tag] \in Widths
    BY DEF Width, Widths
  <1>. QED  BY <1>1, <1>2

\* write_int takes a tag that fits.
LEMMA SmallestTag ==
    ASSUME NEW n \in Int, Fits(n) # {}
    PROVE  (CHOOSE t \in Fits(n) : \A u \in Fits(n) : t <= u) \in Fits(n)
  <1>1. Fits(n) \subseteq 3..6
    BY WidthType DEF Fits
  <1>2. \E t \in Fits(n) : \A u \in Fits(n) : t <= u
    BY <1>1
  <1>. QED  BY <1>2

\* The magic is 0 and the version; version 2 adds four bytes of capabilities.
LEMMA HeaderLen ==
    ASSUME NEW e \in {1, 2}
    PROVE  /\ Header(e) \in Seq(Int)
           /\ Len(Header(e)) = IF e = 1 THEN 2 ELSE 6
           /\ Header(e)[1] = 0 /\ Header(e)[2] = e
  BY DEF Header

\* The bytes of two sequences, one after the other.
Joins(c, a, b) ==
    /\ c \in Seq(Int) /\ Len(c) = Len(a) + Len(b)
    /\ \A i \in 1..Len(a) : c[i] = a[i]
    /\ \A i \in 1..Len(b) : c[Len(a) + i] = b[i]

\* Which is what \o makes of them.
LEMMA Joined ==
    ASSUME NEW a \in Seq(Int), NEW b \in Seq(Int)
    PROVE  Joins(a \o b, a, b)
  BY DEF Joins

\* A BSER PDU: a header, a tag, the length in as many bytes as the tag says,
\* and the payload.
Bser(c, v, e, tag) ==
    LET h == Len(Header(e))
        w == Width[tag]
        bytes == WriteValue(v)
        le == ToLeBytes(Len(bytes), w)
    IN  /\ c \in Seq(Int)
        /\ Len(c) = h + 1 + w + Len(bytes)
        /\ c[1] = 0 /\ c[2] = e /\ c[h + 1] = tag
        /\ \A i \in 1..w : c[h + 1 + i] = le[i]
        /\ \A i \in 1..Len(bytes) : c[h + 1 + w + i] = bytes[i]

\* encode_pdu writes one, with a tag whose width holds the length.
LEMMA EncodeShape ==
    ASSUME NEW v \in Sendable, NEW e \in {1, 2}
    PROVE  \E tag \in Fits(Len(WriteValue(v))) : Bser(encode_pdu(v, e), v, e, tag)
  <1>1. PICK b : b = WriteValue(v)
    BY Zenon
  <1>2. b \in Seq(Int) /\ Len(b) \in Nat /\ Fits(Len(b)) # {}
    BY <1>1, WireAssumption DEF Sendable
  <1>3. PICK t : t = CHOOSE u \in Fits(Len(b)) : \A x \in Fits(Len(b)) : u <= x
    BY Zenon
  <1>4. t \in Fits(Len(b))
    BY ONLY <1>2, <1>3, SmallestTag
  <1>5. PICK w : w = Width[t]
    BY Zenon
  <1>6. t \in 3..6 /\ w \in Widths
    BY <1>4, <1>5, WidthType DEF Fits
  <1>7. PICK le : le = ToLeBytes(Len(b), w)
    BY Zenon
  <1>8. le \in Seq(Int) /\ Len(le) = w
    BY <1>1, <1>4, <1>5, <1>7, WireAssumption DEF Sendable
  <1>9. PICK h : h = Header(e)
    BY Zenon
  <1>10. h \in Seq(Int) /\ Len(h) \in {2, 6} /\ h[1] = 0 /\ h[2] = e
    BY <1>9, HeaderLen
  <1>11. t \in Int /\ w \in Nat
    BY ONLY <1>6 DEF Widths
  <1>12. PICK q : q = <<t>> \o le
    BY Zenon
  <1>13. q \in Seq(Int) /\ Len(q) = 1 + w /\ q[1] = t /\ \A i \in 1..w : q[1 + i] = le[i]
    <2>1. <<t>> \in Seq(Int) /\ Len(<<t>>) = 1 /\ <<t>>[1] = t
      BY ONLY <1>11
    <2>2. Joins(q, <<t>>, le)
      BY ONLY <2>1, <1>8, <1>12, Joined, Zenon
    <2>. QED  BY ONLY <2>1, <2>2, <1>8, <1>11 DEF Joins
  <1>14. PICK r : r = h \o q
    BY Zenon
  <1>15. Joins(r, h, q)
    BY ONLY <1>10, <1>13, <1>14, Joined
  <1>16. /\ r \in Seq(Int) /\ Len(r) = Len(h) + 1 + w /\ r[1] = 0 /\ r[2] = e
         /\ \A i \in 1..(1 + w) : r[Len(h) + i] = q[i]
    <2>1. Len(h) \in Nat /\ 1 \in 1..Len(h) /\ 2 \in 1..Len(h)
      BY ONLY <1>10
    <2>2. r[1] = h[1] /\ r[2] = h[2]
      BY ONLY <2>1, <1>15 DEF Joins
    <2>3. Len(r) = Len(h) + 1 + w
      BY ONLY <2>1, <1>11, <1>13, <1>15 DEF Joins
    <2>4. \A i \in 1..(1 + w) : r[Len(h) + i] = q[i]
      BY ONLY <1>13, <1>15 DEF Joins
    <2>. QED  BY ONLY <2>2, <2>3, <2>4, <1>10, <1>15 DEF Joins
  <1>17. PICK c : c = r \o b
    BY Zenon
  <1>18. Joins(c, r, b)
    BY ONLY <1>2, <1>16, <1>17, Joined
  <1>19. c \in Seq(Int) /\ Len(c) = Len(h) + 1 + w + Len(b)
    BY ONLY <1>2, <1>10, <1>11, <1>16, <1>18 DEF Joins
  <1>20. \A i \in 1..Len(b) : c[Len(h) + 1 + w + i] = b[i]
    BY ONLY <1>2, <1>10, <1>11, <1>16, <1>18 DEF Joins
  <1>21. c[1] = 0 /\ c[2] = e /\ c[Len(h) + 1] = t
    <2>1. /\ 1 \in 1..Len(r) /\ 2 \in 1..Len(r) /\ Len(h) + 1 \in 1..Len(r)
          /\ 1 \in 1..(1 + w)
      BY ONLY <1>10, <1>11, <1>16
    <2>2. c[1] = r[1] /\ c[2] = r[2] /\ c[Len(h) + 1] = r[Len(h) + 1]
      BY ONLY <2>1, <1>18 DEF Joins
    <2>3. r[Len(h) + 1] = q[1]
      BY ONLY <2>1, <1>16
    <2>. QED  BY ONLY <2>2, <2>3, <1>13, <1>16
  <1>22. ASSUME NEW i \in 1..w PROVE c[Len(h) + 1 + i] = le[i]
    <2>1. 1 + i \in 1..(1 + w) /\ Len(h) + (1 + i) \in 1..Len(r) /\ Len(h) + 1 + i = Len(h) + (1 + i)
      BY ONLY <1>10, <1>11, <1>16
    <2>2. c[Len(h) + (1 + i)] = r[Len(h) + (1 + i)]
      BY ONLY <2>1, <1>18 DEF Joins
    <2>. QED  BY ONLY <2>1, <2>2, <1>13, <1>16
  <1>23. Bser(c, v, e, t)
    BY ONLY <1>1, <1>5, <1>7, <1>9, <1>19, <1>20, <1>21, <1>22 DEF Bser
  <1>24. encode_pdu(v, e) = c
    BY ONLY <1>1, <1>3, <1>5, <1>7, <1>9, <1>12, <1>14, <1>17 DEF encode_pdu, write_int
  <1>. QED  BY <1>1, <1>4, <1>23, <1>24

-----------------------------------------------------------------------------
\* The readers, given the start of a PDU or all of it and what follows.

\* The fields of a decoder that succeeded.
LEMMA GoodIs == \A x, n : Good(x, n).ok = TRUE /\ Good(x, n).v = x /\ Good(x, n).n = n
  BY DEF Good

\* And of one that failed.
LEMMA BadIs == Bad.ok = FALSE
  BY DEF Bad

Agrees(buf, c) == \A i \in 1..Len(buf) : i <= Len(c) => buf[i] = c[i]

\* The rest of a buffer, byte by byte.
LEMMA FromIs ==
    ASSUME NEW buf \in Seq(Int), NEW h \in 0..Len(buf)
    PROVE  /\ From(buf, h) \in Seq(Int) /\ Len(From(buf, h)) = Len(buf) - h
           /\ \A i \in 1..(Len(buf) - h) : From(buf, h)[i] = buf[h + i]
  BY SMTT(20) DEF From

\* Bytes joined in either order.
LEMMA ConcatAssociative ==
    ASSUME NEW a \in Seq(Int), NEW b \in Seq(Int), NEW c \in Seq(Int)
    PROVE  (a \o b) \o c = a \o (b \o c)
  BY SMTT(20)

\* Sequences with the same length and the same bytes are equal.
LEMMA SameSeq ==
    ASSUME NEW a \in Seq(Int), NEW b \in Seq(Int), Len(a) = Len(b),
           \A i \in 1..Len(b) : a[i] = b[i]
    PROVE  a = b
  OBVIOUS

\* A part of a buffer that holds the bytes b.
Holds(buf, at, b) == \A i \in 1..Len(b) : buf[at + i] = b[i]

\* A slice of a sequence that holds a string at some place is that string.
LEMMA PartIs ==
    ASSUME NEW buf \in Seq(Int), NEW b \in Seq(Int), NEW at \in Nat,
           at + Len(b) <= Len(buf), Holds(buf, at, b)
    PROVE  SubSeq(buf, at + 1, at + Len(b)) = b
  <1>1. PICK s : s = SubSeq(buf, at + 1, at + Len(b))
    BY Zenon
  <1>2. s \in Seq(Int) /\ Len(s) = Len(b) /\ \A i \in 1..Len(b) : s[i] = buf[at + i]
    BY <1>1
  <1>3. \A i \in 1..Len(b) : s[i] = b[i]
    BY ONLY <1>2, Holds(buf, at, b) DEF Holds
  <1>4. s = b
    BY ONLY <1>2, <1>3, b \in Seq(Int), SameSeq
  <1>. QED  BY <1>1, <1>4

\* What a buffer that holds a length, or the start of one, is to read_int.
LEMMA LengthRead ==
    ASSUME NEW v \in Sendable, NEW e \in {1, 2}, NEW tag \in Fits(Len(WriteValue(v))),
           NEW c, Bser(c, v, e, tag), NEW buf \in Seq(Int), Agrees(buf, c),
           Len(buf) >= Len(Header(e)),
           NEW b, b = WriteValue(v), NEW w, w = Width[tag], NEW h, h = Len(Header(e))
    PROVE  /\ Len(buf) >= h + 1 + w => read_int(From(buf, h)) = Good(Len(b), 1 + w)
           /\ Len(buf) < h + 1 + w => read_int(From(buf, h)) = Bad
           /\ Len(buf) > h => From(buf, h)[1] = tag
  <1>1. b = WriteValue(v)
    OBVIOUS
  <1>2. w = Width[tag]
    OBVIOUS
  <1>4. h = Len(Header(e))
    OBVIOUS
  <1>3. PICK le : le = ToLeBytes(Len(b), w)
    BY Zenon
  <1>5. /\ b \in Seq(Int) /\ le \in Seq(Int) /\ Len(le) = w /\ FromLeBytes(le) = Len(b)
    BY <1>1, <1>2, <1>3, WireAssumption DEF Sendable
  <1>6. tag \in DOMAIN Width /\ tag \in Int /\ w \in Nat /\ w >= 1
    BY <1>2, WidthType DEF Fits, Widths
  <1>7. h \in Nat /\ h \in 0..Len(buf)
    BY <1>4, HeaderLen
  <1>8. /\ Len(c) = h + 1 + w + Len(b) /\ c[h + 1] = tag
        /\ \A i \in 1..w : c[h + 1 + i] = le[i]
    BY ONLY Bser(c, v, e, tag), <1>1, <1>2, <1>3, <1>4 DEF Bser
  <1>9. PICK rest : rest = From(buf, h)
    BY Zenon
  <1>10. /\ rest \in Seq(Int) /\ Len(rest) = Len(buf) - h
         /\ \A i \in 1..(Len(buf) - h) : rest[i] = buf[h + i]
    BY ONLY <1>7, <1>9, buf \in Seq(Int), FromIs, Zenon
  <1>11. Len(buf) > h => rest[1] = tag
    <2>. SUFFICES ASSUME Len(buf) > h PROVE rest[1] = tag
      OBVIOUS
    <2>1. /\ Len(buf) \in Nat /\ 1 \in 1..(Len(buf) - h)
          /\ h + 1 \in 1..Len(buf) /\ h + 1 <= Len(c)
      BY ONLY <1>5, <1>6, <1>7, <1>8, Len(buf) > h, buf \in Seq(Int)
    <2>. QED  BY ONLY <2>1, <1>8, <1>10, Agrees(buf, c) DEF Agrees
  <1>12. Len(buf) < h + 1 + w => read_int(rest) = Bad
    <2>. SUFFICES ASSUME Len(buf) < h + 1 + w, rest # <<>> PROVE ~(Len(rest) >= 1 + Width[rest[1]])
      BY DEF read_int, need
    <2>1. Len(rest) > 0 /\ Len(buf) > h
      BY ONLY <1>7, <1>10, rest # <<>>, buf \in Seq(Int)
    <2>2. Width[rest[1]] = w
      BY ONLY <2>1, <1>2, <1>11
    <2>3. ~(Len(rest) >= 1 + w)
      BY ONLY <1>6, <1>7, <1>10, Len(buf) < h + 1 + w, buf \in Seq(Int)
    <2>. QED  BY ONLY <2>2, <2>3
  <1>13. ASSUME Len(buf) >= h + 1 + w PROVE read_int(rest) = Good(Len(b), 1 + w)
    <2>1. ASSUME NEW i \in 1..w PROVE rest[1 + i] = le[i]
      <3>1. Len(c) = h + 1 + w + Len(b) /\ Len(b) \in Nat /\ Len(buf) \in Nat
        BY ONLY <1>5, <1>8, buf \in Seq(Int)
      <3>2. 1 + i \in 1..(Len(buf) - h) /\ h + (1 + i) \in 1..Len(buf) /\ h + (1 + i) <= Len(c)
            /\ h + (1 + i) = h + 1 + i
        BY ONLY <3>1, <1>6, <1>7, <1>13, i \in 1..w
      <3>3. rest[1 + i] = buf[h + (1 + i)]
        BY ONLY <3>2, <1>10, Zenon
      <3>4. buf[h + (1 + i)] = c[h + 1 + i]
        BY ONLY <3>2, Agrees(buf, c), Zenon DEF Agrees
      <3>. QED  BY ONLY <3>3, <3>4, <1>8, i \in 1..w, Zenon
    <2>2. PICK at, hi : at = 1 /\ hi = 1 + w
      BY Zenon
    <2>3. SubSeq(rest, 2, hi) = le
      <3>1. /\ at \in Nat /\ at + Len(le) <= Len(rest) /\ 2 = at + 1 /\ hi = at + Len(le)
        BY ONLY <2>2, <1>5, <1>6, <1>7, <1>10, <1>13, buf \in Seq(Int)
      <3>2. Holds(rest, at, le)
        BY ONLY <2>1, <2>2, <1>5 DEF Holds
      <3>3. SubSeq(rest, at + 1, at + Len(le)) = le
        BY ONLY <3>1, <3>2, <1>5, <1>10, PartIs, Zenon
      <3>. QED  BY ONLY <3>1, <3>3
    <2>4. rest # <<>> /\ rest[1] = tag /\ Len(rest) >= 1 + w
      BY ONLY <1>6, <1>7, <1>10, <1>11, <1>13, buf \in Seq(Int)
    <2>. QED  BY ONLY <2>2, <2>3, <2>4, <1>2, <1>5, <1>6, Zenon DEF read_int, need
  <1>. QED  BY ONLY <1>1, <1>2, <1>4, <1>9, <1>11, <1>12, <1>13

\* decode_pdu gives back what encode_pdu was given once all of it is there, and
\* nothing before.
LEMMA Decode ==
    ASSUME NEW v \in Sendable, NEW e \in {1, 2}, NEW buf \in Seq(Int),
           Agrees(buf, encode_pdu(v, e))
    PROVE  /\ Len(buf) >= Len(encode_pdu(v, e))
                => decode_pdu(buf) = Good(Canon(v), Len(encode_pdu(v, e)))
           /\ Len(buf) < Len(encode_pdu(v, e)) => decode_pdu(buf) = Bad
  <1>1. PICK c : c = encode_pdu(v, e)
    BY Zenon
  <1>2. PICK tag \in Fits(Len(WriteValue(v))) : Bser(c, v, e, tag)
    BY <1>1, EncodeShape
  <1>3. PICK b : b = WriteValue(v)
    BY Zenon
  <1>4. PICK w : w = Width[tag]
    BY Zenon
  <1>5. PICK h : h = Len(Header(e))
    BY Zenon
  <1>6. b \in Seq(Int) /\ ReadValue(b) = Good(Canon(v), Len(b))
    BY <1>3, WireAssumption DEF Sendable
  <1>7. w \in Nat /\ w >= 1 /\ h \in Nat /\ h >= 2
    <2>1. tag \in 3..6 /\ h \in {2, 6}
      BY <1>5, WidthType, HeaderLen, Zenon DEF Fits
    <2>. QED  BY ONLY <2>1, <1>4, WidthType DEF Widths
  <1>8. /\ Len(c) = h + 1 + w + Len(b) /\ c[1] = 0 /\ c[2] = e
        /\ \A i \in 1..Len(b) : c[h + 1 + w + i] = b[i]
    BY ONLY <1>2, <1>3, <1>4, <1>5 DEF Bser
  <1>9. Agrees(buf, c) /\ Len(buf) \in Nat /\ Len(b) \in Nat
    BY <1>1, <1>6
  <1>10. ASSUME Len(buf) < 2 PROVE decode_pdu(buf) = Bad
    <2>1. ~(Len(buf) >= 2)
      BY ONLY <1>9, <1>10
    <2>. QED  BY ONLY <2>1, Zenon DEF decode_pdu, need
  <1>11. ASSUME Len(buf) >= 2 PROVE buf[1] = 0 /\ buf[2] = e
    BY ONLY <1>7, <1>8, <1>9, <1>11 DEF Agrees
  <1>12. ASSUME Len(buf) >= 2, Len(buf) < h PROVE decode_pdu(buf) = Bad
    <2>1. ~(Len(buf) >= h)
      BY ONLY <1>7, <1>9, <1>12
    <2>. QED  BY ONLY <2>1, <1>5, <1>11, <1>12, Zenon DEF decode_pdu, need
  <1>13. ASSUME Len(buf) >= h
         PROVE  decode_pdu(buf) =
                  IF Len(buf) >= h + 1 + w
                  THEN read_payload(buf, h + (1 + w), h + (1 + w) + Len(b))
                  ELSE Bad
    <2>1. Len(buf) >= 2
      BY ONLY <1>7, <1>9, <1>13
    <2>2. PICK r : r = read_int(From(buf, h))
      BY Zenon
    <2>3. /\ Len(buf) >= h + 1 + w => r = Good(Len(b), 1 + w)
          /\ Len(buf) < h + 1 + w => r = Bad
      <3>1. Len(buf) >= Len(Header(e))
        BY ONLY <1>5, <1>13
      <3>. QED  BY ONLY <3>1, <1>2, <1>3, <1>4, <1>5, <1>9, <2>2, LengthRead, v \in Sendable,
                        e \in {1, 2}, buf \in Seq(Int)
    <2>4. decode_pdu(buf) =
            IF r.ok THEN read_payload(buf, h + r.n, h + r.n + r.v) ELSE Bad
      BY ONLY <1>5, <1>11, <1>13, <2>1, <2>2, e \in {1, 2} DEF decode_pdu, need
    <2>5. CASE Len(buf) >= h + 1 + w
      <3>1. r.ok = TRUE /\ r.v = Len(b) /\ r.n = 1 + w
        BY ONLY <2>3, <2>5, GoodIs
      <3>. QED  BY ONLY <3>1, <2>4, <2>5
    <2>6. CASE ~(Len(buf) >= h + 1 + w)
      <3>1. Len(buf) < h + 1 + w
        BY ONLY <1>7, <1>9, <2>6
      <3>2. r.ok = FALSE
        BY ONLY <2>3, <3>1, BadIs
      <3>. QED  BY ONLY <3>2, <2>4, <2>6
    <2>. QED  BY ONLY <2>5, <2>6
  <1>14. ASSUME Len(buf) >= h + 1 + w + Len(b)
         PROVE  decode_pdu(buf) = Good(Canon(v), h + 1 + w + Len(b))
    <2>1. PICK at, end : at = h + (1 + w) /\ end = h + (1 + w) + Len(b)
      BY Zenon
    <2>2. ASSUME NEW i \in 1..Len(b) PROVE buf[at + i] = b[i]
      <3>1. /\ at + i \in 1..Len(buf) /\ at + i <= Len(c) /\ at + i = h + 1 + w + i
        BY ONLY <1>7, <1>8, <1>9, <1>14, <2>1, SMTT(20)
      <3>. QED  BY ONLY <3>1, <1>8, <1>9 DEF Agrees
    <2>3. SubSeq(buf, at + 1, end) = b
      <3>1. at \in Nat /\ end = at + Len(b) /\ at + Len(b) <= Len(buf)
        BY ONLY <1>7, <1>9, <1>14, <2>1
      <3>2. Holds(buf, at, b)
        BY ONLY <2>2 DEF Holds
      <3>3. SubSeq(buf, at + 1, at + Len(b)) = b
        BY ONLY <3>1, <3>2, <1>6, buf \in Seq(Int), PartIs
      <3>. QED  BY ONLY <3>1, <3>3
    <2>4. Len(buf) >= end /\ end - at = Len(b)
      BY ONLY <1>7, <1>9, <1>14, <2>1
    <2>5. read_payload(buf, at, end) = Good(Canon(v), end)
      <3>1. ReadValue(b).ok /\ ReadValue(b).n = end - at /\ ReadValue(b).v = Canon(v)
        BY ONLY <2>4, <1>6, GoodIs
      <3>. QED  BY ONLY <2>3, <2>4, <3>1, Zenon DEF read_payload, need
    <2>6. Len(buf) >= h + 1 + w /\ Len(buf) >= h /\ end = h + 1 + w + Len(b)
      BY ONLY <1>7, <1>9, <1>14, <2>1
    <2>. QED  BY ONLY <2>1, <2>5, <2>6, <1>13
  <1>15. ASSUME Len(buf) >= h, Len(buf) < h + 1 + w + Len(b) PROVE decode_pdu(buf) = Bad
    <2>1. ~(Len(buf) >= h + (1 + w) + Len(b))
      BY ONLY <1>7, <1>9, <1>15
    <2>2. read_payload(buf, h + (1 + w), h + (1 + w) + Len(b)) = Bad
      BY ONLY <2>1, Zenon DEF read_payload, need
    <2>. QED  BY ONLY <2>2, <1>13, <1>15
  <1>16. Len(buf) >= Len(c) => decode_pdu(buf) = Good(Canon(v), Len(c))
    BY ONLY <1>8, <1>14
  <1>17. Len(buf) < Len(c) => decode_pdu(buf) = Bad
    BY ONLY <1>7, <1>8, <1>9, <1>10, <1>12, <1>15
  <1>. QED  BY ONLY <1>1, <1>16, <1>17

\* A payload is decoded as decode_pdu would a PDU of version 1.
LEMMA PayloadRead ==
    ASSUME NEW v \in Sendable
    PROVE  \E n : bser_decode_value(WriteValue(v)) = Good(Canon(v), n)
  <1>1. PICK c : c = encode_pdu(v, 1)
    BY Zenon
  <1>2. bser_decode_value(WriteValue(v)) = decode_pdu(c)
    BY ONLY <1>1 DEF bser_decode_value, encode_pdu
  <1>3. 1 \in {1, 2}
    OBVIOUS
  <1>4. c \in Seq(Int)
    BY <1>1, <1>3, EncodeShape DEF Bser
  <1>5. Agrees(c, c) /\ Len(c) >= Len(c)
    BY ONLY <1>4 DEF Agrees
  <1>6. decode_pdu(c) = Good(Canon(v), Len(c))
    BY <1>1, <1>3, <1>4, <1>5, Decode
  <1>. QED  BY ONLY <1>2, <1>6, Zenon

\* The server's framing does the same: it takes the PDU once all of it is
\* there, and waits before.
LEMMA Framed ==
    ASSUME NEW v \in Sendable, NEW e \in {1, 2}, NEW buf \in Seq(Int),
           Agrees(buf, encode_pdu(v, e))
    PROVE  /\ Len(buf) >= Len(encode_pdu(v, e))
                => Frame(buf) = [is |-> "pdu", e |-> e, v |-> Canon(v), n |-> Len(encode_pdu(v, e))]
           /\ Len(buf) < Len(encode_pdu(v, e)) => Frame(buf) = Short
  <1>1. PICK c : c = encode_pdu(v, e)
    BY Zenon
  <1>2. PICK tag \in Fits(Len(WriteValue(v))) : Bser(c, v, e, tag)
    BY <1>1, EncodeShape
  <1>3. PICK b : b = WriteValue(v)
    BY Zenon
  <1>4. PICK w : w = Width[tag]
    BY Zenon
  <1>5. PICK h : h = Len(Header(e))
    BY Zenon
  <1>6. b \in Seq(Int)
    BY <1>3, WireAssumption DEF Sendable
  <1>7. w \in Nat /\ w >= 1 /\ h \in Nat /\ h >= 2 /\ tag \in DOMAIN Width
    <2>1. tag \in 3..6 /\ h \in {2, 6}
      BY <1>5, WidthType, HeaderLen, Zenon DEF Fits
    <2>. QED  BY ONLY <2>1, <1>4, WidthType DEF Widths
  <1>8. /\ Len(c) = h + 1 + w + Len(b) /\ c[1] = 0 /\ c[2] = e
        /\ \A i \in 1..Len(b) : c[h + 1 + w + i] = b[i]
    BY ONLY <1>2, <1>3, <1>4, <1>5 DEF Bser
  <1>9. Agrees(buf, c) /\ Len(buf) \in Nat /\ Len(b) \in Nat
    BY <1>1, <1>6
  <1>10. /\ Len(buf) >= 1 => buf[1] = 0
         /\ Len(buf) >= 2 => buf[2] = e
    BY ONLY <1>7, <1>8, <1>9 DEF Agrees
  <1>11. ~((need(buf, 1) /\ buf[1] # 0) \/ (need(buf, 2) /\ buf[2] \notin {1, 2}))
    BY ONLY <1>10, e \in {1, 2} DEF need
  <1>12. ASSUME Len(buf) < h PROVE Frame(buf) = Short
    <2>1. ~(Len(buf) >= h)
      BY ONLY <1>7, <1>9, <1>12
    <2>. QED  BY ONLY <2>1, <1>5, <1>10, <1>11, Zenon DEF Frame, need
  <1>13. ASSUME Len(buf) >= h PROVE Frame(buf) = Sized(buf, h)
    <2>1. Len(buf) >= 2
      BY ONLY <1>7, <1>9, <1>13
    <2>. QED  BY ONLY <2>1, <1>5, <1>10, <1>11, <1>13, Zenon DEF Frame, need
  <1>14. ASSUME Len(buf) >= h
         PROVE  Sized(buf, h) =
                  IF Len(buf) >= h + 1 + w + Len(b)
                  THEN Payload(buf, h + (1 + w), h + (1 + w) + Len(b))
                  ELSE Short
    <2>1. PICK rest : rest = From(buf, h)
      BY Zenon
    <2>2. PICK r : r = read_int(rest)
      BY Zenon
    <2>3. /\ Len(buf) >= h + 1 + w => r = Good(Len(b), 1 + w)
          /\ Len(buf) < h + 1 + w => r = Bad
          /\ Len(buf) > h => rest[1] = tag
      <3>1. Len(buf) >= Len(Header(e))
        BY ONLY <1>5, <1>14
      <3>. QED  BY ONLY <3>1, <1>2, <1>3, <1>4, <1>5, <1>9, <2>1, <2>2, LengthRead, v \in Sendable,
                        e \in {1, 2}, buf \in Seq(Int)
    <2>4. Len(rest) = Len(buf) - h
      <3>1. h \in 0..Len(buf)
        BY ONLY <1>7, <1>9, <1>14
      <3>. QED  BY ONLY <2>1, <3>1, buf \in Seq(Int), FromIs
    <2>5. ~(need(rest, 1) /\ rest[1] \notin DOMAIN Width)
      <3>1. Len(rest) >= 1 => Len(buf) > h
        BY ONLY <2>4, <1>7, <1>9
      <3>. QED  BY ONLY <3>1, <2>3, <1>7, Zenon DEF need
    <2>6. Sized(buf, h) = IF r.ok /\ Len(buf) >= h + r.n + r.v
                          THEN Payload(buf, h + r.n, h + r.n + r.v) ELSE Short
      BY ONLY <2>1, <2>2, <2>5, Zenon DEF Sized, need
    <2>7. CASE Len(buf) >= h + 1 + w
      <3>1. r.ok = TRUE /\ r.v = Len(b) /\ r.n = 1 + w
        BY ONLY <2>3, <2>7, GoodIs
      <3>2. Len(buf) >= h + (1 + w) + Len(b) <=> Len(buf) >= h + 1 + w + Len(b)
        BY ONLY <1>7, <1>9
      <3>. QED  BY ONLY <3>1, <3>2, <2>6, <2>7
    <2>8. CASE Len(buf) < h + 1 + w
      <3>1. r.ok = FALSE
        BY ONLY <2>3, <2>8, BadIs
      <3>2. ~(Len(buf) >= h + 1 + w + Len(b))
        BY ONLY <1>7, <1>9, <2>8
      <3>. QED  BY ONLY <3>1, <3>2, <2>6
    <2>. QED  BY ONLY <2>7, <2>8, <1>7, <1>9
  <1>15. ASSUME Len(buf) >= h + 1 + w + Len(b)
         PROVE  Frame(buf) = [is |-> "pdu", e |-> e, v |-> Canon(v), n |-> h + 1 + w + Len(b)]
    <2>1. PICK at, end : at = h + (1 + w) /\ end = h + (1 + w) + Len(b)
      BY Zenon
    <2>2. ASSUME NEW i \in 1..Len(b) PROVE buf[at + i] = b[i]
      <3>1. /\ at + i \in 1..Len(buf) /\ at + i <= Len(c) /\ at + i = h + 1 + w + i
        BY ONLY <1>7, <1>8, <1>9, <1>15, <2>1, SMTT(20)
      <3>. QED  BY ONLY <3>1, <1>8, <1>9 DEF Agrees
    <2>3. SubSeq(buf, at + 1, end) = b
      <3>1. at \in Nat /\ end = at + Len(b) /\ at + Len(b) <= Len(buf)
        BY ONLY <1>7, <1>9, <1>15, <2>1
      <3>2. Holds(buf, at, b)
        BY ONLY <2>2 DEF Holds
      <3>3. SubSeq(buf, at + 1, at + Len(b)) = b
        BY ONLY <3>1, <3>2, <1>6, buf \in Seq(Int), PartIs
      <3>. QED  BY ONLY <3>1, <3>3
    <2>4. PICK n : bser_decode_value(b) = Good(Canon(v), n)
      BY <1>3, PayloadRead
    <2>5. Len(buf) >= h /\ Len(buf) >= 2 /\ end = h + 1 + w + Len(b)
      BY ONLY <1>7, <1>9, <1>15, <2>1
    <2>6. Payload(buf, at, end) = [is |-> "pdu", e |-> e, v |-> Canon(v), n |-> end]
      <3>1. bser_decode_value(b).ok = TRUE /\ bser_decode_value(b).v = Canon(v)
        BY ONLY <2>4, GoodIs
      <3>2. buf[2] = e
        BY ONLY <2>5, <1>10
      <3>. QED  BY ONLY <2>3, <3>1, <3>2, Zenon DEF Payload
    <2>. QED  BY ONLY <2>1, <2>5, <2>6, <1>13, <1>14, <1>15
  <1>16. ASSUME Len(buf) >= h, Len(buf) < h + 1 + w + Len(b) PROVE Frame(buf) = Short
    <2>1. ~(Len(buf) >= h + 1 + w + Len(b))
      BY ONLY <1>7, <1>9, <1>16
    <2>. QED  BY ONLY <2>1, <1>13, <1>14, <1>16
  <1>17. Len(buf) >= Len(c)
           => Frame(buf) = [is |-> "pdu", e |-> e, v |-> Canon(v), n |-> Len(c)]
    BY ONLY <1>8, <1>15
  <1>18. Len(buf) < Len(c) => Frame(buf) = Short
    BY ONLY <1>7, <1>8, <1>9, <1>12, <1>16
  <1>. QED  BY ONLY <1>1, <1>17, <1>18

\* A buffer that starts with anything else is no PDU to either.
LEMMA Foreign ==
    ASSUME NEW buf \in Seq(Int), buf # <<>>, buf[1] # 0
    PROVE  Frame(buf) = Failure /\ decode_pdu(buf) = Bad
  <1>1. Len(buf) >= 1
    OBVIOUS
  <1>. QED  BY <1>1, Zenon DEF Frame, decode_pdu, need

\* An empty buffer is short for both decoders.
LEMMA Nothing == Frame(<<>>) = Short /\ decode_pdu(<<>>) = Bad
  <1>1. ~(Len(<<>>) >= 1) /\ ~(Len(<<>>) >= 2)
    OBVIOUS
  <1>. QED  BY <1>1, Zenon DEF Frame, decode_pdu, need

-----------------------------------------------------------------------------
\* Lines.

\* What read_first_pdu and read_pdu make of the bytes of a line.
OfText(text, n) ==
    IF from_slice(text).ok THEN [is |-> "pdu", e |-> LINES, v |-> from_slice(text).v, n |-> n]
    ELSE Failure

\* The first NEWLINE at or after `from` ends the line.
LEMMA LineWhole ==
    ASSUME NEW buf \in Seq(Int), NEW from \in {1, 2}, NEW p \in from..Len(buf),
           buf[p] = NEWLINE, \A j \in from..(p - 1) : buf[j] # NEWLINE
    PROVE  Line(buf, from) = IF p = 1 THEN [is |-> "blank"] ELSE OfText(SubSeq(buf, 1, p - 1), p)
  <1>1. PICK ends : ends = {i \in from..Len(buf) : buf[i] = NEWLINE}
    BY Zenon
  <1>2. p \in ends /\ \A i \in ends : p <= i /\ i \in Int
    BY <1>1
  <1>3. Min(ends) = p
    <2>1. \A x \in ends : (\A y \in ends : x <= y) => x = p
      BY ONLY <1>2, p \in from..Len(buf)
    <2>2. \A y \in ends : p <= y
      BY ONLY <1>2
    <2>. QED  BY ONLY <2>1, <2>2, <1>2, Zenon DEF Min
  <1>4. buf # <<>> /\ ends # {}
    BY <1>2
  <1>5. PICK text : text = SubSeq(buf, 1, p - 1)
    BY Zenon
  <1>6. text = <<>> <=> p = 1
    <2>1. p \in Nat /\ p >= 1 /\ p <= Len(buf) /\ p - 1 \in 0..Len(buf)
      BY ONLY buf \in Seq(Int), from \in {1, 2}, p \in from..Len(buf)
    <2>2. text \in Seq(Int) /\ Len(text) = p - 1
      BY ONLY <2>1, <1>5, buf \in Seq(Int)
    <2>. QED  BY ONLY <2>1, <2>2
  <1>7. Line(buf, from) = IF text = <<>> THEN [is |-> "blank"] ELSE OfText(text, p)
    BY ONLY <1>1, <1>3, <1>4, <1>5, buf[p] = NEWLINE, Zenon DEF Line, OfText
  <1>. QED  BY ONLY <1>5, <1>6, <1>7, Zenon

\* Without one the line waits, and ends with the stream.
LEMMA LineOpen ==
    ASSUME NEW buf \in Seq(Int), NEW from \in {1, 2},
           \A j \in from..Len(buf) : buf[j] # NEWLINE
    PROVE  /\ buf = <<>> \/ ~Eof => Line(buf, from) = Short
           /\ buf # <<>> /\ Eof /\ buf[Len(buf)] # NEWLINE
                => Line(buf, from) = OfText(buf, Len(buf))
  <1>1. PICK ends : ends = {i \in from..Len(buf) : buf[i] = NEWLINE}
    BY Zenon
  <1>2. ends = {}
    BY <1>1
  <1>3. buf = <<>> \/ ~Eof => Line(buf, from) = Short
    BY ONLY <1>1, <1>2, Zenon DEF Line
  <1>4. ASSUME buf # <<>>, Eof, buf[Len(buf)] # NEWLINE
        PROVE  Line(buf, from) = OfText(buf, Len(buf))
    <2>1. SubSeq(buf, 1, Len(buf)) = buf
      OBVIOUS
    <2>. QED  BY ONLY <1>1, <1>2, <1>4, <2>1, Zenon DEF Line, OfText
  <1>. QED  BY <1>3, <1>4

\* An empty line ends with its first byte when a line may start there.
LEMMA LineLone ==
    ASSUME NEW buf, buf = <<NEWLINE>>, Eof
    PROVE  Line(buf, 2) = [is |-> "blank"]
  <1>1. PICK ends : ends = {i \in 2..Len(buf) : buf[i] = NEWLINE}
    BY Zenon
  <1>2. ends = {} /\ Len(buf) = 1 /\ buf[1] = NEWLINE /\ buf # <<>>
    BY <1>1
  <1>3. SubSeq(buf, 1, Len(buf) - 1) = <<>>
    OBVIOUS
  <1>. QED  BY ONLY <1>1, <1>2, <1>3, Eof, Zenon DEF Line

\* A text that a client sends, with or without an empty line before it, is a
\* document.
LEMMA TextRead ==
    ASSUME NEW v \in Sendable, NEW lead \in {<<>>, <<NEWLINE>>}
    PROVE  from_slice(lead \o Text(v)) = Document(Text(v))
  <1>1. PICK t : t = Text(v)
    BY Zenon
  <1>2. t \in Seq(Int) /\ t # <<>> /\ t[1] >= Printable
    BY <1>1, WireAssumption DEF Sendable
  <1>3. t[1] # NEWLINE
    BY ONLY <1>2 DEF NEWLINE, Printable
  <1>4. CASE lead = <<>>
    <2>1. lead \o t = t
      BY ONLY <1>2, <1>4
    <2>. QED  BY ONLY <2>1, <1>1, <1>2, <1>3, Zenon DEF from_slice
  <1>5. CASE lead = <<NEWLINE>>
    <2>1. PICK s : s = lead \o t
      BY Zenon
    <2>2. s # <<>> /\ s[1] = NEWLINE /\ Tail(s) = t
      BY ONLY <1>2, <1>5, <2>1 DEF NEWLINE
    <2>. QED  BY ONLY <2>1, <2>2, <1>1, <1>2, <1>3, Zenon DEF from_slice
  <1>. QED  BY <1>4, <1>5

\* A line that starts with a byte of BSER, also behind an empty line, is not.
LEMMA BserText ==
    ASSUME NEW text \in Seq(Int), text # <<>>,
           \/ text[1] = 0
           \/ Len(text) >= 2 /\ text[1] = NEWLINE /\ text[2] = 0
    PROVE  \A n : OfText(text, n) = Failure
  <1>1. ~(0 >= Printable) /\ 0 # NEWLINE
    BY DEF Printable, NEWLINE
  <1>2. from_slice(text) = Bad
    <2>1. CASE text[1] = 0
      BY ONLY <2>1, <1>1, Zenon DEF from_slice
    <2>2. CASE Len(text) >= 2 /\ text[1] = NEWLINE /\ text[2] = 0
      <3>1. Tail(text)[1] = 0
        BY <2>2
      <3>. QED  BY ONLY <2>2, <3>1, <1>1, text # <<>>, Zenon DEF from_slice
    <2>. QED  BY <2>1, <2>2
  <1>. QED  BY ONLY <1>2, BadIs DEF OfText

-----------------------------------------------------------------------------
\* The stream: the bytes sent and not yet read are the PDUs not yet dispatched,
\* one after the other, with the empty line where it was written.

Items == [v : Sendable, e : Encodings]

Code(x) == IF x.e = LINES THEN encode_line(x.v) ELSE encode_pdu(x.v, x.e)

\* The bytes of a PDU; `rest` allows a line without its end.
IsCode(w, x, rest) == w = Code(x) \/ (rest /\ x.e = LINES /\ w = Text(x.v))

Gap(bl, i) == IF bl = i THEN 1 ELSE 0

\* g[i] bytes of s come before PDU i.
LaidAt(g, s, k, items, bl, hu) ==
    /\ g \in [(k + 1)..(Len(items) + 1) -> Nat]
    /\ \A i, j \in (k + 1)..(Len(items) + 1) : i <= j => g[i] <= g[j]
    /\ g[k + 1] = Gap(bl, k)
    /\ \A i \in (k + 1)..Len(items) :
         \E w \in Seq(Int) :
             /\ IsCode(w, items[i], i = Len(items) /\ hu /\ bl # i)
             /\ g[i + 1] = g[i] + Len(w) + Gap(bl, i)
             /\ Holds(s, g[i], w)
    /\ bl \in k..Len(items) => s[g[bl + 1]] = NEWLINE
    /\ Len(s) = g[Len(items) + 1]

Laid(s, k, items, bl, hu) == k <= Len(items) /\ \E g : LaidAt(g, s, k, items, bl, hu)

Blanks(items) == {NoBlank} \cup 0..Len(items)

\* The next PDU is at the start of the stream, and without it the stream is
\* that of the PDUs after it.
LEMMA NextItem ==
    ASSUME NEW s \in Seq(Int), NEW items \in Seq(Items), NEW k \in Nat, k < Len(items),
           NEW bl \in Blanks(items), NEW hu \in BOOLEAN, Laid(s, k, items, bl, hu)
    PROVE  \E w \in Seq(Int) :
              /\ IsCode(w, items[k + 1], k + 1 = Len(items) /\ hu /\ bl # k + 1)
              /\ Gap(bl, k) + Len(w) <= Len(s)
              /\ bl = k => s[1] = NEWLINE
              /\ Holds(s, Gap(bl, k), w)
              /\ k + 1 = Len(items) => Len(s) = Gap(bl, k) + Len(w) + Gap(bl, k + 1)
              /\ Laid(From(s, Gap(bl, k) + Len(w)), k + 1, items, bl, hu)
  <1>1. PICK g : LaidAt(g, s, k, items, bl, hu)
    BY DEF Laid
  <1>2. PICK m : m = Len(items)
    BY Zenon
  <1>3. m \in Nat /\ k \in Nat /\ k < m /\ bl \in Int /\ Len(s) \in Nat
    BY <1>2 DEF Blanks, NoBlank
  <1>4. \A i \in Int : Gap(bl, i) \in {0, 1} /\ (Gap(bl, i) = 1 <=> bl = i)
    BY DEF Gap
  <1>5. /\ \A i \in (k + 1)..(m + 1) : g[i] \in Nat
        /\ \A i, j \in (k + 1)..(m + 1) : i <= j => g[i] <= g[j]
        /\ g[k + 1] = Gap(bl, k) /\ Len(s) = g[m + 1]
    BY ONLY <1>1, <1>2 DEF LaidAt
  <1>6. k + 1 \in (k + 1)..m /\ k + 2 \in (k + 1)..(m + 1) /\ k + 1 + 1 = k + 2
        /\ m + 1 \in (k + 1)..(m + 1) /\ k + 1 \in Int
    BY ONLY <1>3
  <1>7. PICK w \in Seq(Int) :
          /\ IsCode(w, items[k + 1], k + 1 = m /\ hu /\ bl # k + 1)
          /\ g[k + 2] = g[k + 1] + Len(w) + Gap(bl, k + 1)
          /\ Holds(s, g[k + 1], w)
    BY ONLY <1>1, <1>2, <1>6 DEF LaidAt
  <1>8. PICK n : n = Gap(bl, k) + Len(w)
    BY Zenon
  <1>9. n \in Nat /\ g[k + 2] = n + Gap(bl, k + 1) /\ n <= g[k + 2] /\ Len(w) \in Nat
    <2>1. Gap(bl, k) \in {0, 1} /\ Gap(bl, k + 1) \in {0, 1} /\ Len(w) \in Nat
      BY ONLY <1>3, <1>4, <1>6, w \in Seq(Int)
    <2>2. g[k + 2] = Gap(bl, k) + Len(w) + Gap(bl, k + 1)
      BY ONLY <1>5, <1>7
    <2>. QED  BY ONLY <2>1, <2>2, <1>8
  <1>10. n <= Len(s)
    BY ONLY <1>3, <1>5, <1>6, <1>9
  <1>11. bl = k => s[1] = NEWLINE
    <2>1. bl = k => bl \in k..m /\ g[bl + 1] = 1
      BY ONLY <1>3, <1>4, <1>5
    <2>. QED  BY ONLY <2>1, <1>1, <1>2 DEF LaidAt
  <1>12. k + 1 = m => Len(s) = n + Gap(bl, k + 1)
    <2>1. k + 1 = m => m + 1 = k + 2
      BY ONLY <1>3
    <2>. QED  BY ONLY <2>1, <1>5, <1>9
  <1>13. PICK t : t = From(s, n)
    BY Zenon
  <1>14. t \in Seq(Int) /\ Len(t) = Len(s) - n /\ \A i \in 1..(Len(s) - n) : t[i] = s[n + i]
    <2>1. n \in 0..Len(s)
      BY ONLY <1>3, <1>9, <1>10
    <2>. QED  BY ONLY <2>1, <1>13, s \in Seq(Int), FromIs, Zenon
  <1>15. PICK f : f = [i \in (k + 2)..(m + 1) |-> g[i] - n]
    BY Zenon
  <1>16. \A i \in (k + 2)..(m + 1) : i \in (k + 1)..(m + 1) /\ f[i] = g[i] - n /\ f[i] \in Nat
                                  /\ g[i] = n + f[i]
    <2>. TAKE i \in (k + 2)..(m + 1)
    <2>1. i \in (k + 1)..(m + 1) /\ k + 2 <= i
      BY ONLY <1>3
    <2>2. g[k + 2] <= g[i] /\ g[i] \in Nat
      BY ONLY <2>1, <1>5, <1>6
    <2>3. f[i] = g[i] - n
      BY ONLY <1>15
    <2>4. g[k + 2] \in Nat
      BY ONLY <1>5, <1>6
    <2>. QED  BY ONLY <2>1, <2>2, <2>3, <2>4, <1>9
  <1>17. LaidAt(f, t, k + 1, items, bl, hu)
    <2>1. f \in [(k + 2)..(m + 1) -> Nat]
      BY ONLY <1>15, <1>16
    <2>2. \A i, j \in (k + 2)..(m + 1) : i <= j => f[i] <= f[j]
      BY ONLY <1>5, <1>9, <1>16
    <2>3. f[k + 2] = Gap(bl, k + 1)
      <3>1. k + 2 \in (k + 2)..(m + 1)
        BY ONLY <1>3
      <3>2. Gap(bl, k + 1) \in Int
        BY ONLY <1>4, <1>6
      <3>. QED  BY ONLY <3>1, <3>2, <1>9, <1>16
    <2>4. ASSUME NEW i \in (k + 2)..m
          PROVE  \E u \in Seq(Int) :
                    /\ IsCode(u, items[i], i = m /\ hu /\ bl # i)
                    /\ f[i + 1] = f[i] + Len(u) + Gap(bl, i)
                    /\ Holds(t, f[i], u)
      <3>1. /\ i \in (k + 1)..m /\ i \in (k + 2)..(m + 1) /\ i + 1 \in (k + 2)..(m + 1)
            /\ i + 1 \in (k + 1)..(m + 1) /\ i \in Int /\ i + 1 <= m + 1
        BY ONLY <1>3
      <3>2. PICK u \in Seq(Int) :
               /\ IsCode(u, items[i], i = m /\ hu /\ bl # i)
               /\ g[i + 1] = g[i] + Len(u) + Gap(bl, i)
               /\ Holds(s, g[i], u)
        BY ONLY <3>1, <1>1, <1>2 DEF LaidAt
      <3>3. f[i] \in Nat /\ g[i] = n + f[i] /\ f[i + 1] \in Nat /\ g[i + 1] = n + f[i + 1]
        BY ONLY <3>1, <1>16
      <3>4. Gap(bl, i) \in {0, 1} /\ Len(u) \in Nat
        BY ONLY <3>1, <1>4, u \in Seq(Int)
      <3>5. f[i + 1] = f[i] + Len(u) + Gap(bl, i)
        <4>1. PICK x, y : x = f[i] /\ y = f[i + 1]
          BY Zenon
        <4>2. x \in Nat /\ y \in Nat /\ n + y = n + x + Len(u) + Gap(bl, i)
          BY ONLY <3>2, <3>3, <4>1
        <4>3. ASSUME NEW l \in Nat, NEW d \in Nat, n + y = n + x + l + d PROVE y = x + l + d
          BY ONLY <4>2, <4>3, <1>9
        <4>4. Gap(bl, i) \in Nat
          BY ONLY <3>4
        <4>5. y = x + Len(u) + Gap(bl, i)
          BY ONLY <4>2, <4>3, <4>4, <3>4, Zenon
        <4>. QED  BY ONLY <4>1, <4>5
      <3>6. g[i + 1] <= Len(s)
        BY ONLY <3>1, <1>5, <1>6
      <3>7. Holds(t, f[i], u)
        <4>. SUFFICES ASSUME NEW j \in 1..Len(u) PROVE t[f[i] + j] = u[j]
          BY DEF Holds
        <4>1. f[i] + j \in 1..(Len(s) - n) /\ n + (f[i] + j) = g[i] + j
          <5>1. PICK x, y : x = f[i] /\ y = f[i + 1]
            BY Zenon
          <5>2. x \in Nat /\ y \in Nat /\ y = x + Len(u) + Gap(bl, i) /\ n + y <= Len(s)
            BY ONLY <3>3, <3>5, <3>6, <5>1
          <5>3. x + j \in 1..(Len(s) - n) /\ n + (x + j) = n + x + j
            <6>1. ASSUME NEW l \in Nat, NEW d \in Nat, j \in 1..l, y = x + l + d, n + y <= Len(s)
                  PROVE  x + j \in 1..(Len(s) - n) /\ n + (x + j) = n + x + j
              BY ONLY <5>2, <6>1, <1>3, <1>9
            <6>2. Gap(bl, i) \in Nat
              BY ONLY <3>4
            <6>. QED  BY ONLY <5>2, <6>1, <6>2, <3>4, j \in 1..Len(u), Zenon
          <5>. QED  BY ONLY <5>1, <5>3, <3>3
        <4>. QED  BY ONLY <4>1, <3>2, <1>14, j \in 1..Len(u), Zenon DEF Holds
      <3>. QED  BY ONLY <3>2, <3>5, <3>7
    <2>5. bl \in (k + 1)..m => t[f[bl + 1]] = NEWLINE
      <3>. SUFFICES ASSUME bl \in (k + 1)..m PROVE t[f[bl + 1]] = NEWLINE
        OBVIOUS
      <3>1. bl \in k..m /\ bl + 1 \in (k + 2)..(m + 1) /\ bl \in (k + 1)..m /\ bl \in Int
            /\ bl + 1 <= m + 1 /\ bl \in (k + 1)..(m + 1)
        BY ONLY <1>3, bl \in (k + 1)..m
      <3>2. s[g[bl + 1]] = NEWLINE
        BY ONLY <3>1, <1>1, <1>2 DEF LaidAt
      <3>3. f[bl + 1] \in Nat /\ g[bl + 1] = n + f[bl + 1]
        BY ONLY <3>1, <1>16
      <3>4. g[bl + 1] <= Len(s)
        <4>1. bl + 1 \in (k + 1)..(m + 1)
          BY ONLY <3>1, <1>16
        <4>. QED  BY ONLY <3>1, <4>1, <1>5, <1>6
      <3>5. f[bl + 1] >= 1
        <4>1. CASE bl = k + 1
          <5>1. Gap(bl, bl) = 1
            BY ONLY <3>1, <1>4
          <5>2. g[bl + 1] = n + 1
            BY ONLY <5>1, <4>1, <1>6, <1>9
          <5>. QED  BY ONLY <5>2, <3>3, <1>9
        <4>2. CASE bl # k + 1
          <5>1. bl \in (k + 2)..m
            BY ONLY <4>2, <3>1, <1>3
          <5>2. PICK u \in Seq(Int) : f[bl + 1] = f[bl] + Len(u) + Gap(bl, bl)
            BY ONLY <5>1, <2>4
          <5>3. f[bl] \in Nat /\ Gap(bl, bl) = 1
            <6>1. bl \in (k + 2)..(m + 1)
              BY ONLY <5>1, <1>3
            <6>. QED  BY ONLY <6>1, <3>1, <1>4, <1>16
          <5>. QED  BY ONLY <5>2, <5>3
        <4>. QED  BY ONLY <4>1, <4>2
      <3>6. f[bl + 1] \in 1..(Len(s) - n)
        BY ONLY <3>3, <3>4, <3>5, <1>3, <1>9
      <3>. QED  BY ONLY <3>2, <3>3, <3>6, <1>14
    <2>6. Len(t) = f[m + 1]
      <3>1. m + 1 \in (k + 2)..(m + 1)
        BY ONLY <1>3
      <3>. QED  BY ONLY <3>1, <1>5, <1>9, <1>14, <1>16
    <2>7. k + 1 + 1 = k + 2
      BY ONLY <1>3
    <2>. QED  BY ONLY <2>1, <2>2, <2>3, <2>4, <2>5, <2>6, <2>7, <1>2 DEF LaidAt
  <1>18. k + 1 <= m
    BY ONLY <1>3
  <1>19. Laid(t, k + 1, items, bl, hu)
    BY ONLY <1>2, <1>17, <1>18 DEF Laid
  <1>20. Holds(s, Gap(bl, k), w)
    BY ONLY <1>5, <1>7
  <1>. QED  BY ONLY <1>2, <1>7, <1>8, <1>10, <1>11, <1>12, <1>13, <1>19, <1>20

\* What holds of the start of a sequence still does when more is added.
LEMMA HoldsMore ==
    ASSUME NEW s \in Seq(Int), NEW t \in Seq(Int), NEW w \in Seq(Int), NEW at \in Nat,
           Len(s) <= Len(t), \A i \in 1..Len(s) : t[i] = s[i],
           at + Len(w) <= Len(s), Holds(s, at, w)
    PROVE  Holds(t, at, w)
  <1>. SUFFICES ASSUME NEW j \in 1..Len(w) PROVE t[at + j] = w[j]
    BY DEF Holds
  <1>1. at + j \in 1..Len(s)
    OBVIOUS
  <1>. QED  BY <1>1 DEF Holds

\* A PDU is added to the stream, and may be the last, without its end.
LEMMA GrowItem ==
    ASSUME NEW s \in Seq(Int), NEW items \in Seq(Items), NEW k \in Nat,
           NEW bl \in Blanks(items), Laid(s, k, items, bl, FALSE),
           NEW x \in Items, NEW w \in Seq(Int), NEW hu \in BOOLEAN, IsCode(w, x, hu)
    PROVE  Laid(s \o w, k, Append(items, x), bl, hu)
  <1>1. PICK g : LaidAt(g, s, k, items, bl, FALSE)
    BY Zenon DEF Laid
  <1>2. PICK m : m = Len(items)
    BY Zenon
  <1>3. m \in Nat /\ k \in Nat /\ k <= m /\ bl \in Int /\ bl <= m /\ Len(s) \in Nat /\ Len(w) \in Nat
    BY <1>2 DEF Blanks, NoBlank, Laid
  <1>4. /\ \A i \in (k + 1)..(m + 1) : g[i] \in Nat
        /\ \A i, j \in (k + 1)..(m + 1) : i <= j => g[i] <= g[j]
        /\ g[k + 1] = Gap(bl, k) /\ Len(s) = g[m + 1]
        /\ DOMAIN g = (k + 1)..(m + 1)
    BY ONLY <1>1, <1>2, Zenon DEF LaidAt
  <1>5. PICK t : t = s \o w
    BY Zenon
  <1>6. Joins(t, s, w)
    BY ONLY <1>5, s \in Seq(Int), w \in Seq(Int), Joined
  <1>7. PICK its : its = Append(items, x)
    BY Zenon
  <1>8. /\ its \in Seq(Items) /\ Len(its) = m + 1 /\ its[m + 1] = x
        /\ \A i \in 1..m : its[i] = items[i]
    BY ONLY <1>2, <1>7, items \in Seq(Items), x \in Items
  <1>9. PICK f : f = [i \in (k + 1)..(m + 2) |-> IF i = m + 2 THEN Len(s) + Len(w) ELSE g[i]]
    BY Zenon
  <1>10. /\ f[m + 2] = Len(s) + Len(w)
         /\ \A i \in (k + 1)..(m + 1) : f[i] = g[i] /\ f[i] \in Nat /\ f[i] <= Len(s)
    <2>1. m + 2 \in (k + 1)..(m + 2)
      BY ONLY <1>3
    <2>2. ASSUME NEW i \in (k + 1)..(m + 1) PROVE f[i] = g[i]
      <3>1. i \in (k + 1)..(m + 2) /\ i # m + 2
        BY ONLY <1>3
      <3>. QED  BY ONLY <3>1, <1>9
    <2>3. ASSUME NEW i \in (k + 1)..(m + 1) PROVE g[i] <= Len(s)
      <3>1. m + 1 \in (k + 1)..(m + 1) /\ i <= m + 1
        BY ONLY <1>3
      <3>. QED  BY ONLY <3>1, <1>4
    <2>. QED  BY ONLY <2>1, <2>2, <2>3, <1>4, <1>9, Zenon
  <1>11. f \in [(k + 1)..(m + 2) -> Nat]
    <2>1. \A i \in (k + 1)..(m + 2) : f[i] \in Nat
      BY ONLY <1>3, <1>10
    <2>. QED  BY ONLY <2>1, <1>9
  <1>12. \A i, j \in (k + 1)..(m + 2) : i <= j => f[i] <= f[j]
    <2>. TAKE i, j \in (k + 1)..(m + 2)
    <2>. HAVE i <= j
    <2>1. CASE j = m + 2
      BY ONLY <2>1, <1>3, <1>10
    <2>2. CASE j # m + 2
      <3>1. i \in (k + 1)..(m + 1) /\ j \in (k + 1)..(m + 1)
        BY ONLY <2>2, <1>3, i <= j
      <3>. QED  BY ONLY <3>1, <1>4, <1>10, i <= j
    <2>. QED  BY ONLY <2>1, <2>2
  <1>13. f[k + 1] = Gap(bl, k)
    <2>1. k + 1 \in (k + 1)..(m + 1)
      BY ONLY <1>3
    <2>. QED  BY ONLY <2>1, <1>4, <1>10
  <1>14. ASSUME NEW i \in (k + 1)..(m + 1)
         PROVE  \E u \in Seq(Int) :
                   /\ IsCode(u, its[i], i = m + 1 /\ hu /\ bl # i)
                   /\ f[i + 1] = f[i] + Len(u) + Gap(bl, i)
                   /\ Holds(t, f[i], u)
    <2>1. CASE i = m + 1
      <3>1. IsCode(w, its[i], i = m + 1 /\ hu /\ bl # i)
        <4>1. bl # i
          BY ONLY <2>1, <1>3
        <4>. QED  BY ONLY <4>1, <2>1, <1>8, IsCode(w, x, hu) DEF IsCode
      <3>2. f[i] = Len(s) /\ f[i + 1] = Len(s) + Len(w)
        <4>1. i + 1 = m + 2
          BY ONLY <2>1, <1>3
        <4>. QED  BY ONLY <4>1, <2>1, <1>4, <1>10
      <3>3. Gap(bl, i) = 0
        BY ONLY <2>1, <1>3 DEF Gap
      <3>4. Holds(t, f[i], w)
        BY ONLY <3>2, <1>6 DEF Joins, Holds
      <3>5. f[i + 1] = f[i] + Len(w) + Gap(bl, i)
        BY ONLY <3>2, <3>3, <1>3
      <3>. QED  BY ONLY <3>1, <3>4, <3>5, w \in Seq(Int)
    <2>2. CASE i # m + 1
      <3>1. /\ i \in (k + 1)..m /\ i \in 1..m /\ i + 1 \in (k + 1)..(m + 1) /\ i \in (k + 1)..(m + 1)
        BY ONLY <2>2, <1>3
      <3>2. PICK u \in Seq(Int) :
               /\ IsCode(u, items[i], i = m /\ FALSE /\ bl # i)
               /\ g[i + 1] = g[i] + Len(u) + Gap(bl, i)
               /\ Holds(s, g[i], u)
        BY ONLY <3>1, <1>1, <1>2 DEF LaidAt
      <3>3. IsCode(u, its[i], i = m + 1 /\ hu /\ bl # i)
        BY ONLY <3>1, <3>2, <1>8 DEF IsCode
      <3>4. f[i] = g[i] /\ f[i + 1] = g[i + 1] /\ f[i + 1] <= Len(s) /\ f[i] \in Nat
        BY ONLY <3>1, <1>10
      <3>5. f[i] + Len(u) <= Len(s)
        <4>1. Gap(bl, i) \in Nat /\ Len(u) \in Nat
          BY ONLY u \in Seq(Int) DEF Gap
        <4>. QED  BY ONLY <4>1, <3>2, <3>4, <1>3
      <3>6. Len(s) <= Len(t) /\ t \in Seq(Int) /\ \A j \in 1..Len(s) : t[j] = s[j]
        BY ONLY <1>3, <1>6, SMTT(20) DEF Joins
      <3>7. Holds(t, f[i], u)
        BY ONLY <3>2, <3>4, <3>5, <3>6, HoldsMore, s \in Seq(Int)
      <3>. QED  BY ONLY <3>2, <3>3, <3>4, <3>7
    <2>. QED  BY ONLY <2>1, <2>2
  <1>15. bl \in k..(m + 1) => t[f[bl + 1]] = NEWLINE
    <2>. SUFFICES ASSUME bl \in k..(m + 1) PROVE t[f[bl + 1]] = NEWLINE
      OBVIOUS
    <2>1. bl \in k..m /\ bl + 1 \in (k + 1)..(m + 1)
      BY ONLY <1>3, bl \in k..(m + 1)
    <2>2. s[g[bl + 1]] = NEWLINE
      BY ONLY <2>1, <1>1, <1>2 DEF LaidAt
    <2>3. g[bl + 1] = f[bl + 1] /\ f[bl + 1] \in Nat /\ f[bl + 1] <= Len(s)
      BY ONLY <2>1, <1>10
    <2>4. g[bl + 1] >= 1
      <3>1. CASE bl = k
        BY ONLY <3>1, <1>4 DEF Gap
      <3>2. CASE bl # k
        <4>1. bl \in (k + 1)..m /\ bl \in (k + 1)..(m + 1)
          BY ONLY <3>2, <2>1, <1>3
        <4>2. PICK u \in Seq(Int) : g[bl + 1] = g[bl] + Len(u) + Gap(bl, bl)
          BY ONLY <4>1, <1>1, <1>2 DEF LaidAt
        <4>3. g[bl] \in Nat /\ Gap(bl, bl) = 1 /\ Len(u) \in Nat
          BY ONLY <4>1, <1>4, u \in Seq(Int) DEF Gap
        <4>. QED  BY ONLY <4>2, <4>3
      <3>. QED  BY ONLY <3>1, <3>2
    <2>5. f[bl + 1] \in 1..Len(s)
      BY ONLY <2>3, <2>4, <1>3
    <2>6. t[f[bl + 1]] = s[f[bl + 1]]
      BY ONLY <2>5, <1>6, Zenon DEF Joins
    <2>. QED  BY ONLY <2>2, <2>3, <2>6, Zenon
  <1>16. Len(t) = f[m + 2]
    BY ONLY <1>6, <1>10 DEF Joins
  <1>17. m + 1 + 1 = m + 2 /\ k <= m + 1
    BY ONLY <1>3
  <1>18. LaidAt(f, t, k, its, bl, hu)
    BY ONLY <1>8, <1>11, <1>12, <1>13, <1>14, <1>15, <1>16, <1>17 DEF LaidAt
  <1>. QED  BY ONLY <1>5, <1>7, <1>8, <1>17, <1>18 DEF Laid

\* An empty line is added.
LEMMA GrowBlank ==
    ASSUME NEW s \in Seq(Int), NEW items \in Seq(Items), NEW k \in Nat,
           Laid(s, k, items, NoBlank, FALSE)
    PROVE  Laid(Append(s, NEWLINE), k, items, Len(items), FALSE)
  <1>1. PICK g : LaidAt(g, s, k, items, NoBlank, FALSE)
    BY Zenon DEF Laid
  <1>2. PICK m : m = Len(items)
    BY Zenon
  <1>3. m \in Nat /\ k \in Nat /\ k <= m /\ Len(s) \in Nat
    BY <1>2 DEF Laid
  <1>4. \A i \in Nat : Gap(NoBlank, i) = 0 /\ (i # m => Gap(m, i) = 0) /\ Gap(m, m) = 1
    BY <1>3 DEF Gap, NoBlank
  <1>5. /\ \A i \in (k + 1)..(m + 1) : g[i] \in Nat
        /\ \A i, j \in (k + 1)..(m + 1) : i <= j => g[i] <= g[j]
        /\ g[k + 1] = 0 /\ Len(s) = g[m + 1]
        /\ DOMAIN g = (k + 1)..(m + 1)
    BY ONLY <1>1, <1>2, <1>3, <1>4, Zenon DEF LaidAt
  <1>6. PICK t : t = Append(s, NEWLINE)
    BY Zenon
  <1>7. /\ t \in Seq(Int) /\ Len(t) = Len(s) + 1 /\ t[Len(s) + 1] = NEWLINE
        /\ \A i \in 1..Len(s) : t[i] = s[i]
    BY ONLY <1>6, s \in Seq(Int) DEF NEWLINE
  <1>8. PICK f : f = [i \in (k + 1)..(m + 1) |-> IF i = m + 1 THEN Len(s) + 1 ELSE g[i]]
    BY Zenon
  <1>9. /\ m + 1 \in (k + 1)..(m + 1) /\ f[m + 1] = Len(s) + 1
        /\ \A i \in (k + 1)..m : i \in (k + 1)..(m + 1) /\ f[i] = g[i] /\ f[i] \in Nat /\ f[i] <= Len(s)
    <2>1. m + 1 \in (k + 1)..(m + 1)
      BY ONLY <1>3
    <2>2. ASSUME NEW i \in (k + 1)..m
          PROVE  i \in (k + 1)..(m + 1) /\ f[i] = g[i] /\ f[i] \in Nat /\ f[i] <= Len(s)
      <3>1. i \in (k + 1)..(m + 1) /\ i # m + 1 /\ i <= m + 1
        BY ONLY <1>3
      <3>2. f[i] = g[i] /\ g[i] \in Nat /\ g[i] <= g[m + 1]
        BY ONLY <2>1, <3>1, <1>5, <1>8
      <3>. QED  BY ONLY <3>1, <3>2, <1>5
    <2>. QED  BY ONLY <2>1, <2>2, <1>8, Zenon
  <1>10. ASSUME NEW i \in (k + 1)..(m + 1) PROVE f[i] \in Nat /\ f[i] <= Len(s) + 1
    <2>1. CASE i = m + 1
      BY ONLY <2>1, <1>3, <1>9
    <2>2. CASE i # m + 1
      <3>1. i \in (k + 1)..m
        BY ONLY <2>2, <1>3
      <3>2. f[i] \in Nat /\ f[i] <= Len(s)
        BY ONLY <3>1, <1>9
      <3>. QED  BY ONLY <3>2, <1>3
    <2>. QED  BY ONLY <2>1, <2>2
  <1>11. f \in [(k + 1)..(m + 1) -> Nat]
    BY ONLY <1>8, <1>10
  <1>12. \A i, j \in (k + 1)..(m + 1) : i <= j => f[i] <= f[j]
    <2>. TAKE i, j \in (k + 1)..(m + 1)
    <2>. HAVE i <= j
    <2>1. CASE j = m + 1
      BY ONLY <2>1, <1>9, <1>10
    <2>2. CASE j # m + 1
      <3>1. i \in (k + 1)..m /\ j \in (k + 1)..m
        BY ONLY <2>2, <1>3, i <= j
      <3>. QED  BY ONLY <3>1, <1>5, <1>9, i <= j
    <2>. QED  BY ONLY <2>1, <2>2
  <1>13. f[k + 1] = Gap(m, k)
    <2>1. CASE k = m
      BY ONLY <2>1, <1>3, <1>4, <1>5, <1>9
    <2>2. CASE k # m
      <3>1. k + 1 \in (k + 1)..m
        BY ONLY <2>2, <1>3
      <3>. QED  BY ONLY <2>2, <3>1, <1>3, <1>4, <1>5, <1>9
    <2>. QED  BY ONLY <2>1, <2>2
  <1>14. ASSUME NEW i \in (k + 1)..m
         PROVE  \E u \in Seq(Int) :
                   /\ IsCode(u, items[i], i = m /\ FALSE /\ m # i)
                   /\ f[i + 1] = f[i] + Len(u) + Gap(m, i)
                   /\ Holds(t, f[i], u)
    <2>1. i + 1 \in (k + 1)..(m + 1) /\ i \in Nat /\ i + 1 <= m + 1
      BY ONLY <1>3
    <2>2. PICK u \in Seq(Int) :
             /\ IsCode(u, items[i], i = m /\ FALSE /\ NoBlank # i)
             /\ g[i + 1] = g[i] + Len(u) + Gap(NoBlank, i)
             /\ Holds(s, g[i], u)
      BY ONLY <1>1, <1>2 DEF LaidAt
    <2>3. IsCode(u, items[i], i = m /\ FALSE /\ m # i)
      BY ONLY <2>2, Zenon DEF IsCode
    <2>4. Len(u) \in Nat /\ f[i] \in Nat /\ f[i] = g[i] /\ g[i + 1] = f[i] + Len(u)
      BY ONLY <2>1, <2>2, <1>4, <1>9, u \in Seq(Int)
    <2>5. f[i + 1] = f[i] + Len(u) + Gap(m, i)
      <3>1. CASE i = m
        BY ONLY <3>1, <2>1, <2>4, <1>3, <1>4, <1>5, <1>9
      <3>2. CASE i # m
        <4>1. i + 1 \in (k + 1)..m
          BY ONLY <3>2, <2>1, <1>3
        <4>. QED  BY ONLY <3>2, <4>1, <2>1, <2>4, <1>4, <1>9
      <3>. QED  BY ONLY <3>1, <3>2
    <2>6. f[i] + Len(u) <= Len(s) /\ Len(s) <= Len(t)
      BY ONLY <2>1, <2>4, <1>3, <1>5, <1>7, <1>9
    <2>7. Holds(t, f[i], u)
      BY ONLY <2>2, <2>4, <2>6, <1>7, HoldsMore, s \in Seq(Int), SMTT(20)
    <2>. QED  BY ONLY <2>3, <2>5, <2>7
  <1>15. t[f[m + 1]] = NEWLINE /\ Len(t) = f[m + 1]
    BY ONLY <1>7, <1>9
  <1>16. LaidAt(f, t, k, items, m, FALSE)
    BY ONLY <1>2, <1>11, <1>12, <1>13, <1>14, <1>15 DEF LaidAt
  <1>. QED  BY ONLY <1>2, <1>3, <1>6, <1>16, Zenon DEF Laid

\* A client that hangs up leaves the stream as it is.
LEMMA GrowHangup ==
    ASSUME NEW s, NEW items, NEW k, NEW bl, Laid(s, k, items, bl, FALSE)
    PROVE  Laid(s, k, items, bl, TRUE)
  <1>1. PICK g : LaidAt(g, s, k, items, bl, FALSE)
    BY Zenon DEF Laid
  <1>2. LaidAt(g, s, k, items, bl, TRUE)
    BY <1>1, Zenon DEF LaidAt, IsCode
  <1>. QED  BY <1>2, Zenon DEF Laid

-----------------------------------------------------------------------------
\* Reading from the part of a stream that has arrived.

Arrived(buf, s) ==
    /\ Len(buf) <= Len(s)
    /\ \A j \in 1..Len(buf) : buf[j] = s[j]
    /\ Eof => Len(buf) = Len(s)

Lead(gap) == IF gap = 1 THEN <<NEWLINE>> ELSE <<>>

\* The text of a line, with an empty line before it or not.
LEMMA LeadText ==
    ASSUME NEW buf \in Seq(Int), NEW gap \in {0, 1}, NEW t \in Seq(Int),
           gap + Len(t) <= Len(buf), gap = 1 => buf[1] = NEWLINE, Holds(buf, gap, t)
    PROVE  SubSeq(buf, 1, gap + Len(t)) = Lead(gap) \o t
  <1>1. PICK u : u = SubSeq(buf, 1, gap + Len(t))
    BY Zenon
  <1>2. u \in Seq(Int) /\ Len(u) = gap + Len(t) /\ \A i \in 1..(gap + Len(t)) : u[i] = buf[i]
    BY <1>1
  <1>3. PICK l : l = Lead(gap)
    BY Zenon
  <1>4. l \in Seq(Int) /\ Len(l) = gap /\ (gap = 1 => l[1] = NEWLINE)
    BY <1>3 DEF Lead, NEWLINE
  <1>5. PICK r : r = l \o t
    BY Zenon
  <1>6. Joins(r, l, t)
    BY ONLY <1>4, <1>5, t \in Seq(Int), Joined
  <1>7. r \in Seq(Int) /\ Len(r) = gap + Len(t)
    BY ONLY <1>4, <1>6 DEF Joins
  <1>8. ASSUME NEW i \in 1..(gap + Len(t)) PROVE u[i] = r[i]
    <2>1. CASE gap = 1 /\ i = 1
      <3>1. r[1] = l[1]
        BY ONLY <2>1, <1>4, <1>6 DEF Joins
      <3>. QED  BY ONLY <2>1, <3>1, <1>2, <1>4, <1>8, gap = 1 => buf[1] = NEWLINE
    <2>2. CASE ~(gap = 1 /\ i = 1)
      <3>1. PICK j : j = i - gap
        BY Zenon
      <3>2. j \in 1..Len(t) /\ i = gap + j
        BY ONLY <2>2, <3>1, gap \in {0, 1}, t \in Seq(Int), i \in 1..(gap + Len(t))
      <3>3. r[Len(l) + j] = t[j]
        BY ONLY <3>2, <1>6 DEF Joins
      <3>4. buf[gap + j] = t[j]
        BY ONLY <3>2, Holds(buf, gap, t) DEF Holds
      <3>. QED  BY ONLY <3>2, <3>3, <3>4, <1>2, <1>4, i \in 1..(gap + Len(t)), Zenon
    <2>. QED  BY ONLY <2>1, <2>2
  <1>9. u = r
    BY ONLY <1>2, <1>7, <1>8, SameSeq
  <1>. QED  BY ONLY <1>1, <1>3, <1>5, <1>9, Zenon

\* A line is read once all of it is there, or with the end of the stream.
LEMMA ReadsLine ==
    ASSUME NEW buf \in Seq(Int), NEW s \in Seq(Int), NEW v \in Sendable,
           NEW gap \in {0, 1}, NEW from \in {1, 2}, gap < from,
           NEW w \in Seq(Int), w = encode_line(v) \/ (w = Text(v) /\ Len(s) = gap + Len(w)),
           gap + Len(w) <= Len(s), gap = 1 => s[1] = NEWLINE, Holds(s, gap, w),
           Arrived(buf, s)
    PROVE  \/ Line(buf, from) = Short /\ ~Eof
           \/ /\ Line(buf, from) = [is |-> "pdu", e |-> LINES, v |-> Document(Text(v)).v,
                                   n |-> gap + Len(w)]
              /\ gap + Len(w) <= Len(buf)
  <1>1. PICK t : t = Text(v)
    BY Zenon
  <1>2. /\ t \in Seq(Int) /\ Len(t) \in Nat /\ Len(t) >= 1
        /\ \A i \in 1..Len(t) : t[i] \in Int /\ t[i] >= Printable
        /\ Document(t).ok
    BY <1>1, WireAssumption, SMTT(20) DEF Sendable
  <1>3. \A i \in 1..Len(t) : t[i] # NEWLINE
    BY ONLY <1>2 DEF NEWLINE, Printable
  <1>4. /\ Len(w) >= Len(t) /\ Len(w) \in Nat
        /\ \A i \in 1..Len(t) : w[i] = t[i]
        /\ w # t => Len(w) = Len(t) + 1 /\ w[Len(t) + 1] = NEWLINE
    <2>1. CASE w = t
      BY ONLY <2>1, <1>2
    <2>2. CASE w = Append(t, NEWLINE)
      BY ONLY <2>2, <1>2
    <2>. QED  BY ONLY <2>1, <2>2, <1>1, w = encode_line(v) \/ (w = Text(v) /\ Len(s) = gap + Len(w))
              DEF encode_line
  <1>5. Len(buf) \in Nat /\ Len(s) \in Nat
    OBVIOUS
  <1>6. ASSUME NEW i \in 1..Len(buf), i > gap /\ i <= gap + Len(t)
        PROVE  buf[i] = t[i - gap] /\ buf[i] # NEWLINE
    <2>1. PICK j : j = i - gap
      BY Zenon
    <2>2. j \in 1..Len(t) /\ j \in 1..Len(w) /\ i = gap + j
      BY ONLY <2>1, <1>2, <1>4, <1>6, gap \in {0, 1}, SMTT(20)
    <2>3. s[gap + j] = w[j]
      BY ONLY <2>2, Holds(s, gap, w), SMTT(20) DEF Holds
    <2>4. buf[i] = s[i]
      BY ONLY Arrived(buf, s), i \in 1..Len(buf) DEF Arrived
    <2>5. buf[i] = w[j]
      BY ONLY <2>2, <2>3, <2>4
    <2>6. w[j] = t[j] /\ t[j] # NEWLINE
      BY ONLY <2>2, <1>3, <1>4, Zenon
    <2>. QED  BY ONLY <2>1, <2>5, <2>6, Zenon
  <1>7. ASSUME gap + Len(t) <= Len(buf), NEW n
        PROVE  OfText(SubSeq(buf, 1, gap + Len(t)), n)
                 = [is |-> "pdu", e |-> LINES, v |-> Document(t).v, n |-> n]
    <2>1. Holds(buf, gap, t)
      <3>. SUFFICES ASSUME NEW j \in 1..Len(t) PROVE buf[gap + j] = t[j]
        BY DEF Holds
      <3>1. gap + j \in 1..Len(buf) /\ gap + j > gap /\ gap + j <= gap + Len(t) /\ (gap + j) - gap = j
        BY ONLY <1>2, <1>5, <1>7, gap \in {0, 1}, j \in 1..Len(t)
      <3>. QED  BY ONLY <3>1, <1>6
    <2>2. gap = 1 => buf[1] = NEWLINE
      <3>1. 1 \in 1..Len(buf)
        BY ONLY <1>2, <1>5, <1>7, gap \in {0, 1}
      <3>. QED  BY ONLY <3>1, Arrived(buf, s), gap = 1 => s[1] = NEWLINE DEF Arrived
    <2>3. SubSeq(buf, 1, gap + Len(t)) = Lead(gap) \o t
      BY ONLY <2>1, <2>2, <1>2, <1>7, LeadText, buf \in Seq(Int), gap \in {0, 1}, Zenon
    <2>4. Lead(gap) \in {<<>>, <<NEWLINE>>}
      BY DEF Lead
    <2>5. from_slice(Lead(gap) \o t) = Document(t)
      BY <2>4, <1>1, TextRead, Zenon
    <2>. QED  BY ONLY <2>3, <2>5, <1>2, Zenon DEF OfText
  <1>8. CASE w # t
    <2>1. w = encode_line(v)
      BY ONLY <1>1, <1>8, w = encode_line(v) \/ (w = Text(v) /\ Len(s) = gap + Len(w))
    <2>2. PICK p : p = gap + Len(t) + 1
      BY Zenon
    <2>3. p = gap + Len(w) /\ p - 1 = gap + Len(t) /\ p \in Nat /\ p > 1 /\ p >= from
      BY ONLY <2>2, <1>2, <1>4, <1>8, gap \in {0, 1}, from \in {1, 2}, SMTT(20)
    <2>4. CASE p <= Len(buf)
      <3>1. p \in from..Len(buf) /\ p \in 1..Len(buf) /\ Len(t) + 1 \in 1..Len(w)
            /\ p = gap + (Len(t) + 1)
        BY ONLY <2>2, <2>3, <2>4, <1>2, <1>4, <1>5, <1>8, gap \in {0, 1}, from \in {1, 2}, SMTT(20)
      <3>2. buf[p] = NEWLINE
        <4>1. s[gap + (Len(t) + 1)] = w[Len(t) + 1]
          BY ONLY <3>1, Holds(s, gap, w), SMTT(20) DEF Holds
        <4>. QED  BY ONLY <4>1, <3>1, <1>4, <1>8, Arrived(buf, s), Zenon DEF Arrived
      <3>3. ASSUME NEW j \in from..(p - 1) PROVE buf[j] # NEWLINE
        <4>1. PICK h : h = gap + Len(t)
          BY Zenon
        <4>2. p - 1 = h /\ p \in Nat /\ p > 1 /\ p <= Len(buf) /\ Len(buf) \in Nat
          BY ONLY <4>1, <2>3, <2>4, <1>5, Zenon
        <4>3. j \in 1..Len(buf) /\ j > gap /\ j <= h
          BY ONLY <4>2, gap \in {0, 1}, from \in {1, 2}, gap < from, j \in from..(p - 1)
        <4>. QED  BY ONLY <4>1, <4>3, <1>6, Zenon
      <3>4. Line(buf, from) = IF p = 1 THEN [is |-> "blank"] ELSE OfText(SubSeq(buf, 1, p - 1), p)
        BY ONLY <3>1, <3>2, <3>3, LineWhole, buf \in Seq(Int), from \in {1, 2}, Zenon
      <3>5. p # 1 /\ gap + Len(t) <= Len(buf)
        BY ONLY <2>3, <2>4, <1>2, <1>5, gap \in {0, 1}, SMTT(20)
      <3>. QED  BY ONLY <3>4, <3>5, <2>3, <2>4, <1>1, <1>7
    <2>5. CASE ~(p <= Len(buf))
      <3>1. ~Eof
        BY ONLY <2>3, <2>5, <1>5, Arrived(buf, s), gap + Len(w) <= Len(s) DEF Arrived
      <3>2. ASSUME NEW j \in from..Len(buf) PROVE buf[j] # NEWLINE
        <4>1. j \in 1..Len(buf) /\ j > gap /\ j <= gap + Len(t)
          BY ONLY <2>3, <2>5, <1>2, <1>5, gap \in {0, 1}, from \in {1, 2}, gap < from,
                  j \in from..Len(buf), SMTT(20)
        <4>. QED  BY ONLY <4>1, <1>6
      <3>. QED  BY ONLY <3>1, <3>2, LineOpen, buf \in Seq(Int), from \in {1, 2}
    <2>. QED  BY ONLY <2>4, <2>5
  <1>9. CASE w = t
    <2>1. Len(s) = gap + Len(t)
      <3>1. w # encode_line(v)
        BY <1>1, <1>2, <1>9 DEF encode_line
      <3>. QED  BY ONLY <3>1, <1>9, w = encode_line(v) \/ (w = Text(v) /\ Len(s) = gap + Len(w))
    <2>2. Len(buf) <= gap + Len(t)
      BY ONLY <2>1, Arrived(buf, s) DEF Arrived
    <2>3. ASSUME NEW j \in from..Len(buf) PROVE buf[j] # NEWLINE
      <3>1. j \in 1..Len(buf) /\ j > gap /\ j <= gap + Len(t)
        BY ONLY <2>2, <1>2, <1>5, gap \in {0, 1}, from \in {1, 2}, gap < from, j \in from..Len(buf)
      <3>. QED  BY ONLY <3>1, <1>6
    <2>4. CASE ~Eof
      BY ONLY <2>3, <2>4, LineOpen, buf \in Seq(Int), from \in {1, 2}
    <2>5. CASE Eof
      <3>1. Len(buf) = gap + Len(t)
        BY ONLY <2>1, <2>5, Arrived(buf, s) DEF Arrived
      <3>2. Len(buf) \in 1..Len(buf) /\ Len(buf) > gap /\ Len(buf) <= gap + Len(t) /\ buf # <<>>
        BY ONLY <3>1, <1>2, <1>5, gap \in {0, 1}, buf \in Seq(Int)
      <3>3. buf[Len(buf)] # NEWLINE
        BY ONLY <3>2, <1>6
      <3>4. Line(buf, from) = OfText(buf, Len(buf))
        BY ONLY <2>3, <2>5, <3>2, <3>3, LineOpen, buf \in Seq(Int), from \in {1, 2}
      <3>5. SubSeq(buf, 1, gap + Len(t)) = buf
        BY ONLY <3>1, buf \in Seq(Int)
      <3>6. gap + Len(t) <= Len(buf)
        BY ONLY <3>1, <1>5
      <3>. QED  BY ONLY <3>1, <3>4, <3>5, <3>6, <1>1, <1>7, <1>9, Zenon
    <2>. QED  BY ONLY <2>4, <2>5
  <1>. QED  BY ONLY <1>8, <1>9

\* Every set of numbers that is not empty has a least element.
LEMMA LeastNumber ==
    ASSUME NEW S \in SUBSET Nat, S # {}
    PROVE  \E n \in S : \A m \in S : n <= m
  <1>. DEFINE R == {ss \in Nat \X Nat : ss[1] < ss[2]}
  <1>1. IsWellFoundedOn(R, Nat)
    BY NatLessThanWellFounded DEF OpToRel
  <1>2. PICK n \in S : \A m \in S : <<m, n>> \notin R
    <2>. HIDE DEF R
    <2>. QED  BY <1>1, WFMin, Zenon
  <1>3. ASSUME NEW m \in S PROVE n <= m
    <2>1. m \in Nat /\ n \in Nat /\ ~(m < n)
      BY <1>2, Zenon
    <2>. QED  BY <2>1
  <1>. QED  BY <1>3

\* A PDU of the client has at least one byte.
LEMMA PduNotEmpty ==
    ASSUME NEW v \in Sendable, NEW e \in {1, 2}
    PROVE  LET w == encode_pdu(v, e)
           IN  /\ w # <<>> /\ w[1] = 0 /\ w[2] = e
               /\ Len(w) \in Nat /\ Len(w) >= 2 /\ Len(w) >= Len(Header(e))
  <1>1. PICK w : w = encode_pdu(v, e)
    BY Zenon
  <1>2. PICK tag : tag \in Fits(Len(WriteValue(v))) /\ Bser(w, v, e, tag)
    BY <1>1, EncodeShape
  <1>3. w[1] = 0 /\ w[2] = e /\ w \in Seq(Int)
    BY ONLY <1>2 DEF Bser
  <1>4. Len(WriteValue(v)) \in Nat
    BY WireAssumption DEF Sendable
  <1>5. tag \in 3..6 /\ Width[tag] \in Widths /\ Len(Header(e)) \in {2, 6}
    BY <1>2, WidthType, HeaderLen, SMTT(20) DEF Fits
  <1>6. Len(w) = Len(Header(e)) + 1 + Width[tag] + Len(WriteValue(v))
    BY ONLY <1>2 DEF Bser
  <1>7. Len(w) \in Nat /\ Len(w) >= 2 /\ Len(w) >= Len(Header(e))
    BY ONLY <1>4, <1>5, <1>6, SMTT(20) DEF Widths
  <1>8. w # <<>>
    BY ONLY <1>7
  <1>. QED  BY ONLY <1>1, <1>3, <1>7, <1>8

\* BSER where a line should start is refused, at the latest at the end of the
\* stream.
LEMMA BserInLine ==
    ASSUME NEW buf \in Seq(Int), NEW s \in Seq(Int), NEW v \in Sendable, NEW e \in {1, 2},
           NEW gap \in {0, 1}, NEW from \in {1, 2}, from = gap + 1,
           NEW w \in Seq(Int), w = encode_pdu(v, e),
           gap + Len(w) <= Len(s), gap = 1 => s[1] = NEWLINE, Holds(s, gap, w),
           Arrived(buf, s)
    PROVE  (Line(buf, from) = Short /\ ~Eof) \/ Line(buf, from) = Failure
  <1>1. Len(w) \in Nat /\ Len(w) >= 1 /\ w[1] = 0
    <2>1. Len(w) \in Nat /\ Len(w) >= 2 /\ w[1] = 0
      BY ONLY PduNotEmpty, w = encode_pdu(v, e), v \in Sendable, e \in {1, 2}
    <2>. QED  BY ONLY <2>1
  <1>2. Len(buf) \in Nat /\ Len(s) \in Nat
    OBVIOUS
  <1>3. Len(buf) >= from => buf[from] = 0
    <2>. SUFFICES ASSUME Len(buf) >= from PROVE buf[from] = 0
      OBVIOUS
    <2>1. 1 \in 1..Len(w) /\ from \in 1..Len(buf)
      BY ONLY <1>1, <1>2, from \in {1, 2}, Len(buf) >= from
    <2>2. s[gap + 1] = w[1]
      BY ONLY <2>1, Holds(s, gap, w) DEF Holds
    <2>. QED  BY ONLY <2>1, <2>2, <1>1, Arrived(buf, s), from = gap + 1, SMTT(20) DEF Arrived
  <1>4. gap = 1 /\ Len(buf) >= 1 => buf[1] = NEWLINE
    BY ONLY <1>2, Arrived(buf, s), gap = 1 => s[1] = NEWLINE DEF Arrived
  <1>5. ASSUME NEW text \in Seq(Int), Len(text) >= from, Len(text) <= Len(buf),
               \A i \in 1..Len(text) : text[i] = buf[i], NEW n
        PROVE  OfText(text, n) = Failure
    <2>1. text # <<>> /\ from \in 1..Len(text) /\ 1 \in 1..Len(text) /\ Len(buf) >= from /\ Len(buf) >= 1
      BY ONLY <1>2, <1>5, from \in {1, 2}
    <2>2. text[from] = 0 /\ (gap = 1 => text[1] = NEWLINE)
      BY ONLY <2>1, <1>3, <1>4, <1>5, SMTT(20)
    <2>3. text[1] = 0 \/ (Len(text) >= 2 /\ text[1] = NEWLINE /\ text[2] = 0)
      <3>1. CASE gap = 0
        BY ONLY <3>1, <2>2, from = gap + 1
      <3>2. CASE gap = 1
        BY ONLY <3>2, <2>2, from = gap + 1, Len(text) >= from
      <3>. QED  BY ONLY <3>1, <3>2, gap \in {0, 1}
    <2>. QED  BY ONLY <2>1, <2>3, <1>5, BserText
  <1>6. CASE \E j \in from..Len(buf) : buf[j] = NEWLINE
    <2>1. PICK ends : ends = {j \in from..Len(buf) : buf[j] = NEWLINE}
      BY Zenon
    <2>2. ends \in SUBSET Nat /\ ends # {}
      <3>1. from..Len(buf) \subseteq Nat
        BY ONLY <1>2, from \in {1, 2}
      <3>. QED  BY ONLY <2>1, <3>1, <1>6, Zenon
    <2>3. PICK p \in ends : \A j \in ends : p <= j
      BY ONLY <2>2, LeastNumber, Zenon
    <2>4. p \in from..Len(buf) /\ buf[p] = NEWLINE
      BY ONLY <2>1, p \in ends
    <2>5. \A j \in from..(p - 1) : buf[j] # NEWLINE
      BY ONLY <2>1, <2>3, <2>4, <1>2, from \in {1, 2}
    <2>6. p # from
      BY ONLY <2>4, <1>2, <1>3, from \in {1, 2} DEF NEWLINE
    <2>7. Line(buf, from) = IF p = 1 THEN [is |-> "blank"] ELSE OfText(SubSeq(buf, 1, p - 1), p)
      BY ONLY <2>4, <2>5, LineWhole, buf \in Seq(Int), from \in {1, 2}
    <2>8. PICK text : text = SubSeq(buf, 1, p - 1)
      BY Zenon
    <2>9. /\ text \in Seq(Int) /\ Len(text) = p - 1 /\ \A i \in 1..(p - 1) : text[i] = buf[i]
      BY ONLY <2>4, <2>8, <1>2, buf \in Seq(Int), from \in {1, 2}
    <2>10. p # 1 /\ Len(text) >= from /\ Len(text) <= Len(buf)
      BY ONLY <2>4, <2>6, <2>9, <1>2, from \in {1, 2}
    <2>11. OfText(text, p) = Failure
      BY ONLY <2>9, <2>10, <1>5, Zenon
    <2>. QED  BY ONLY <2>7, <2>8, <2>10, <2>11
  <1>7. CASE \A j \in from..Len(buf) : buf[j] # NEWLINE
    <2>1. CASE ~Eof
      BY ONLY <2>1, <1>7, LineOpen, buf \in Seq(Int), from \in {1, 2}
    <2>2. CASE Eof
      <3>1. Len(buf) >= from
        BY ONLY <2>2, <1>1, <1>2, Arrived(buf, s), gap + Len(w) <= Len(s), from = gap + 1,
                gap \in {0, 1} DEF Arrived
      <3>2. Len(buf) \in from..Len(buf) /\ buf # <<>> /\ Len(buf) <= Len(buf)
        BY ONLY <3>1, <1>2, buf \in Seq(Int), from \in {1, 2}
      <3>3. Line(buf, from) = OfText(buf, Len(buf))
        BY ONLY <2>2, <3>2, <1>7, LineOpen, buf \in Seq(Int), from \in {1, 2}, Zenon
      <3>. QED  BY ONLY <3>1, <3>2, <3>3, <1>5, buf \in Seq(Int), Zenon
    <2>. QED  BY ONLY <2>1, <2>2
  <1>. QED  BY ONLY <1>6, <1>7

-----------------------------------------------------------------------------
\* The inductive invariant.

\* What a PDU is once read.
Value(x) == IF x.e = LINES THEN Document(Text(x.v)).v ELSE Canon(x.v)

Stream == buffer \o flying

\* The reader stands between two PDUs of the stream, and a session has the
\* encoding of its first.
WireType ==
    /\ sent \in Seq(Items) /\ blank \in Blanks(sent) /\ hungup \in BOOLEAN
    /\ flying \in Seq(Int) /\ buffer \in Seq(Int)
    /\ got \in Seq({Value(x) : x \in Items})

WireInv ==
    /\ WireType
    /\ Laid(Stream, Len(got), sent, blank, hungup)
    /\ \A i \in 1..Len(sent) : i <= blank => sent[i].e = LINES
    /\ state = "first" => got = <<>>
    /\ state = "open" => got # <<>> /\ encoding = sent[1].e
    /\ InOrder /\ AllDelivered

\* The PDU that a reader takes off the buffer is the next of the stream.
Takes(f, k) ==
    /\ k < Len(sent)
    /\ \E n \in 0..Len(buffer) :
         /\ f = [is |-> "pdu", e |-> sent[k + 1].e, v |-> Value(sent[k + 1]), n |-> n]
         /\ Laid(From(Stream, n), k + 1, sent, blank, hungup)

\* The type of the stream; what has arrived is its beginning.
LEMMA StreamIs ==
    ASSUME WireType
    PROVE  Stream \in Seq(Int) /\ Arrived(buffer, Stream) /\ Len(Stream) \in Nat
           /\ Len(buffer) \in Nat
  <1>1. Joins(Stream, buffer, flying)
    BY Joined DEF WireType, Stream
  <1>2. Len(buffer) \in Nat /\ Len(flying) \in Nat
    BY DEF WireType
  <1>3. Eof => Len(flying) = 0
    BY DEF Eof
  <1>. QED  BY <1>1, <1>2, <1>3 DEF Joins, Arrived

\* What the stream starts with when a PDU is left.
Ahead(w, k) ==
    LET s == Stream
        gap == Gap(blank, k)
    IN  /\ IsCode(w, sent[k + 1], k + 1 = Len(sent) /\ hungup /\ blank # k + 1)
        /\ gap + Len(w) <= Len(s)
        /\ gap = 1 => s[1] = NEWLINE
        /\ Holds(s, gap, w)
        /\ k + 1 = Len(sent) => Len(s) = gap + Len(w) + Gap(blank, k + 1)
        /\ Laid(From(s, gap + Len(w)), k + 1, sent, blank, hungup)

\* When a PDU is still to come, its bytes are next in the stream.
LEMMA AheadIs ==
    ASSUME WireInv, Len(got) < Len(sent)
    PROVE  \E w \in Seq(Int) : Ahead(w, Len(got))
  <1>1. PICK k : k = Len(got)
    BY Zenon
  <1>3. k \in Nat
    BY <1>1 DEF WireInv, WireType
  <1>4. PICK s : s = Stream
    BY Zenon
  <1>5. /\ s \in Seq(Int) /\ sent \in Seq(Items) /\ k < Len(sent) /\ blank \in Blanks(sent)
        /\ hungup \in BOOLEAN /\ Laid(s, k, sent, blank, hungup)
    BY <1>1, <1>4, StreamIs DEF WireInv, WireType
  <1>6. PICK w \in Seq(Int) :
              /\ IsCode(w, sent[k + 1], k + 1 = Len(sent) /\ hungup /\ blank # k + 1)
              /\ Gap(blank, k) + Len(w) <= Len(s)
              /\ blank = k => s[1] = NEWLINE
              /\ Holds(s, Gap(blank, k), w)
              /\ k + 1 = Len(sent) => Len(s) = Gap(blank, k) + Len(w) + Gap(blank, k + 1)
              /\ Laid(From(s, Gap(blank, k) + Len(w)), k + 1, sent, blank, hungup)
    BY ONLY <1>3, <1>5, NextItem
  <1>7. Gap(blank, k) = 1 => blank = k
    BY DEF Gap
  <1>8. Ahead(w, k)
    BY ONLY <1>4, <1>6, <1>7 DEF Ahead
  <1>. QED  BY ONLY <1>1, <1>8

\* When none is, nothing is left but an empty line.
LEMMA NothingAhead ==
    ASSUME WireInv, ~(Len(got) < Len(sent))
    PROVE  /\ Len(got) = Len(sent) /\ Len(Stream) = Gap(blank, Len(got))
           /\ blank = Len(got) => Stream[1] = NEWLINE
  <1>1. PICK k : k = Len(got)
    BY Zenon
  <1>2. PICK g : LaidAt(g, Stream, k, sent, blank, hungup)
    BY <1>1 DEF WireInv, Laid
  <1>3. k \in Nat /\ k = Len(sent)
    BY <1>1 DEF WireInv, WireType, Laid
  <1>4. g[k + 1] = Gap(blank, k) /\ Len(Stream) = g[k + 1]
        /\ (blank \in k..k => Stream[g[blank + 1]] = NEWLINE)
    BY ONLY <1>2, <1>3 DEF LaidAt
  <1>5. blank = k => blank \in k..k /\ g[blank + 1] = 1
    BY ONLY <1>3, <1>4, SMTT(20) DEF Gap
  <1>. QED  BY ONLY <1>1, <1>3, <1>4, <1>5

\* The next PDU, in BSER and not behind an empty line.
LEMMA AheadBser ==
    ASSUME WireType, NEW k \in Nat, k < Len(sent), NEW w \in Seq(Int), Ahead(w, k),
           sent[k + 1].e # LINES
    PROVE  /\ sent[k + 1].e \in {1, 2} /\ sent[k + 1].v \in Sendable
           /\ w = encode_pdu(sent[k + 1].v, sent[k + 1].e)
           /\ blank # k => Agrees(buffer, w)
           /\ Len(w) <= Len(Stream)
  <1>1. PICK x : x = sent[k + 1]
    BY Zenon
  <1>2. x \in Items
    BY <1>1 DEF WireType
  <1>3. x.e \in {1, 2} /\ x.v \in Sendable
    BY <1>1, <1>2 DEF Items, Encodings, LINES
  <1>4. w = encode_pdu(x.v, x.e)
    BY <1>1 DEF Ahead, IsCode, Code
  <1>5. Gap(blank, k) \in {0, 1} /\ (blank # k => Gap(blank, k) = 0)
    BY DEF Gap
  <1>6. Len(w) <= Len(Stream) /\ Holds(Stream, Gap(blank, k), w)
    BY <1>5, StreamIs DEF Ahead
  <1>7. blank # k => Agrees(buffer, w)
    <2>. SUFFICES ASSUME blank # k, NEW i \in 1..Len(buffer), i <= Len(w) PROVE buffer[i] = w[i]
      BY DEF Agrees
    <2>1. i \in 1..Len(w) /\ 0 + i = i
      BY StreamIs
    <2>2. Stream[0 + i] = w[i]
      BY ONLY <2>1, <1>5, <1>6, blank # k DEF Holds
    <2>. QED  BY ONLY <2>1, <2>2, StreamIs, WireType, i \in 1..Len(buffer) DEF Arrived
  <1>. QED  BY ONLY <1>1, <1>3, <1>4, <1>6, <1>7

\* It is read as it was written, or not all of it has arrived.
LEMMA AheadFrame ==
    ASSUME WireType, NEW k \in Nat, k < Len(sent), NEW w \in Seq(Int), Ahead(w, k),
           sent[k + 1].e # LINES, blank # k
    PROVE  \/ Len(buffer) < Len(w) /\ Frame(buffer) = Short /\ ~Eof
           \/ Len(buffer) >= Len(w) /\ Takes(Frame(buffer), k)
  <1>1. PICK x : x = sent[k + 1]
    BY Zenon
  <1>2. /\ x.e \in {1, 2} /\ x.v \in Sendable /\ w = encode_pdu(x.v, x.e)
        /\ Agrees(buffer, w) /\ Len(w) <= Len(Stream)
    BY <1>1, AheadBser
  <1>3. buffer \in Seq(Int) /\ Len(buffer) \in Nat /\ Len(w) \in Nat
    BY SMTT(20) DEF WireType
  <1>4. /\ Len(buffer) >= Len(w)
               => Frame(buffer) = [is |-> "pdu", e |-> x.e, v |-> Canon(x.v), n |-> Len(w)]
        /\ Len(buffer) < Len(w) => Frame(buffer) = Short
    BY ONLY <1>2, <1>3, Framed
  <1>5. CASE Len(buffer) < Len(w)
    <2>1. ~Eof
      BY <1>2, <1>3, <1>5, StreamIs DEF Arrived
    <2>. QED  BY <2>1, <1>4, <1>5
  <1>6. CASE Len(buffer) >= Len(w)
    <2>1. Value(x) = Canon(x.v)
      BY <1>1 DEF Value
    <2>2. Gap(blank, k) = 0
      BY DEF Gap
    <2>3. Laid(From(Stream, 0 + Len(w)), k + 1, sent, blank, hungup)
      BY ONLY <2>2, Ahead(w, k) DEF Ahead
    <2>4. Len(w) \in 0..Len(buffer) /\ 0 + Len(w) = Len(w)
      BY ONLY <1>3, <1>6
    <2>5. Frame(buffer) = [is |-> "pdu", e |-> x.e, v |-> Value(x), n |-> Len(w)]
      BY ONLY <2>1, <1>4, <1>6, SMTT(20)
    <2>6. Takes(Frame(buffer), k)
      BY ONLY <2>3, <2>4, <2>5, <1>1, k < Len(sent) DEF Takes
    <2>. QED  BY <2>6, <1>6
  <1>. QED  BY ONLY <1>3, <1>5, <1>6

\* A line where a line is expected.
LEMMA AheadLine ==
    ASSUME WireType, NEW k \in Nat, k < Len(sent), NEW w \in Seq(Int), Ahead(w, k),
           sent[k + 1].e = LINES, NEW from \in {1, 2}, blank = k => from = 2
    PROVE  (Line(buffer, from) = Short /\ ~Eof) \/ Takes(Line(buffer, from), k)
  <1>1. PICK x : x = sent[k + 1]
    BY Zenon
  <1>2. x \in Items
    BY <1>1 DEF WireType
  <1>3. x.v \in Sendable /\ x.e = LINES
    BY <1>1, <1>2 DEF Items
  <1>4. PICK s : s = Stream
    BY Zenon
  <1>5. s \in Seq(Int) /\ Arrived(buffer, s) /\ buffer \in Seq(Int)
    BY <1>4, StreamIs DEF WireType
  <1>6. PICK gap : gap = Gap(blank, k)
    BY Zenon
  <1>7. gap \in {0, 1} /\ gap < from /\ (gap = 1 => blank = k)
    BY <1>6 DEF Gap
  <1>8. /\ gap + Len(w) <= Len(s) /\ (gap = 1 => s[1] = NEWLINE) /\ Holds(s, gap, w)
        /\ Laid(From(s, gap + Len(w)), k + 1, sent, blank, hungup)
    BY ONLY <1>4, <1>6, Ahead(w, k) DEF Ahead
  <1>9. w = encode_line(x.v) \/ (w = Text(x.v) /\ Len(s) = gap + Len(w))
    <2>1. CASE w = Code(x)
      BY ONLY <2>1, <1>3 DEF Code
    <2>2. CASE w = Text(x.v) /\ k + 1 = Len(sent) /\ blank # k + 1
      <3>1. Gap(blank, k + 1) = 0
        BY <2>2 DEF Gap
      <3>2. Len(s) = gap + Len(w) + 0
        BY ONLY <2>2, <3>1, <1>4, <1>6, Ahead(w, k), SMTT(20) DEF Ahead
      <3>. QED  BY ONLY <2>2, <3>2, <1>7, w \in Seq(Int)
    <2>. QED  BY ONLY <2>1, <2>2, <1>1, Ahead(w, k), Zenon DEF Ahead, IsCode
  <1>10. \/ Line(buffer, from) = Short /\ ~Eof
         \/ /\ Line(buffer, from) = [is |-> "pdu", e |-> LINES, v |-> Document(Text(x.v)).v,
                                    n |-> gap + Len(w)]
            /\ gap + Len(w) <= Len(buffer)
    <2>1. PICK v : v = x.v
      BY Zenon
    <2>. QED  BY ONLY <2>1, <1>3, <1>5, <1>7, <1>8, <1>9, ReadsLine, from \in {1, 2}, w \in Seq(Int), SMTT(20)
  <1>11. ASSUME Line(buffer, from) = [is |-> "pdu", e |-> LINES, v |-> Document(Text(x.v)).v,
                                     n |-> gap + Len(w)],
                gap + Len(w) <= Len(buffer)
         PROVE  Takes(Line(buffer, from), k)
    <2>1. Value(x) = Document(Text(x.v)).v
      BY <1>3 DEF Value
    <2>2. gap + Len(w) \in 0..Len(buffer)
      BY ONLY <1>5, <1>7, <1>11, w \in Seq(Int)
    <2>3. Line(buffer, from) = [is |-> "pdu", e |-> x.e, v |-> Value(x), n |-> gap + Len(w)]
      BY ONLY <2>1, <1>3, <1>11
    <2>. QED  BY ONLY <2>2, <2>3, <1>1, <1>4, <1>8, k < Len(sent) DEF Takes
  <1>. QED  BY ONLY <1>10, <1>11

\* BSER where a line is expected.
LEMMA AheadWrong ==
    ASSUME WireType, NEW k \in Nat, k < Len(sent), NEW w \in Seq(Int), Ahead(w, k),
           sent[k + 1].e # LINES, NEW from \in {1, 2}, from = Gap(blank, k) + 1
    PROVE  (Line(buffer, from) = Short /\ ~Eof) \/ Line(buffer, from) = Failure
  <1>1. PICK x : x = sent[k + 1]
    BY Zenon
  <1>2. x.e \in {1, 2} /\ x.v \in Sendable /\ w = encode_pdu(x.v, x.e)
    BY <1>1, AheadBser
  <1>3. PICK s : s = Stream
    BY Zenon
  <1>4. s \in Seq(Int) /\ Arrived(buffer, s) /\ buffer \in Seq(Int)
    BY <1>3, StreamIs DEF WireType
  <1>5. PICK gap : gap = Gap(blank, k)
    BY Zenon
  <1>6. gap \in {0, 1} /\ from = gap + 1
    BY <1>5 DEF Gap
  <1>7. gap + Len(w) <= Len(s) /\ (gap = 1 => s[1] = NEWLINE) /\ Holds(s, gap, w)
    BY ONLY <1>3, <1>5, Ahead(w, k) DEF Ahead
  <1>. QED  BY ONLY <1>2, <1>4, <1>6, <1>7, BserInLine, from \in {1, 2}, w \in Seq(Int)

\* The first byte of the next PDU, once it has arrived.
LEMMA AheadByte ==
    ASSUME WireType, NEW k \in Nat, k < Len(sent), NEW w \in Seq(Int), Ahead(w, k)
    PROVE  /\ Len(Stream) > 0
           /\ buffer # <<>> /\ blank = k => buffer[1] = NEWLINE
           /\ buffer # <<>> /\ blank # k /\ sent[k + 1].e = LINES => buffer[1] # 0 /\ buffer[1] # NEWLINE
           /\ buffer # <<>> /\ blank # k /\ sent[k + 1].e # LINES => buffer[1] = 0
  <1>1. PICK x : x = sent[k + 1]
    BY Zenon
  <1>2. x \in Items /\ x.v \in Sendable
    <2>1. x \in Items
      BY <1>1 DEF WireType
    <2>. QED  BY ONLY <2>1 DEF Items
  <1>3. w # <<>> /\ (x.e = LINES => w[1] >= Printable /\ w[1] \in Int) /\ (x.e # LINES => w[1] = 0)
    <2>1. CASE x.e = LINES
      <3>1. PICK t : t = Text(x.v)
        BY Zenon
      <3>2. t \in Seq(Int) /\ t # <<>> /\ t[1] \in Int /\ t[1] >= Printable
        BY <3>1, <1>2, WireAssumption DEF Sendable
      <3>3. w = t \/ w = Append(t, NEWLINE)
        BY <2>1, <3>1, <1>1 DEF Ahead, IsCode, Code, encode_line
      <3>4. w # <<>> /\ w[1] = t[1]
        BY ONLY <3>2, <3>3
      <3>. QED  BY ONLY <2>1, <3>2, <3>4
    <2>2. CASE x.e # LINES
      <3>1. x.e \in {1, 2} /\ w = encode_pdu(x.v, x.e)
        BY <2>2, <1>1, AheadBser
      <3>2. w # <<>> /\ w[1] = 0
        BY ONLY <3>1, <1>2, PduNotEmpty
      <3>. QED  BY ONLY <2>2, <3>2, SMTT(20)
    <2>. QED  BY ONLY <2>1, <2>2
  <1>4. Len(w) \in Nat /\ Len(w) >= 1
    BY <1>3
  <1>5. Gap(blank, k) \in {0, 1} /\ (Gap(blank, k) = 1 <=> blank = k)
    BY DEF Gap
  <1>6. PICK s : s = Stream
    BY Zenon
  <1>7. /\ Gap(blank, k) + Len(w) <= Len(s) /\ (Gap(blank, k) = 1 => s[1] = NEWLINE)
        /\ Holds(s, Gap(blank, k), w)
    BY ONLY <1>6, Ahead(w, k) DEF Ahead
  <1>8. s \in Seq(Int) /\ Arrived(buffer, s) /\ buffer \in Seq(Int)
    BY <1>6, StreamIs DEF WireType
  <1>9. Len(s) > 0
    <2>1. PICK l, g : l = Len(w) /\ g = Gap(blank, k)
      BY Zenon
    <2>. QED  BY ONLY <2>1, <1>4, <1>5, <1>7, <1>8
  <1>10. buffer # <<>> => buffer[1] = s[1]
    <2>1. buffer # <<>> => 1 \in 1..Len(buffer)
      BY ONLY <1>8
    <2>. QED  BY ONLY <2>1, <1>8 DEF Arrived
  <1>11. blank # k => s[0 + 1] = w[1]
    <2>1. 1 \in 1..Len(w) /\ (blank # k => Gap(blank, k) = 0)
      BY ONLY <1>4, <1>5
    <2>. QED  BY ONLY <2>1, <1>7 DEF Holds
  <1>12. x.e = LINES => w[1] # 0 /\ w[1] # NEWLINE
    BY ONLY <1>3 DEF Printable, NEWLINE
  <1>13. blank # k => s[1] = w[1]
    BY ONLY <1>11
  <1>. QED  BY ONLY <1>1, <1>3, <1>5, <1>6, <1>7, <1>9, <1>10, <1>12, <1>13

-----------------------------------------------------------------------------
\* What the two readers make of the buffer.

\* read_first_pdu takes the first PDU, also behind an empty line; it fails only
\* when BSER, or nothing, follows an empty line.
LEMMA FirstRead ==
    ASSUME WireInv, got = <<>>
    PROVE  \/ First(buffer) = Short /\ (Eof => buffer = <<>> /\ sent = <<>>)
           \/ First(buffer) = [is |-> "blank"] /\ blank = 0 /\ sent = <<>>
           \/ First(buffer) = Failure /\ blank = 0 /\ sent # <<>> /\ sent[1].e # LINES
           \/ Takes(First(buffer), 0)
  <1>1. WireType /\ 0 \in Nat /\ Len(got) = 0 /\ 0 + 1 = 1
    BY DEF WireInv
  <1>2. sent \in Seq(Items) /\ buffer \in Seq(Int)
    BY <1>1 DEF WireType
  <1>3. buffer = <<>> => First(buffer) = Short
    <2>1. ~(Len(<<>>) >= 1)
      OBVIOUS
    <2>. QED  BY <2>1, Nothing, Zenon DEF First, need
  <1>4. buffer # <<>> => First(buffer) = IF buffer[1] # 0 THEN Line(buffer, 2) ELSE Frame(buffer)
    <2>1. buffer # <<>> => Len(buffer) >= 1
      BY ONLY <1>2
    <2>. QED  BY ONLY <2>1, Zenon DEF First, need
  <1>5. NEWLINE # 0 /\ NEWLINE \in Int
    BY DEF NEWLINE
  <1>6. CASE ~(0 < Len(sent))
    <2>1. Len(Stream) = Gap(blank, 0) /\ (blank = 0 => Stream[1] = NEWLINE) /\ sent = <<>>
      BY <1>1, <1>2, <1>6, NothingAhead
    <2>2. Arrived(buffer, Stream) /\ Len(buffer) \in Nat
      BY <1>1, StreamIs
    <2>3. CASE buffer = <<>>
      BY <2>1, <2>3, <1>3
    <2>4. CASE buffer # <<>>
      <3>1. blank = 0 /\ Len(buffer) = 1 /\ buffer[1] = NEWLINE
        BY ONLY <2>1, <2>2, <2>4, <1>2 DEF Arrived, Gap
      <3>2. First(buffer) = Line(buffer, 2)
        BY ONLY <2>4, <3>1, <1>4, <1>5
      <3>3. buffer = <<NEWLINE>>
        BY ONLY <3>1, <1>2, <1>5
      <3>4. CASE Eof
        BY ONLY <2>1, <3>1, <3>2, <3>3, <3>4, LineLone
      <3>5. CASE ~Eof
        <4>1. \A j \in 2..Len(buffer) : buffer[j] # NEWLINE
          BY ONLY <3>1
        <4>2. 2 \in {1, 2}
          OBVIOUS
        <4>3. Line(buffer, 2) = Short
          BY ONLY <3>5, <4>1, <4>2, <1>2, LineOpen, SMTT(20)
        <4>. QED  BY ONLY <3>2, <3>5, <4>3
      <3>. QED  BY ONLY <3>4, <3>5
    <2>. QED  BY ONLY <2>3, <2>4
  <1>7. CASE 0 < Len(sent)
    <2>1. PICK w \in Seq(Int) : Ahead(w, 0)
      BY <1>1, <1>7, AheadIs
    <2>2. /\ Len(Stream) > 0
          /\ buffer # <<>> /\ blank = 0 => buffer[1] = NEWLINE
          /\ buffer # <<>> /\ blank # 0 /\ sent[1].e = LINES => buffer[1] # 0 /\ buffer[1] # NEWLINE
          /\ buffer # <<>> /\ blank # 0 /\ sent[1].e # LINES => buffer[1] = 0
      <3>1. PICK k : k = 0
        BY Zenon
      <3>2. k \in Nat /\ k < Len(sent) /\ Ahead(w, k) /\ k + 1 = 1
        BY ONLY <1>1, <1>7, <2>1, <3>1
      <3>3. /\ Len(Stream) > 0
            /\ buffer # <<>> /\ blank = k => buffer[1] = NEWLINE
            /\ buffer # <<>> /\ blank # k /\ sent[k + 1].e = LINES => buffer[1] # 0 /\ buffer[1] # NEWLINE
            /\ buffer # <<>> /\ blank # k /\ sent[k + 1].e # LINES => buffer[1] = 0
        BY ONLY <1>1, <3>2, AheadByte, w \in Seq(Int)
      <3>. QED  BY ONLY <3>1, <3>2, <3>3
    <2>3. sent # <<>>
      BY ONLY <1>7
    <2>4. CASE buffer = <<>>
      <3>1. ~Eof
        BY <2>2, <2>4, <1>1, StreamIs DEF Arrived
      <3>. QED  BY ONLY <2>4, <3>1, <1>3
    <2>5. CASE buffer # <<>> /\ blank # 0 /\ sent[1].e # LINES
      <3>1. First(buffer) = Frame(buffer)
        BY ONLY <2>2, <2>5, <1>4
      <3>2. (Frame(buffer) = Short /\ ~Eof) \/ Takes(Frame(buffer), 0)
        <4>1. PICK k : k = 0
          BY Zenon
        <4>2. k \in Nat /\ k < Len(sent) /\ Ahead(w, k) /\ sent[k + 1].e # LINES /\ blank # k
          BY ONLY <1>1, <1>7, <2>1, <2>5, <4>1
        <4>3. (Frame(buffer) = Short /\ ~Eof) \/ Takes(Frame(buffer), k)
          BY ONLY <1>1, <4>2, AheadFrame, w \in Seq(Int)
        <4>. QED  BY ONLY <4>1, <4>3
      <3>. QED  BY ONLY <3>1, <3>2
    <2>6. CASE buffer # <<>> /\ ~(blank # 0 /\ sent[1].e # LINES)
      <3>1. First(buffer) = Line(buffer, 2)
        BY ONLY <2>2, <2>6, <1>4, <1>5
      <3>2. CASE sent[1].e = LINES
        <4>1. PICK k : k = 0
          BY Zenon
        <4>2. k \in Nat /\ k < Len(sent) /\ Ahead(w, k) /\ sent[k + 1].e = LINES /\ 2 \in {1, 2}
          BY ONLY <1>1, <1>7, <2>1, <3>2, <4>1
        <4>3. (Line(buffer, 2) = Short /\ ~Eof) \/ Takes(Line(buffer, 2), k)
          BY ONLY <1>1, <4>2, AheadLine, w \in Seq(Int)
        <4>. QED  BY ONLY <4>1, <4>3, <3>1
      <3>3. CASE sent[1].e # LINES
        <4>1. PICK k : k = 0
          BY Zenon
        <4>2. k \in Nat /\ k < Len(sent) /\ Ahead(w, k) /\ sent[k + 1].e # LINES /\ 2 \in {1, 2}
          BY ONLY <1>1, <1>7, <2>1, <3>3, <4>1
        <4>3. blank = k /\ 2 = Gap(blank, k) + 1
          BY ONLY <2>6, <3>3, <4>1 DEF Gap
        <4>4. (Line(buffer, 2) = Short /\ ~Eof) \/ Line(buffer, 2) = Failure
          BY ONLY <1>1, <4>2, <4>3, AheadWrong, w \in Seq(Int)
        <4>. QED  BY ONLY <4>1, <4>3, <4>4, <3>1, <3>3, <2>3
      <3>. QED  BY ONLY <3>2, <3>3
    <2>. QED  BY ONLY <2>4, <2>5, <2>6
  <1>. QED  BY ONLY <1>6, <1>7

\* read_pdu takes the next PDU, ends the session at an empty line, and fails
\* only when the client changed encoding.
LEMMA NextRead ==
    ASSUME WireInv, state = "open", NEW k, k = Len(got)
    PROVE  \/ Following(buffer) = Short /\ (Eof => buffer = <<>> /\ k = Len(sent))
           \/ Following(buffer) = [is |-> "blank"] /\ blank = k
           \/ Following(buffer) = Failure /\ \E i \in DOMAIN sent : sent[i].e # sent[1].e
           \/ Takes(Following(buffer), k)
  <1>1. WireType /\ got # <<>> /\ encoding = sent[1].e
    BY DEF WireInv
  <1>2. /\ sent \in Seq(Items) /\ buffer \in Seq(Int) /\ k \in Nat /\ k >= 1 /\ k <= Len(sent)
        /\ Len(sent) \in Nat /\ Len(buffer) \in Nat
    BY <1>1 DEF WireType, WireInv, Laid
  <1>3. sent[1] \in Items /\ 1 \in 1..Len(sent)
    BY ONLY <1>2
  <1>4. encoding = LINES \/ encoding \in {1, 2}
    BY ONLY <1>1, <1>3 DEF Items, Encodings
  <1>5. LINES \notin {1, 2} /\ NEWLINE # 0
    BY DEF LINES, NEWLINE
  <1>6. blank = k => encoding = LINES
    BY ONLY WireInv, <1>1, <1>2, <1>3 DEF WireInv
  <1>7. encoding = LINES => Following(buffer) = Line(buffer, 1)
    BY Zenon DEF Following
  <1>8. ASSUME encoding # LINES
        PROVE  Following(buffer) =
                 IF /\ need(buffer, 2) /\ buffer[1] = 0 /\ buffer[2] # encoding
                    /\ need(buffer, Len(Header(buffer[2])))
                 THEN Failure ELSE Frame(buffer)
    BY ONLY <1>8, Zenon DEF Following
  <1>9. ASSUME buffer = <<>> PROVE Following(buffer) = Short
    <2>1. CASE encoding = LINES
      <3>1. \A j \in 1..Len(buffer) : buffer[j] # NEWLINE
        BY ONLY <1>9
      <3>2. 1 \in {1, 2}
        OBVIOUS
      <3>. QED  BY ONLY <2>1, <3>1, <3>2, <1>2, <1>7, <1>9, LineOpen, Zenon
    <2>2. CASE encoding # LINES
      <3>1. ~need(buffer, 2)
        BY ONLY <1>9 DEF need
      <3>. QED  BY ONLY <2>2, <3>1, <1>8, <1>9, Nothing
    <2>. QED  BY ONLY <2>1, <2>2
  <1>10. ASSUME buffer # <<>>, blank = k, buffer[1] = NEWLINE
         PROVE  Following(buffer) = [is |-> "blank"]
    <2>1. PICK p, from : p = 1 /\ from = 1
      BY Zenon
    <2>2. from \in {1, 2} /\ p \in from..Len(buffer) /\ buffer[p] = NEWLINE
          /\ \A j \in from..(p - 1) : buffer[j] # NEWLINE
      BY ONLY <2>1, <1>2, <1>10
    <2>3. Line(buffer, from) = IF p = 1 THEN [is |-> "blank"] ELSE OfText(SubSeq(buffer, 1, p - 1), p)
      BY ONLY <2>2, <1>2, LineWhole
    <2>. QED  BY ONLY <2>1, <2>3, <1>6, <1>7, <1>10
  <1>11. CASE ~(k < Len(sent))
    <2>1. k = Len(sent) /\ Len(Stream) = Gap(blank, k) /\ (blank = k => Stream[1] = NEWLINE)
      BY <1>11, NothingAhead
    <2>2. Arrived(buffer, Stream)
      BY <1>1, StreamIs
    <2>3. CASE buffer = <<>>
      BY ONLY <2>1, <2>3, <1>9
    <2>4. CASE buffer # <<>>
      <3>1. blank = k /\ buffer[1] = NEWLINE
        BY ONLY <2>1, <2>2, <2>4, <1>2, SMTT(20) DEF Arrived, Gap
      <3>. QED  BY ONLY <2>4, <3>1, <1>10
    <2>. QED  BY ONLY <2>3, <2>4
  <1>12. CASE k < Len(sent)
    <2>1. PICK w \in Seq(Int) : Ahead(w, k)
      BY <1>12, AheadIs
    <2>2. /\ Len(Stream) > 0
          /\ buffer # <<>> /\ blank = k => buffer[1] = NEWLINE
          /\ buffer # <<>> /\ blank # k /\ sent[k + 1].e = LINES => buffer[1] # 0 /\ buffer[1] # NEWLINE
          /\ buffer # <<>> /\ blank # k /\ sent[k + 1].e # LINES => buffer[1] = 0
      BY ONLY <1>1, <1>2, <1>12, <2>1, AheadByte
    <2>3. CASE buffer = <<>>
      <3>1. ~Eof
        BY <2>2, <2>3, <1>1, StreamIs DEF Arrived
      <3>. QED  BY ONLY <2>3, <3>1, <1>9
    <2>4. CASE buffer # <<>> /\ blank = k
      BY ONLY <2>2, <2>4, <1>10
    <2>5. ASSUME sent[k + 1].e # encoding PROVE \E i \in DOMAIN sent : sent[i].e # sent[1].e
      <3>1. k + 1 \in DOMAIN sent
        BY ONLY <1>2, <1>12
      <3>. QED  BY ONLY <2>5, <3>1, <1>1
    <2>6. CASE buffer # <<>> /\ blank # k /\ encoding = LINES
      <3>1. CASE sent[k + 1].e = LINES
        <4>1. 1 \in {1, 2}
          OBVIOUS
        <4>2. (Line(buffer, 1) = Short /\ ~Eof) \/ Takes(Line(buffer, 1), k)
          BY ONLY <1>1, <1>2, <1>12, <2>1, <2>6, <3>1, <4>1, AheadLine, SMTT(20)
        <4>. QED  BY ONLY <2>6, <4>2, <1>7
      <3>2. CASE sent[k + 1].e # LINES
        <4>1. 1 \in {1, 2} /\ 1 = Gap(blank, k) + 1
          BY ONLY <2>6 DEF Gap
        <4>2. (Line(buffer, 1) = Short /\ ~Eof) \/ Line(buffer, 1) = Failure
          BY ONLY <1>1, <1>2, <1>12, <2>1, <3>2, <4>1, AheadWrong, SMTT(20)
        <4>. QED  BY ONLY <2>5, <2>6, <3>2, <4>2, <1>7
      <3>. QED  BY ONLY <3>1, <3>2
    <2>7. CASE buffer # <<>> /\ blank # k /\ encoding # LINES /\ sent[k + 1].e = LINES
      <3>1. buffer[1] # 0
        BY ONLY <2>2, <2>7
      <3>2. Frame(buffer) = Failure
        BY ONLY <2>7, <3>1, <1>2, Foreign, SMTT(20)
      <3>. QED  BY ONLY <2>5, <2>7, <3>1, <3>2, <1>8
    <2>8. CASE buffer # <<>> /\ blank # k /\ encoding # LINES /\ sent[k + 1].e # LINES
      <3>1. \/ Len(buffer) < Len(w) /\ Frame(buffer) = Short /\ ~Eof
            \/ Len(buffer) >= Len(w) /\ Takes(Frame(buffer), k)
        BY ONLY <1>1, <1>2, <1>12, <2>1, <2>8, AheadFrame
      <3>2. PICK x : x = sent[k + 1]
        BY Zenon
      <3>3. x.e \in {1, 2} /\ x.v \in Sendable /\ w = encode_pdu(x.v, x.e) /\ Agrees(buffer, w)
        BY ONLY <3>2, <1>1, <1>2, <1>12, <2>1, <2>8, AheadBser
      <3>4. Len(w) \in Nat /\ Len(w) >= 2 /\ Len(w) >= Len(Header(x.e)) /\ w[1] = 0 /\ w[2] = x.e
        BY ONLY <3>3, PduNotEmpty
      <3>5. Len(buffer) >= 2 => buffer[1] = 0 /\ buffer[2] = x.e
        <4>1. Len(buffer) >= 2 => 1 \in 1..Len(buffer) /\ 2 \in 1..Len(buffer) /\ 1 <= Len(w) /\ 2 <= Len(w)
          BY ONLY <3>4, <1>2
        <4>. QED  BY ONLY <4>1, <3>3, <3>4 DEF Agrees
      <3>6. CASE x.e = encoding
        <4>1. Following(buffer) = Frame(buffer)
          BY ONLY <2>8, <3>5, <3>6, <1>8, SMTT(20) DEF need
        <4>. QED  BY ONLY <4>1, <3>1
      <3>7. CASE x.e # encoding
        <4>1. CASE Len(buffer) < Len(w)
          <5>1. Frame(buffer) = Short /\ ~Eof
            BY ONLY <4>1, <3>1, <3>4, <1>2
          <5>2. \E i \in DOMAIN sent : sent[i].e # sent[1].e
            BY ONLY <2>5, <3>2, <3>7
          <5>. QED  BY ONLY <5>1, <5>2, <2>8, <1>8
        <4>2. CASE Len(buffer) >= Len(w)
          <5>1. /\ need(buffer, 2) /\ buffer[1] = 0 /\ buffer[2] # encoding
                /\ need(buffer, Len(Header(buffer[2])))
            <6>1. Len(Header(x.e)) \in Nat
              BY ONLY <3>3, HeaderLen
            <6>2. Len(buffer) >= 2 /\ Len(buffer) >= Len(Header(x.e))
              BY ONLY <4>2, <6>1, <3>4, <1>2, SMTT(20)
            <6>. QED  BY ONLY <6>2, <3>5, <3>7 DEF need
          <5>2. Following(buffer) = Failure
            BY ONLY <2>8, <5>1, <1>8
          <5>. QED  BY ONLY <2>5, <5>2, <3>2, <3>7
        <4>. QED  BY ONLY <4>1, <4>2, <3>4, <1>2
      <3>. QED  BY ONLY <3>6, <3>7
    <2>. QED  BY ONLY <2>3, <2>4, <2>6, <2>7, <2>8
  <1>. QED  BY ONLY <1>11, <1>12

-----------------------------------------------------------------------------
\* Every step keeps the invariant.

\* Taking bytes off the buffer takes them off the stream.
LEMMA FromStream ==
    ASSUME NEW a \in Seq(Int), NEW b \in Seq(Int), NEW n \in 0..Len(a)
    PROVE  From(a, n) \o b = From(a \o b, n)
  <1>1. PICK s : s = a \o b
    BY Zenon
  <1>2. Joins(s, a, b)
    BY <1>1, Joined
  <1>3. PICK c : c = From(a, n)
    BY Zenon
  <1>4. c \in Seq(Int) /\ Len(c) = Len(a) - n /\ \A i \in 1..(Len(a) - n) : c[i] = a[n + i]
    BY <1>3, FromIs, Zenon
  <1>5. PICK d : d = c \o b
    BY Zenon
  <1>6. Joins(d, c, b)
    BY <1>4, <1>5, Joined
  <1>7. PICK t : t = From(s, n)
    BY Zenon
  <1>8. Len(a) \in Nat /\ Len(b) \in Nat /\ n \in Nat /\ n <= Len(a)
    OBVIOUS
  <1>9. n \in 0..Len(s) /\ Len(s) = Len(a) + Len(b) /\ s \in Seq(Int)
    BY ONLY <1>2, <1>8 DEF Joins
  <1>10. t \in Seq(Int) /\ Len(t) = Len(s) - n /\ \A i \in 1..(Len(s) - n) : t[i] = s[n + i]
    BY ONLY <1>7, <1>9, FromIs, Zenon
  <1>11. d \in Seq(Int) /\ Len(d) = Len(t)
    BY ONLY <1>4, <1>6, <1>8, <1>9, <1>10 DEF Joins
  <1>12. ASSUME NEW i \in 1..Len(t) PROVE d[i] = t[i]
    <2>1. CASE i <= Len(a) - n
      <3>1. i \in 1..(Len(a) - n) /\ n + i \in 1..Len(a) /\ i \in 1..Len(c) /\ i \in 1..(Len(s) - n)
        BY ONLY <2>1, <1>4, <1>8, <1>9, <1>10, i \in 1..Len(t)
      <3>2. d[i] = c[i] /\ s[n + i] = a[n + i]
        BY ONLY <3>1, <1>2, <1>6 DEF Joins
      <3>. QED  BY ONLY <3>1, <3>2, <1>4, <1>10
    <2>2. CASE ~(i <= Len(a) - n)
      <3>1. PICK j : j = i - (Len(a) - n)
        BY Zenon
      <3>2. j \in 1..Len(b) /\ Len(c) + j = i /\ Len(a) + j = n + i /\ i \in 1..(Len(s) - n)
        BY ONLY <2>2, <3>1, <1>4, <1>8, <1>9, <1>10, i \in 1..Len(t)
      <3>3. d[Len(c) + j] = b[j] /\ s[Len(a) + j] = b[j]
        BY ONLY <3>2, <1>2, <1>6, Zenon DEF Joins
      <3>. QED  BY ONLY <3>2, <3>3, <1>10, SMTT(20)
    <2>. QED  BY ONLY <2>1, <2>2
  <1>13. d = t
    BY ONLY <1>10, <1>11, <1>12, SameSeq, Zenon
  <1>. QED  BY ONLY <1>1, <1>3, <1>5, <1>7, <1>13

\* A PDU is dispatched.
LEMMA TakeStep ==
    ASSUME WireInv, NEW k, k = Len(got), NEW f, Takes(f, k), Dispatch(f),
           UNCHANGED <<sent, blank, flying, hungup>>,
           state' = "open", encoding' = sent[1].e
    PROVE  WireInv'
  <1>1. PICK n \in 0..Len(buffer) :
           /\ f = [is |-> "pdu", e |-> sent[k + 1].e, v |-> Value(sent[k + 1]), n |-> n]
           /\ Laid(From(Stream, n), k + 1, sent, blank, hungup)
    BY DEF Takes
  <1>2. PICK x : x = sent[k + 1]
    BY Zenon
  <1>3. buffer' = From(buffer, n) /\ got' = Append(got, Value(x))
    BY <1>1, <1>2 DEF Dispatch
  <1>4. WireType /\ k < Len(sent)
    BY DEF WireInv, Takes
  <1>5. /\ sent \in Seq(Items) /\ flying \in Seq(Int) /\ buffer \in Seq(Int) /\ k \in Nat
        /\ got \in Seq({Value(y) : y \in Items}) /\ blank \in Blanks(sent) /\ hungup \in BOOLEAN
    BY <1>4 DEF WireType
  <1>6. x \in Items /\ k + 1 \in 1..Len(sent)
    BY ONLY <1>2, <1>4, <1>5
  <1>7. /\ got' \in Seq({Value(y) : y \in Items}) /\ Len(got') = k + 1 /\ got'[k + 1] = Value(x)
        /\ got' # <<>> /\ DOMAIN got' = 1..(k + 1) /\ \A i \in 1..k : got'[i] = got[i]
    <2>1. PICK v, V : v = Value(x) /\ V = {Value(y) : y \in Items}
      BY Zenon
    <2>2. v \in V
      BY ONLY <1>6, <2>1
    <2>3. got \in Seq(V) /\ got' = Append(got, v)
      BY ONLY <1>3, <1>5, <2>1
    <2>4. /\ got' \in Seq(V) /\ Len(got') = k + 1 /\ got'[k + 1] = v
          /\ got' # <<>> /\ DOMAIN got' = 1..(k + 1) /\ \A i \in 1..k : got'[i] = got[i]
      BY ONLY <2>2, <2>3, k = Len(got)
    <2>. QED  BY ONLY <2>1, <2>4
  <1>8. buffer' \in Seq(Int)
    BY ONLY <1>3, <1>5, FromIs
  <1>9. WireType'
    BY ONLY <1>5, <1>7, <1>8, UNCHANGED <<sent, blank, flying, hungup>> DEF WireType, Blanks
  <1>10. Stream' = From(Stream, n)
    <2>1. Stream' = From(buffer, n) \o flying
      BY ONLY <1>3, UNCHANGED <<sent, blank, flying, hungup>> DEF Stream
    <2>. QED  BY ONLY <2>1, <1>5, FromStream DEF Stream
  <1>11. Laid(Stream', Len(got'), sent', blank', hungup')
    BY ONLY <1>1, <1>7, <1>10, UNCHANGED <<sent, blank, flying, hungup>>
  <1>12. InOrder'
    <2>1. ASSUME \A i \in DOMAIN got' :
                    /\ i <= Len(sent')
                    /\ IF sent'[i].e = LINES THEN Agree(sent'[i].v, got'[i])
                                             ELSE got'[i] = Canon(sent'[i].v)
          PROVE  InOrder'
      BY ONLY <2>1 DEF InOrder
    <2>2. sent' = sent /\ DOMAIN got' = 1..(k + 1)
      BY ONLY <1>7, UNCHANGED <<sent, blank, flying, hungup>>
    <2>3. ASSUME NEW i \in 1..(k + 1)
          PROVE  /\ i <= Len(sent)
                 /\ IF sent[i].e = LINES THEN Agree(sent[i].v, got'[i]) ELSE got'[i] = Canon(sent[i].v)
      <3>1. CASE i = k + 1
        <4>1. x.v \in Sendable
          BY ONLY <1>6 DEF Items
        <4>2. Agree(x.v, Document(Text(x.v)).v)
          BY <4>1, WireAssumption DEF Sendable
        <4>. QED  BY ONLY <3>1, <4>2, <1>2, <1>6, <1>7 DEF Value
      <3>2. CASE i # k + 1
        <4>1. i \in 1..k /\ i \in DOMAIN got
          BY ONLY <3>2, <1>5, k = Len(got), SMTT(20)
        <4>2. /\ i <= Len(sent)
              /\ IF sent[i].e = LINES THEN Agree(sent[i].v, got[i]) ELSE got[i] = Canon(sent[i].v)
          BY ONLY <4>1, WireInv, Zenon DEF WireInv, InOrder
        <4>3. got'[i] = got[i]
          BY ONLY <4>1, <1>7
        <4>. QED  BY ONLY <4>2, <4>3, Zenon
      <3>. QED  BY ONLY <3>1, <3>2
    <2>. QED  BY ONLY <2>1, <2>2, <2>3
  <1>13. (\A i \in 1..Len(sent) : i <= blank => sent[i].e = LINES)'
    BY ONLY WireInv, UNCHANGED <<sent, blank, flying, hungup>> DEF WireInv
  <1>14. AllDelivered'
    BY ONLY state' = "open" DEF AllDelivered
  <1>15. state' # "first" /\ encoding' = sent'[1].e
    BY ONLY state' = "open", encoding' = sent[1].e, UNCHANGED <<sent, blank, flying, hungup>>
  <1>. QED  BY ONLY <1>7, <1>9, <1>11, <1>12, <1>13, <1>14, <1>15, SMTT(20) DEF WireInv

\* A step that moves only the reader's state, to an end it may come to.
LEMMA EndStep ==
    ASSUME WireInv, AllDelivered', state' \in {"eof", "failed"},
           UNCHANGED <<sent, blank, flying, hungup, buffer, got>>
    PROVE  WireInv'
  <1>1. WireType' /\ Stream' = Stream /\ InOrder'
    BY DEF WireInv, WireType, Blanks, Stream, InOrder
  <1>2. Laid(Stream', Len(got'), sent', blank', hungup')
    BY <1>1 DEF WireInv
  <1>3. (\A i \in 1..Len(sent) : i <= blank => sent[i].e = LINES)'
    BY DEF WireInv
  <1>. QED  BY ONLY <1>1, <1>2, <1>3, AllDelivered', state' \in {"eof", "failed"}, SMTT(20) DEF WireInv

\* What a reader's answers are.
LEMMA AnswerIs ==
    /\ Short.is = "short" /\ Failure.is = "error" /\ [is |-> "blank"].is = "blank"
    /\ \A f, k : Takes(f, k) => f.is = "pdu" /\ f.e = sent[k + 1].e
  <1>1. Short.is = "short" /\ Failure.is = "error" /\ [is |-> "blank"].is = "blank"
    BY DEF Short, Failure
  <1>2. ASSUME NEW f, NEW k, Takes(f, k) PROVE f.is = "pdu" /\ f.e = sent[k + 1].e
    <2>1. PICK n : f = [is |-> "pdu", e |-> sent[k + 1].e, v |-> Value(sent[k + 1]), n |-> n]
      BY ONLY <1>2, Zenon DEF Takes
    <2>. QED  BY ONLY <2>1
  <1>. QED  BY ONLY <1>1, <1>2

\* The first PDU.
LEMMA ReadFirstStep ==
    ASSUME WireInv, ReadFirst
    PROVE  WireInv'
  <1>1. PICK f : f = First(buffer)
    BY Zenon
  <1>2. /\ state = "first" /\ f.is # "short"
        /\ IF f.is = "pdu"
           THEN Dispatch(f) /\ encoding' = f.e /\ state' = "open"
           ELSE state' = "failed" /\ UNCHANGED <<buffer, got, encoding>>
        /\ UNCHANGED <<sent, blank, flying, hungup>>
    BY ONLY <1>1, ReadFirst, Zenon DEF ReadFirst
  <1>3. got = <<>>
    BY ONLY <1>2, WireInv DEF WireInv
  <1>4. \/ f = Short
        \/ f = [is |-> "blank"] /\ blank = 0 /\ sent = <<>>
        \/ f = Failure /\ blank = 0 /\ sent # <<>> /\ sent[1].e # LINES
        \/ Takes(f, 0)
    BY ONLY <1>1, <1>3, WireInv, FirstRead, SMTT(20)
  <1>5. CASE Takes(f, 0)
    <2>1. PICK k : k = 0
      BY Zenon
    <2>2. k = Len(got) /\ Takes(f, k) /\ k + 1 = 1
      BY ONLY <2>1, <1>3, <1>5
    <2>3. f.is = "pdu" /\ f.e = sent[1].e
      BY ONLY <2>2, AnswerIs
    <2>. QED  BY ONLY <2>2, <2>3, <1>2, WireInv, TakeStep
  <1>6. CASE blank = 0 /\ (sent = <<>> \/ sent[1].e # LINES) /\ f.is # "pdu"
    <2>1. state' = "failed" /\ UNCHANGED <<sent, blank, flying, hungup, buffer, got>>
      BY ONLY <1>2, <1>6
    <2>2. AllDelivered'
      BY ONLY <2>1, <1>6, SMTT(20) DEF AllDelivered
    <2>. QED  BY ONLY <2>1, <2>2, WireInv, EndStep
  <1>. QED  BY ONLY <1>2, <1>4, <1>5, <1>6, AnswerIs

\* A later one.
LEMMA ReadNextStep ==
    ASSUME WireInv, ReadNext
    PROVE  WireInv'
  <1>1. PICK f : f = Following(buffer)
    BY Zenon
  <1>2. /\ state = "open"
        /\ \/ f.is = "pdu" /\ Dispatch(f) /\ UNCHANGED state
           \/ /\ f.is \in {"error", "blank"}
              /\ state' = IF f.is = "blank" THEN "eof" ELSE "failed"
              /\ UNCHANGED <<buffer, got>>
        /\ UNCHANGED <<sent, blank, flying, hungup, encoding>>
    BY ONLY <1>1, ReadNext, Zenon DEF ReadNext
  <1>3. PICK k : k = Len(got)
    BY Zenon
  <1>4. \/ f = Short
        \/ f = [is |-> "blank"] /\ blank = k
        \/ f = Failure /\ \E i \in DOMAIN sent : sent[i].e # sent[1].e
        \/ Takes(f, k)
    BY ONLY <1>1, <1>2, <1>3, WireInv, NextRead
  <1>5. got # <<>> /\ encoding = sent[1].e
    BY ONLY <1>2, WireInv DEF WireInv
  <1>6. CASE Takes(f, k)
    <2>1. Dispatch(f) /\ state' = "open" /\ encoding' = sent[1].e /\ UNCHANGED <<sent, blank, flying, hungup>>
      BY ONLY <1>2, <1>5, <1>6, AnswerIs
    <2>. QED  BY ONLY <2>1, <1>3, <1>6, WireInv, TakeStep, SMTT(20)
  <1>7. CASE f = [is |-> "blank"] /\ blank = k
    <2>1. state' = "eof" /\ UNCHANGED <<sent, blank, flying, hungup, buffer, got>>
      BY ONLY <1>2, <1>7, AnswerIs
    <2>2. AllDelivered'
      BY ONLY <2>1, <1>3, <1>5, <1>7 DEF AllDelivered
    <2>. QED  BY ONLY <2>1, <2>2, WireInv, EndStep, SMTT(20)
  <1>8. CASE f = Failure /\ \E i \in DOMAIN sent : sent[i].e # sent[1].e
    <2>1. state' = "failed" /\ UNCHANGED <<sent, blank, flying, hungup, buffer, got>>
      BY ONLY <1>2, <1>8, AnswerIs
    <2>2. AllDelivered'
      BY ONLY <2>1, <1>8 DEF AllDelivered
    <2>. QED  BY ONLY <2>1, <2>2, WireInv, EndStep, SMTT(20)
  <1>. QED  BY ONLY <1>2, <1>4, <1>6, <1>7, <1>8, AnswerIs

\* End of file.
LEMMA ReadEofStep ==
    ASSUME WireInv, ReadEof
    PROVE  WireInv'
  <1>1. PICK f : f = IF state = "first" THEN First(buffer) ELSE Following(buffer)
    BY Zenon
  <1>2. /\ state \in {"first", "open"} /\ Eof /\ f.is = "short"
        /\ state' = (IF buffer = <<>> THEN "eof" ELSE "failed")
        /\ UNCHANGED <<sent, blank, flying, buffer, hungup, encoding, got>>
    BY ONLY <1>1, ReadEof, Zenon DEF ReadEof, Reading
  <1>3. Len(got) = Len(sent) /\ buffer = <<>>
    <2>1. CASE state = "first"
      <3>1. got = <<>>
        BY ONLY <2>1, WireInv DEF WireInv
      <3>2. \/ f = Short /\ (Eof => buffer = <<>> /\ sent = <<>>)
            \/ f = [is |-> "blank"] \/ f = Failure \/ Takes(f, 0)
        BY ONLY <2>1, <3>1, <1>1, WireInv, FirstRead, SMTT(20)
      <3>. QED  BY ONLY <3>1, <3>2, <1>2, AnswerIs
    <2>2. CASE state = "open"
      <3>1. PICK k : k = Len(got)
        BY Zenon
      <3>2. \/ f = Short /\ (Eof => buffer = <<>> /\ k = Len(sent))
            \/ f = [is |-> "blank"] \/ f = Failure \/ Takes(f, k)
        BY ONLY <2>2, <3>1, <1>1, WireInv, NextRead
      <3>. QED  BY ONLY <3>1, <3>2, <1>2, AnswerIs
    <2>. QED  BY ONLY <2>1, <2>2, <1>2
  <1>5. state' = "eof" /\ UNCHANGED <<sent, blank, flying, hungup, buffer, got>>
    BY ONLY <1>2, <1>3
  <1>6. AllDelivered'
    BY ONLY <1>3, <1>5 DEF AllDelivered
  <1>. QED  BY ONLY <1>5, <1>6, WireInv, EndStep

\* A byte arrives: the stream is the same.
LEMMA ArriveStep ==
    ASSUME WireInv, Arrive
    PROVE  WireInv'
  <1>1. flying \in Seq(Int) /\ flying # <<>> /\ buffer \in Seq(Int)
    BY DEF WireInv, WireType, Arrive
  <1>2. /\ buffer' = Append(buffer, Head(flying)) /\ flying' = Tail(flying)
        /\ UNCHANGED <<sent, blank, hungup, state, encoding, got>>
    BY DEF Arrive
  <1>3. Stream' = Stream /\ buffer' \in Seq(Int) /\ flying' \in Seq(Int)
    BY ONLY <1>1, <1>2 DEF Stream
  <1>4. WireType'
    BY ONLY <1>2, <1>3, WireInv DEF WireInv, WireType, Blanks
  <1>5. Laid(Stream', Len(got'), sent', blank', hungup')
    BY ONLY <1>2, <1>3, WireInv, SMTT(20) DEF WireInv
  <1>6. InOrder' /\ AllDelivered'
    BY ONLY <1>2, WireInv DEF WireInv, InOrder, AllDelivered
  <1>7. (\A i \in 1..Len(sent) : i <= blank => sent[i].e = LINES)'
    BY ONLY <1>2, WireInv DEF WireInv
  <1>8. (state = "first" => got = <<>>)' /\ (state = "open" => got # <<>> /\ encoding = sent[1].e)'
    BY ONLY <1>2, WireInv DEF WireInv
  <1>. QED  BY ONLY <1>4, <1>5, <1>6, <1>7, <1>8 DEF WireInv

\* The client closes its side.
LEMMA HangupStep ==
    ASSUME WireInv, Hangup
    PROVE  WireInv'
  <1>1. hungup' = TRUE /\ UNCHANGED <<sent, blank, flying, buffer, state, encoding, got>> /\ ~hungup
    BY DEF Hangup
  <1>2. WireType' /\ Stream' = Stream
    BY ONLY <1>1, WireInv DEF WireInv, WireType, Blanks, Stream
  <1>3. Laid(Stream, Len(got), sent, blank, FALSE)
    <2>1. hungup = FALSE
      BY ONLY <1>1, WireInv DEF WireInv, WireType
    <2>. QED  BY ONLY <2>1, WireInv, Zenon DEF WireInv
  <1>4. Laid(Stream', Len(got'), sent', blank', hungup')
    BY ONLY <1>1, <1>2, <1>3, GrowHangup, Zenon
  <1>5. InOrder' /\ AllDelivered'
    BY ONLY <1>1, WireInv DEF WireInv, InOrder, AllDelivered
  <1>6. (\A i \in 1..Len(sent) : i <= blank => sent[i].e = LINES)'
    BY ONLY <1>1, WireInv DEF WireInv
  <1>7. (state = "first" => got = <<>>)' /\ (state = "open" => got # <<>> /\ encoding = sent[1].e)'
    BY ONLY <1>1, WireInv DEF WireInv
  <1>. QED  BY ONLY <1>2, <1>4, <1>5, <1>6, <1>7 DEF WireInv

\* An empty line is written.
LEMMA SendBlankStep ==
    ASSUME WireInv, SendBlank
    PROVE  WireInv'
  <1>1. /\ ~hungup /\ blank = NoBlank /\ \A i \in DOMAIN sent : sent[i].e = LINES
        /\ state \in {"first", "open"}
        /\ blank' = Len(sent) /\ flying' = Append(flying, NEWLINE)
        /\ UNCHANGED <<sent, buffer, hungup, state, encoding, got>>
    BY DEF SendBlank, Reading
  <1>2. /\ sent \in Seq(Items) /\ flying \in Seq(Int) /\ buffer \in Seq(Int) /\ hungup = FALSE
        /\ Len(got) \in Nat /\ Stream \in Seq(Int) /\ Laid(Stream, Len(got), sent, NoBlank, FALSE)
    <2>1. WireType /\ hungup = FALSE
      BY <1>1 DEF WireInv, WireType
    <2>2. Laid(Stream, Len(got), sent, NoBlank, FALSE)
      BY ONLY <2>1, <1>1, WireInv, Zenon DEF WireInv
    <2>3. Stream \in Seq(Int)
      BY ONLY <2>1, StreamIs
    <2>4. Len(got) \in Nat
      BY ONLY <2>1 DEF WireType
    <2>. QED  BY ONLY <2>1, <2>2, <2>3, <2>4, Zenon DEF WireType
  <1>3. Stream' = Append(Stream, NEWLINE) /\ flying' \in Seq(Int)
    <2>1. NEWLINE \in Int
      BY DEF NEWLINE
    <2>2. /\ Append(flying, NEWLINE) \in Seq(Int)
          /\ buffer \o Append(flying, NEWLINE) = Append(buffer \o flying, NEWLINE)
      BY ONLY <2>1, <1>2, SMTT(20)
    <2>. QED  BY ONLY <2>2, <1>1, Zenon DEF Stream
  <1>4. WireType'
    <2>1. Len(sent) \in Blanks(sent)
      BY ONLY <1>2 DEF Blanks
    <2>2. blank' \in Blanks(sent')
      BY ONLY <2>1, <1>1
    <2>. QED  BY ONLY <2>2, <1>1, <1>3, WireInv DEF WireInv, WireType
  <1>5. Laid(Append(Stream, NEWLINE), Len(got), sent, Len(sent), FALSE)
    BY ONLY <1>2, GrowBlank, Zenon
  <1>6. Laid(Stream', Len(got'), sent', blank', hungup')
    BY ONLY <1>1, <1>2, <1>3, <1>5, Zenon
  <1>7. InOrder' /\ AllDelivered'
    BY ONLY <1>1, WireInv DEF WireInv, InOrder, AllDelivered
  <1>8. \A i \in 1..Len(sent') : i <= blank' => sent'[i].e = LINES
    <2>1. DOMAIN sent = 1..Len(sent) /\ sent' = sent
      BY ONLY <1>1, <1>2
    <2>. QED  BY ONLY <2>1, <1>1
  <1>9. (state = "first" => got = <<>>)' /\ (state = "open" => got # <<>> /\ encoding = sent[1].e)'
    BY ONLY <1>1, WireInv DEF WireInv
  <1>. QED  BY ONLY <1>4, <1>6, <1>7, <1>8, <1>9 DEF WireInv

\* A PDU is written, with its end or, before hanging up, without.
LEMMA WriteStep ==
    ASSUME WireInv, NEW x \in Items, NEW w \in Seq(Int), IsCode(w, x, hungup'), hungup' \in BOOLEAN,
           ~hungup, state \in {"first", "open"},
           sent' = Append(sent, x), flying' = flying \o w,
           UNCHANGED <<blank, buffer, state, encoding, got>>
    PROVE  WireInv'
  <1>1. /\ sent \in Seq(Items) /\ flying \in Seq(Int) /\ buffer \in Seq(Int) /\ hungup = FALSE
        /\ Len(got) \in Nat /\ Stream \in Seq(Int) /\ Laid(Stream, Len(got), sent, blank, FALSE)
        /\ blank \in Blanks(sent) /\ Len(got) <= Len(sent) /\ Len(sent) \in Nat
    <2>1. WireType /\ hungup = FALSE
      BY DEF WireInv, WireType
    <2>2. Laid(Stream, Len(got), sent, blank, FALSE)
      BY ONLY <2>1, WireInv, Zenon DEF WireInv
    <2>3. Len(got) <= Len(sent)
      BY ONLY <2>2 DEF Laid
    <2>4. Stream \in Seq(Int)
      BY ONLY <2>1, StreamIs
    <2>5. Len(got) \in Nat /\ Len(sent) \in Nat
      BY ONLY <2>1 DEF WireType
    <2>. QED  BY ONLY <2>1, <2>2, <2>3, <2>4, <2>5, Zenon DEF WireType
  <1>2. Stream' = Stream \o w /\ flying' \in Seq(Int)
    <2>1. buffer' = buffer
      BY ONLY UNCHANGED <<blank, buffer, state, encoding, got>>
    <2>2. Stream' = buffer \o (flying \o w)
      BY ONLY <2>1, flying' = flying \o w DEF Stream
    <2>3. Stream \o w = buffer \o (flying \o w)
      BY ONLY <1>1, w \in Seq(Int), ConcatAssociative, Zenon DEF Stream
    <2>4. flying \o w \in Seq(Int)
      BY ONLY <1>1, w \in Seq(Int)
    <2>. QED  BY ONLY <2>2, <2>3, <2>4, flying' = flying \o w
  <1>3. /\ sent' \in Seq(Items) /\ Len(sent') = Len(sent) + 1
        /\ \A i \in 1..Len(sent) : sent'[i] = sent[i]
    BY ONLY <1>1, x \in Items, sent' = Append(sent, x)
  <1>4. WireType'
    <2>1. blank' \in Blanks(sent') /\ blank <= Len(sent) /\ blank \in Int
      BY ONLY <1>1, <1>3, UNCHANGED <<blank, buffer, state, encoding, got>> DEF Blanks, NoBlank
    <2>. QED  BY ONLY <2>1, <1>2, <1>3, WireInv, hungup' \in BOOLEAN,
                      UNCHANGED <<blank, buffer, state, encoding, got>>, SMTT(20) DEF WireInv, WireType
  <1>5. Laid(Stream \o w, Len(got), Append(sent, x), blank, hungup')
    BY ONLY <1>1, x \in Items, w \in Seq(Int), IsCode(w, x, hungup'), hungup' \in BOOLEAN, GrowItem, Zenon
  <1>6. Laid(Stream', Len(got'), sent', blank', hungup')
    BY ONLY <1>2, <1>5, sent' = Append(sent, x), UNCHANGED <<blank, buffer, state, encoding, got>>, SMTT(20)
  <1>7. InOrder'
    <2>1. \A i \in DOMAIN got : i \in 1..Len(sent)
      <3>1. DOMAIN got = 1..Len(got)
        BY ONLY WireInv DEF WireInv, WireType
      <3>. QED  BY ONLY <3>1, <1>1
    <2>2. \A i \in DOMAIN got : i <= Len(sent') /\ sent'[i] = sent[i]
      BY ONLY <2>1, <1>1, <1>3
    <2>. QED  BY ONLY <2>2, WireInv, UNCHANGED <<blank, buffer, state, encoding, got>> DEF WireInv, InOrder
  <1>8. AllDelivered'
    BY ONLY state \in {"first", "open"}, UNCHANGED <<blank, buffer, state, encoding, got>> DEF AllDelivered
  <1>9. \A i \in 1..Len(sent') : i <= blank' => sent'[i].e = LINES
    <2>1. ASSUME NEW i \in 1..Len(sent'), i <= blank PROVE sent'[i].e = LINES
      <3>1. i \in 1..Len(sent)
        BY ONLY <2>1, <1>1, <1>3 DEF Blanks, NoBlank
      <3>. QED  BY ONLY <2>1, <3>1, <1>3, WireInv DEF WireInv
    <2>2. blank' = blank
      BY ONLY UNCHANGED <<blank, buffer, state, encoding, got>>
    <2>. QED  BY ONLY <2>1, <2>2
  <1>10. state = "open" => got # <<>> /\ encoding = sent'[1].e
    <2>. SUFFICES ASSUME state = "open" PROVE got # <<>> /\ encoding = sent'[1].e
      OBVIOUS
    <2>1. got # <<>> /\ encoding = sent[1].e
      BY ONLY state = "open", WireInv DEF WireInv
    <2>2. Len(got) >= 1
      BY ONLY <2>1, WireInv DEF WireInv, WireType
    <2>3. 1 \in 1..Len(sent)
      BY ONLY <2>2, <1>1, SMTT(20)
    <2>. QED  BY ONLY <2>1, <2>3, <1>3
  <1>11. (state = "first" => got = <<>>)' /\ (state = "open" => got # <<>> /\ encoding = sent[1].e)'
    BY ONLY <1>10, WireInv, UNCHANGED <<blank, buffer, state, encoding, got>> DEF WireInv
  <1>. QED  BY ONLY <1>4, <1>6, <1>7, <1>8, <1>9, <1>11 DEF WireInv

\* The client writes a PDU.
LEMMA SendStep ==
    ASSUME WireInv, NEW v \in Offered, NEW e \in Encodings, Send(v, e)
    PROVE  WireInv'
  <1>1. PICK x : x = [v |-> v, e |-> e]
    BY Zenon
  <1>2. v \in Sendable
    BY DEF Offered, Sendable
  <1>3. x \in Items /\ x.v = v /\ x.e = e
    BY ONLY <1>1, <1>2, e \in Encodings DEF Items
  <1>4. PICK w : w = Code(x)
    BY Zenon
  <1>5. w \in Seq(Int)
    <2>1. CASE e = LINES
      <3>1. Text(v) \in Seq(Int)
        BY ONLY <1>2, WireAssumption DEF Sendable
      <3>2. w = Append(Text(v), NEWLINE)
        BY ONLY <2>1, <1>3, <1>4 DEF Code, encode_line
      <3>. QED  BY ONLY <3>1, <3>2 DEF NEWLINE
    <2>2. CASE e # LINES
      <3>1. e \in {1, 2}
        BY <2>2 DEF Encodings
      <3>2. \E tag : Bser(encode_pdu(v, e), v, e, tag)
        BY ONLY <3>1, <1>2, EncodeShape
      <3>. QED  BY ONLY <2>2, <3>2, <1>3, <1>4 DEF Bser, Code
    <2>. QED  BY ONLY <2>1, <2>2
  <1>6. /\ ~hungup /\ state \in {"first", "open"} /\ sent' = Append(sent, x) /\ flying' = flying \o w
        /\ UNCHANGED <<blank, buffer, state, encoding, got>> /\ hungup' = hungup
    BY ONLY <1>1, <1>3, <1>4, Send(v, e) DEF Send, Reading, Code
  <1>7. IsCode(w, x, hungup') /\ hungup' \in BOOLEAN
    BY ONLY <1>4, <1>6, WireInv, Zenon DEF IsCode, WireInv, WireType
  <1>. QED  BY ONLY <1>3, <1>5, <1>6, <1>7, WireInv, WriteStep

\* The client writes a last line without its newline, and hangs up.
LEMMA SendRestStep ==
    ASSUME WireInv, NEW v \in Offered, SendRest(v)
    PROVE  WireInv'
  <1>1. PICK x : x = [v |-> v, e |-> LINES]
    BY Zenon
  <1>2. v \in Sendable
    BY DEF Offered, Sendable
  <1>3. x \in Items /\ x.v = v /\ x.e = LINES
    BY ONLY <1>1, <1>2 DEF Items, Encodings
  <1>4. PICK w : w = Text(v)
    BY Zenon
  <1>5. w \in Seq(Int)
    BY ONLY <1>2, <1>4, WireAssumption DEF Sendable
  <1>6. /\ ~hungup /\ state \in {"first", "open"} /\ sent' = Append(sent, x) /\ flying' = flying \o w
        /\ UNCHANGED <<blank, buffer, state, encoding, got>> /\ hungup' = TRUE
    BY ONLY <1>1, <1>4, SendRest(v) DEF SendRest, Reading
  <1>7. IsCode(w, x, hungup') /\ hungup' \in BOOLEAN
    BY ONLY <1>3, <1>4, <1>6 DEF IsCode
  <1>. QED  BY ONLY <1>3, <1>5, <1>6, <1>7, WireInv, WriteStep, Zenon

\* Before anything is sent.
LEMMA WireInit == Init => WireInv
  <1>. SUFFICES ASSUME Init PROVE WireInv
    OBVIOUS
  <1>1. /\ sent = <<>> /\ flying = <<>> /\ buffer = <<>> /\ got = <<>> /\ blank = NoBlank
        /\ hungup = FALSE /\ state = "first"
    BY DEF Init
  <1>2. WireType
    <2>1. ASSUME NEW S PROVE <<>> \in Seq(S)
      OBVIOUS
    <2>2. blank \in Blanks(sent)
      BY ONLY <1>1 DEF Blanks
    <2>3. hungup \in BOOLEAN
      BY ONLY <1>1, Zenon
    <2>. QED  BY ONLY <1>1, <2>1, <2>2, <2>3, Zenon DEF WireType
  <1>3. Stream = <<>> /\ Len(Stream) = 0 /\ Len(sent) = 0 /\ Len(got) = 0
    BY ONLY <1>1 DEF Stream
  <1>4. Gap(blank, 0) = 0 /\ blank \notin 0..0
    BY ONLY <1>1 DEF Gap, NoBlank
  <1>5. PICK g : g = [i \in 1..1 |-> 0]
    BY Zenon
  <1>6. LaidAt(g, Stream, 0, sent, blank, hungup)
    <2>1. g \in [1..1 -> Nat] /\ g[1] = 0 /\ \A i, j \in 1..1 : g[i] <= g[j]
      BY ONLY <1>5
    <2>2. (0 + 1)..(Len(sent) + 1) = 1..1 /\ 0 + 1 = 1 /\ Len(sent) + 1 = 1
          /\ (0 + 1)..Len(sent) = {} /\ 0..Len(sent) = 0..0
      BY ONLY <1>3
    <2>. QED  BY ONLY <2>1, <2>2, <1>3, <1>4 DEF LaidAt
  <1>7. Laid(Stream, Len(got), sent, blank, hungup)
    BY ONLY <1>3, <1>6 DEF Laid
  <1>8. InOrder /\ AllDelivered
    BY ONLY <1>1 DEF InOrder, AllDelivered
  <1>. QED  BY ONLY <1>1, <1>2, <1>3, <1>7, <1>8 DEF WireInv

\* Nothing else happens to the connection.
LEMMA WireStutter ==
    ASSUME WireInv, UNCHANGED vars
    PROVE  WireInv'
  <1>1. UNCHANGED <<sent, blank, flying, buffer, hungup, state, encoding, got>>
    BY DEF vars
  <1>2. WireType' /\ Stream' = Stream
    BY ONLY <1>1, WireInv DEF WireInv, WireType, Blanks, Stream
  <1>3. Laid(Stream', Len(got'), sent', blank', hungup')
    BY ONLY <1>1, <1>2, WireInv, SMTT(20) DEF WireInv
  <1>4. InOrder' /\ AllDelivered'
    BY ONLY <1>1, WireInv DEF WireInv, InOrder, AllDelivered
  <1>5. (\A i \in 1..Len(sent) : i <= blank => sent[i].e = LINES)'
    BY ONLY <1>1, WireInv DEF WireInv
  <1>6. (state = "first" => got = <<>>)' /\ (state = "open" => got # <<>> /\ encoding = sent[1].e)'
    BY ONLY <1>1, WireInv DEF WireInv
  <1>. QED  BY ONLY <1>2, <1>3, <1>4, <1>5, <1>6 DEF WireInv

\* Every step of the client, of the wire and of the server keeps the invariant.
LEMMA WireStep == WireInv /\ [Next]_vars => WireInv'
  <1>. SUFFICES ASSUME WireInv, [Next]_vars PROVE WireInv'
    OBVIOUS
  <1>1. ASSUME NEW v \in Offered, NEW e \in Encodings, Send(v, e) PROVE WireInv'
    BY ONLY <1>1, WireInv, SendStep
  <1>2. ASSUME NEW v \in Offered, SendRest(v) PROVE WireInv'
    BY ONLY <1>2, WireInv, SendRestStep
  <1>3. CASE SendBlank
    BY ONLY <1>3, WireInv, SendBlankStep
  <1>4. CASE Hangup
    BY ONLY <1>4, WireInv, HangupStep
  <1>5. CASE Arrive
    BY ONLY <1>5, WireInv, ArriveStep
  <1>6. CASE ReadFirst
    BY ONLY <1>6, WireInv, ReadFirstStep
  <1>7. CASE ReadNext
    BY ONLY <1>7, WireInv, ReadNextStep
  <1>8. CASE ReadEof
    BY ONLY <1>8, WireInv, ReadEofStep
  <1>9. CASE UNCHANGED vars
    BY ONLY <1>9, WireInv, WireStutter
  <1>. QED  BY ONLY [Next]_vars, <1>1, <1>2, <1>3, <1>4, <1>5, <1>6, <1>7, <1>8, <1>9, Zenon DEF Next

\* Both decoders see a buffer that starts with a PDU, or with a line, or is empty.
LEMMA WireAgrees == WireInv => DecodersAgree
  <1>. SUFFICES ASSUME WireInv PROVE DecodersAgree
    OBVIOUS
  <1>1. WireType /\ buffer \in Seq(Int) /\ Len(got) \in Nat
    BY DEF WireInv, WireType
  <1>2. ASSUME Frame(buffer).is # "pdu", decode_pdu(buffer) = Bad PROVE DecodersAgree
    BY ONLY <1>2, BadIs, Zenon DEF DecodersAgree
  <1>3. CASE buffer = <<>>
    BY ONLY <1>2, <1>3, Nothing, AnswerIs, SMTT(20)
  <1>4. CASE buffer # <<>> /\ buffer[1] # 0
    BY ONLY <1>1, <1>2, <1>4, Foreign, AnswerIs
  <1>5. CASE buffer # <<>> /\ buffer[1] = 0
    <2>1. Len(got) < Len(sent)
      <3>. SUFFICES ASSUME ~(Len(got) < Len(sent)) PROVE FALSE
        OBVIOUS
      <3>1. Len(Stream) = Gap(blank, Len(got)) /\ (blank = Len(got) => Stream[1] = NEWLINE)
        BY ONLY WireInv, ~(Len(got) < Len(sent)), NothingAhead
      <3>2. Arrived(buffer, Stream) /\ Len(buffer) \in Nat
        BY ONLY <1>1, StreamIs
      <3>3. blank = Len(got) /\ buffer[1] = NEWLINE
        BY ONLY <3>1, <3>2, <1>1, <1>5 DEF Arrived, Gap
      <3>. QED  BY ONLY <3>3, <1>5 DEF NEWLINE
    <2>2. PICK w \in Seq(Int) : Ahead(w, Len(got))
      BY ONLY <2>1, WireInv, AheadIs
    <2>3. PICK k : k = Len(got)
      BY Zenon
    <2>4. k \in Nat /\ k < Len(sent) /\ Ahead(w, k)
      BY ONLY <2>1, <2>2, <2>3, <1>1
    <2>5. blank # k /\ sent[k + 1].e # LINES
      <3>1. /\ buffer # <<>> /\ blank = k => buffer[1] = NEWLINE
            /\ buffer # <<>> /\ blank # k /\ sent[k + 1].e = LINES => buffer[1] # 0
        BY ONLY <2>4, <1>1, AheadByte, w \in Seq(Int)
      <3>. QED  BY ONLY <3>1, <1>5 DEF NEWLINE
    <2>6. PICK x : x = sent[k + 1]
      BY Zenon
    <2>7. x.e \in {1, 2} /\ x.v \in Sendable /\ w = encode_pdu(x.v, x.e) /\ Agrees(buffer, w)
      BY ONLY <2>4, <2>5, <2>6, <1>1, AheadBser, w \in Seq(Int)
    <2>8. /\ Len(buffer) >= Len(w)
               => Frame(buffer) = [is |-> "pdu", e |-> x.e, v |-> Canon(x.v), n |-> Len(w)]
          /\ Len(buffer) < Len(w) => Frame(buffer) = Short
      BY ONLY <2>7, <1>1, Framed, Zenon
    <2>9. /\ Len(buffer) >= Len(w) => decode_pdu(buffer) = Good(Canon(x.v), Len(w))
          /\ Len(buffer) < Len(w) => decode_pdu(buffer) = Bad
      BY ONLY <2>7, <1>1, Decode, Zenon
    <2>10. CASE Len(buffer) < Len(w)
      BY ONLY <2>8, <2>9, <2>10, <1>2, AnswerIs, Zenon
    <2>11. CASE Len(buffer) >= Len(w)
      <3>1. Frame(buffer).is = "pdu" /\ Frame(buffer).v = Canon(x.v) /\ Frame(buffer).n = Len(w)
        BY ONLY <2>8, <2>11
      <3>2. /\ decode_pdu(buffer).ok = TRUE /\ decode_pdu(buffer).v = Canon(x.v)
            /\ decode_pdu(buffer).n = Len(w)
        BY ONLY <2>9, <2>11, GoodIs
      <3>. QED  BY ONLY <3>1, <3>2, Zenon DEF DecodersAgree
    <2>12. Len(buffer) \in Nat /\ Len(w) \in Nat
      BY ONLY <1>1, w \in Seq(Int)
    <2>. QED  BY ONLY <2>10, <2>11, <2>12
  <1>. QED  BY ONLY <1>3, <1>4, <1>5

\* The invariant that the three theorems below follow from.
LEMMA WireInvariant == Spec => []WireInv
  BY WireInit, WireStep, PTL DEF Spec

\* However bytes are cut up on their way, what is dispatched is what was sent, in
\* order (read_first_pdu and read_pdu in daemon/server.rs).
THEOREM DispatchedInOrder == Spec => []InOrder
  <1>1. WireInv => InOrder
    BY DEF WireInv
  <1>. QED  BY <1>1, WireInvariant, PTL

\* A session ends only with all that was sent dispatched or at an empty line, and
\* fails only when the client changed encoding: no PDU of an encoder is refused.
THEOREM NoPduRefused == Spec => []AllDelivered
  <1>1. WireInv => AllDelivered
    BY DEF WireInv
  <1>. QED  BY <1>1, WireInvariant, PTL

\* The server's own framing and decode_pdu read every buffer of a connection alike.
THEOREM OneReading == Spec => []DecodersAgree
  BY WireAgrees, WireInvariant, PTL

=============================================================================
