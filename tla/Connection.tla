----------------------------- MODULE Connection -----------------------------
(***************************************************************************)
(* The reading side of one connection (daemon/server.rs): the client       *)
(* writes PDUs, their bytes arrive one at a time, and handle_connection    *)
(* reads PDU after PDU off its buffer, first with read_first_pdu, which    *)
(* settles the encoding, then with read_pdu.  read_exact and read_until    *)
(* wait for bytes, so a read takes effect once its PDU is whole.           *)
(***************************************************************************)
EXTENDS Pdu, FiniteSetsExt

CONSTANTS Values,    \* what clients send first
          More,      \* what they send after it
          MaxPdus,   \* bound on PDUs sent over the connection
          Canon(_),      \* what a value is after BSER
          Agree(_, _)    \* does a value agree with what it is after JSON?

\* What the readers below need of the codecs, for what clients send: a length
\* and a value in BSER are read back from their own bytes, and a text is
\* printable, is a document and carries the value.
ASSUME WireAssumption ==
    /\ MaxPdus \in Nat
    /\ \A v \in Values \cup More :
         LET bytes == WriteValue(v)
         IN  /\ bytes \in Seq(Int) /\ ReadValue(bytes) = Good(Canon(v), Len(bytes))
             /\ Fits(Len(bytes)) # {}
             /\ \A tag \in Fits(Len(bytes)) :
                  LET le == ToLeBytes(Len(bytes), Width[tag])
                  IN  le \in Seq(Int) /\ Len(le) = Width[tag] /\ FromLeBytes(le) = Len(bytes)
             /\ Text(v) \in Seq(Int) /\ Text(v) # <<>>
             /\ \A i \in DOMAIN Text(v) : Text(v)[i] >= Printable
             /\ Document(Text(v)).ok /\ Agree(v, Document(Text(v)).v)

\* The versions of BSER, and JSON lines.
LINES == 3
Encodings == {1, 2, LINES}
NoBlank == -1

VARIABLES
    sent,       \* PDUs the client has written, with the encoding of each
    blank,      \* how many PDUs it had written when it wrote an empty line
    flying,     \* bytes on their way
    buffer,     \* bytes that arrived and are not yet read
    hungup,     \* the client has closed its side
    state,      \* "first", "open", or how reading ended
    encoding,   \* of the session, 0 before the first PDU
    got         \* values dispatched

vars == <<sent, blank, flying, buffer, hungup, state, encoding, got>>

Init ==
    /\ sent = <<>> /\ flying = <<>> /\ buffer = <<>> /\ got = <<>>
    /\ blank = NoBlank /\ hungup = FALSE
    /\ state = "first"
    /\ encoding = 0

Reading == state \in {"first", "open"}
Offered == IF sent = <<>> THEN Values ELSE More

\* The client writes a PDU (clients keep to one encoding; one that changes is
\* turned away).
Send(v, e) ==
    /\ ~hungup /\ Reading
    /\ Len(sent) < MaxPdus
    /\ sent' = Append(sent, [v |-> v, e |-> e])
    /\ flying' = flying \o IF e = LINES THEN encode_line(v) ELSE encode_pdu(v, e)
    /\ UNCHANGED <<blank, buffer, hungup, state, encoding, got>>

\* A last line without its end, before the client hangs up.
SendRest(v) ==
    /\ ~hungup /\ Reading
    /\ Len(sent) < MaxPdus
    /\ sent' = Append(sent, [v |-> v, e |-> LINES])
    /\ flying' = flying \o Text(v)
    /\ hungup' = TRUE
    /\ UNCHANGED <<blank, buffer, state, encoding, got>>

\* An empty line, at most one (a bound).
SendBlank ==
    /\ ~hungup /\ Reading
    /\ blank = NoBlank
    /\ \A i \in DOMAIN sent : sent[i].e = LINES
    /\ blank' = Len(sent)
    /\ flying' = Append(flying, NEWLINE)
    /\ UNCHANGED <<sent, buffer, hungup, state, encoding, got>>

Hangup ==
    /\ ~hungup
    /\ hungup' = TRUE
    /\ UNCHANGED <<sent, blank, flying, buffer, state, encoding, got>>

Arrive ==
    /\ Reading
    /\ flying # <<>>
    /\ buffer' = Append(buffer, Head(flying))
    /\ flying' = Tail(flying)
    /\ UNCHANGED <<sent, blank, hungup, state, encoding, got>>

-----------------------------------------------------------------------------
\* Mutant: the length of the payload is put back as an int8 whatever it is.
bser_decode_value_Int8(payload) ==
    decode_pdu(Header(1) \o <<3>> \o ToLeBytes(Len(payload), 1) \o payload)

\* The payload is decoded behind a version 1 header made for it.
bser_decode_value(payload) ==
    decode_pdu(Header(1) \o write_int(Len(payload)) \o payload)

Short == [is |-> "short"]
Failure == [is |-> "error"]

\* The PDU whose length is read and whose payload is buf[start + 1..end].
Payload(buf, start, end) ==
    LET r == bser_decode_value(SubSeq(buf, start + 1, end))
    IN  IF r.ok THEN [is |-> "pdu", e |-> buf[2], v |-> r.v, n |-> end] ELSE Failure

\* read_bser_int, then as many bytes.
Sized(buf, start) ==
    LET rest == From(buf, start)
        len == read_int(rest)
    IN  IF need(rest, 1) /\ rest[1] \notin DOMAIN Width THEN Failure
        ELSE IF len.ok /\ need(buf, start + len.n + len.v)
             THEN Payload(buf, start + len.n, start + len.n + len.v)
             ELSE Short

\* What the readers make of a buffer that should start with BSER: wait for
\* more bytes, take a PDU, or fail.
Frame(buf) ==
    IF (need(buf, 1) /\ buf[1] # 0) \/ (need(buf, 2) /\ buf[2] \notin {1, 2}) THEN Failure
    ELSE IF need(buf, 2) /\ need(buf, Len(Header(buf[2])))
         THEN Sized(buf, Len(Header(buf[2])))
         ELSE Short

Eof == hungup /\ flying = <<>>

\* A line up to the first NEWLINE at or after `from`, or to the end of the
\* stream; the NEWLINE is popped.
Line(buf, from) ==
    LET ends == {i \in from..Len(buf) : buf[i] = NEWLINE}
        n == IF ends = {} THEN Len(buf) ELSE Min(ends)
        text == SubSeq(buf, 1, IF buf[n] = NEWLINE THEN n - 1 ELSE n)
        r == from_slice(text)
    IN  IF buf = <<>> \/ (ends = {} /\ ~Eof) THEN Short
        ELSE IF text = <<>> THEN [is |-> "blank"]
        ELSE IF r.ok THEN [is |-> "pdu", e |-> LINES, v |-> r.v, n |-> n]
        ELSE Failure

\* The first byte tells BSER from JSON.  In a JSON session that byte is taken
\* before the line is read, so an empty first line is part of the next one.
First(buf) ==
    IF need(buf, 1) /\ buf[1] # 0 THEN Line(buf, 2) ELSE Frame(buf)

\* The version is compared once the header is read.
Following(buf) ==
    IF encoding = LINES THEN Line(buf, 1)
    ELSE LET switched == /\ need(buf, 2) /\ buf[1] = 0 /\ buf[2] # encoding
                         /\ need(buf, Len(Header(buf[2])))
         IN  IF switched THEN Failure ELSE Frame(buf)

\* Mutant: the bytes of the PDU are looked at and not consumed.
Dispatch_Peeks(f) ==
    /\ got' = Append(got, f.v)
    /\ UNCHANGED buffer

Dispatch(f) ==
    /\ got' = Append(got, f.v)
    /\ buffer' = From(buffer, f.n)

\* A first PDU that cannot be read ends the connection.
ReadFirst ==
    /\ state = "first"
    /\ LET f == First(buffer)
       IN  /\ f.is # "short"
           /\ IF f.is = "pdu"
              THEN Dispatch(f) /\ encoding' = f.e /\ state' = "open"
              ELSE state' = "failed" /\ UNCHANGED <<buffer, got, encoding>>
    /\ UNCHANGED <<sent, blank, flying, hungup>>

\* A later one is answered with an error; an empty line ends the session.
ReadNext ==
    /\ state = "open"
    /\ LET f == Following(buffer)
       IN  \/ f.is = "pdu" /\ Dispatch(f) /\ UNCHANGED state
           \/ /\ f.is \in {"error", "blank"}
              /\ state' = IF f.is = "blank" THEN "eof" ELSE "failed"
              /\ UNCHANGED <<buffer, got>>
    /\ UNCHANGED <<sent, blank, flying, hungup, encoding>>

\* Mutant: end of file ends the session before what was read ahead.
ReadEof_DropsBuffer ==
    /\ Reading /\ Eof
    /\ state' = "eof"
    /\ UNCHANGED <<sent, blank, flying, buffer, hungup, encoding, got>>

\* End of file between PDUs ends the session, within one fails it.
ReadEof ==
    /\ Reading /\ Eof
    /\ (IF state = "first" THEN First(buffer) ELSE Following(buffer)).is = "short"
    /\ state' = IF buffer = <<>> THEN "eof" ELSE "failed"
    /\ UNCHANGED <<sent, blank, flying, buffer, hungup, encoding, got>>

Next ==
    \/ \E v \in Offered, e \in Encodings : Send(v, e)
    \/ \E v \in Offered : SendRest(v)
    \/ SendBlank \/ Hangup \/ Arrive \/ ReadFirst \/ ReadNext \/ ReadEof

Spec == Init /\ [][Next]_vars

-----------------------------------------------------------------------------
\* However the bytes are cut up on their way, what is dispatched is what was
\* sent, in order, and no PDU takes bytes of the next: in BSER every width,
\* nesting and row survives write_value and read_value.  A JSON line carries
\* "the same logical shape" (value.rs:5): a template is one object per row with
\* every key, and only bytes that are not UTF-8 and reals that are not finite
\* are replaced (bser.rs, json.rs, server.rs).
InOrder ==
    \A i \in DOMAIN got :
        /\ i <= Len(sent)
        /\ IF sent[i].e = LINES
           THEN Agree(sent[i].v, got[i])
           ELSE got[i] = Canon(sent[i].v)

\* A session ends at end of file only with all that was sent dispatched, also
\* a last line without its end, and fails only when the client changed encoding:
\* no PDU that the encoders write is refused or dropped by the server's readers.
\* An empty line is skipped before the first PDU and ends the session after it.
AllDelivered ==
    /\ state = "eof" => Len(got) = Len(sent) \/ (blank = Len(got) /\ got # <<>>)
    /\ state = "failed" => \/ \E i \in DOMAIN sent : sent[i].e # sent[1].e
                           \/ blank = 0 /\ (sent = <<>> \/ sent[1].e # LINES)

\* The server's framing (read_bser_int and the header bser_decode_value makes
\* up) reads a buffer exactly as the protocol crate's decode_pdu does.
DecodersAgree ==
    LET f == Frame(buffer)
        d == decode_pdu(buffer)
    IN  /\ (f.is = "pdu") <=> d.ok
        /\ d.ok => f.v = d.v /\ f.n = d.n

=============================================================================
