-------------------------- MODULE CompanionProofs ---------------------------
(***************************************************************************)
(* The three clients for any command lines, directories, number of pushes  *)
(* and size of the read buffer.  The argument is a position in the stream: *)
(* the bytes a client holds and the bytes on their way to it are a run of  *)
(* the bytes the daemon queued, and what it has done so far accounts for   *)
(* the PDUs before that run.                                               *)
(***************************************************************************)
EXTENDS Companion, FiniteSetTheorems, WellFoundedInduction, TLAPS

\* The PDUs, the bytes of their lines, and the requests.
Responses == {Response(ok) : ok \in BOOLEAN}
Pushes == {Push(id, n) : id \in Nat, n \in Nat}
Pdu == Responses \cup Pushes
Byte == (Pdu \X {1, 2}) \cup {NL}
Request == [cmd : {"watch-project", "subscribe"}, dir : Dirs]

\* The values of the variables, by job where a job decides them.
Types ==
    /\ opts \in Options
    /\ inbox \in Seq(Request)
    /\ answering \in BOOLEAN /\ pushing \in BOOLEAN /\ open \in BOOLEAN
    /\ failed \in BOOLEAN /\ late \in BOOLEAN /\ last_event \in BOOLEAN
    /\ sent \in Seq(Pdu)
    /\ line \in Seq(Byte) /\ buf \in Seq(Byte) /\ sock \in Seq(Byte) /\ out \in Seq(Byte)
    /\ pc \in {"send", "await", "top", "read", "done"}
    /\ step \in Nat /\ fired \in Nat
    /\ opts.job = "cli" => printed \in Seq(Pdu)
    /\ opts.job = "wait" => printed \in Seq(Nat \X Nat)

\* The bytes of pdus from the one after the first pos on begin with bytes.
Run(bytes, pdus, pos) == \A k \in 1..Len(bytes) : bytes[k] = Bytes(pdus)[pos + k]

\* The bytes between the daemon and the client's next PDU.
Pending == line \o (buf \o (sock \o out))

\* They are the daemon's bytes after the first pos.
At(pos) ==
    /\ pos + Len(Pending) <= 3 * Len(sent)
    /\ open => pos + Len(Pending) = 3 * Len(sent)
    /\ Run(Pending, sent, pos)

\* What the PDUs before position pos account for.
CliAt(pos) ==
    /\ pos = 3 * Len(printed)
    /\ \A k \in DOMAIN printed : k \in DOMAIN sent /\ printed[k] = sent[k]
WaitAt(pos) ==
    \A k \in DOMAIN printed : \A i \in DOMAIN sent :
        3 * i > pos /\ sent[i].kind = "push" => printed[k][1] < sent[i].id
Answered == IF pc = "await" THEN step - 1 ELSE step
Owed == IF last_event THEN 1 ELSE 0
MakeAt(pos) == 3 * (fired + Owed + Answered) <= pos

InStream(pos) ==
    /\ At(pos)
    /\ opts.job = "cli" => CliAt(pos)
    /\ opts.job = "wait" => WaitAt(pos)
    /\ opts.job = "make" => MakeAt(pos)

Stream == pc # "done" => \E pos \in 0..(3 * Len(sent)) : InStream(pos)

\* Where a client is in its handshake.
Handshake ==
    /\ ~open => out = <<>>
    /\ step <= Len(Requests(opts))
    /\ pc = "send" => step < Len(Requests(opts))
    /\ pc = "await" => step > 0
    /\ pc \in {"top", "read"} => step = Len(Requests(opts))
    /\ pc # "done" => exit = "none"

\* The ids of the pushes count them.
PushIds ==
    /\ \A i \in DOMAIN sent : sent[i].kind = "push" => sent[i].id <= Pushed
    /\ \A i, j \in DOMAIN sent :
          i < j /\ sent[i].kind = "push" /\ sent[j].kind = "push" => sent[i].id < sent[j].id

\* What watchman-wait has printed.
WaitPrinted ==
    opts.job = "wait" =>
        /\ \A k \in DOMAIN printed : printed[k][1] <= Pushed
        /\ opts.max_events > 0 /\ pc # "done" => Len(printed) < opts.max_events
        /\ WaitOutput

\* watchman asks once; an error is the only answer to it and nothing follows.
CliAsks ==
    opts.job = "cli" =>
        /\ pc = "send" => inbox = <<>> /\ sent = <<>> /\ ~pushing /\ ~answering
        /\ inbox # <<>> => inbox = Requests(opts) /\ sent = <<>> /\ ~pushing /\ ~answering
        /\ Response(FALSE) \in Range(sent) =>
              sent = <<Response(FALSE)>> /\ inbox = <<>> /\ ~pushing /\ ~answering
        /\ pc \in {"send", "await"} => printed = <<>>
        /\ pc \in {"top", "read"} => printed # <<>> /\ failed = (printed[1] = Response(FALSE))
        /\ ErrorExits

IInv == Types /\ Handshake /\ Stream /\ PushIds /\ WaitPrinted /\ CliAsks

-----------------------------------------------------------------------------
(* Bytes. *)

\* The fields of a PDU.
LEMMA PduFacts ==
    ASSUME NEW v \in Pdu
    PROVE  /\ v.kind \in {"response", "push"}
           /\ v.kind = "push" => v.id \in Nat /\ v.files \in Nat
           /\ v = Response(FALSE) => v.kind = "response"
  BY DEF Pdu, Responses, Pushes, Response, Push

\* The PDUs of the daemon.
LEMMA PduKinds ==
    /\ Response(TRUE) \in Pdu /\ Response(TRUE).kind # "push"
    /\ Response(FALSE) \in Pdu /\ Response(FALSE).kind # "push"
    /\ Response(TRUE) # Response(FALSE)
    /\ \A id \in Nat : \A n \in Nat :
          Push(id, n) \in Pdu /\ Push(id, n).id = id /\ Push(id, n) # Response(FALSE)
  <1>1. Response(TRUE).kind = "response" /\ Response(FALSE).kind = "response"
    BY DEF Response
  <1>2. TRUE \in BOOLEAN /\ FALSE \in BOOLEAN
    OBVIOUS
  <1>3. Response(TRUE) \in Pdu /\ Response(FALSE) \in Pdu
    <2>1. Response(TRUE) \in Responses /\ Response(FALSE) \in Responses
      BY <1>2, Zenon DEF Responses
    <2>. QED  BY <2>1, Zenon DEF Pdu
  <1>4. Response(TRUE).ok /\ ~Response(FALSE).ok
    BY Zenon DEF Response
  <1>5. ASSUME NEW id \in Nat, NEW n \in Nat
        PROVE  Push(id, n) \in Pdu /\ Push(id, n).id = id /\ Push(id, n).kind = "push"
    <2>1. Push(id, n) \in Pushes
      BY DEF Pushes
    <2>2. Push(id, n) \in Pdu
      BY <2>1 DEF Pdu
    <2>. QED  BY <2>2 DEF Push
  <1>6. "response" # "push"
    OBVIOUS
  <1>. QED  BY <1>1, <1>3, <1>4, <1>5, <1>6, Zenon

\* A line is the two halves of its PDU and a newline, which is neither.
LEMMA LineFacts ==
    ASSUME NEW v \in Pdu
    PROVE  /\ Line(v) \in Seq(Byte) /\ Len(Line(v)) = 3
           /\ Line(v)[1] = <<v, 1>> /\ Line(v)[2] = <<v, 2>> /\ Line(v)[3] = NL
           /\ <<v, 1>> \in Byte /\ <<v, 2>> \in Byte /\ NL \in Byte
           /\ <<v, 1>> # NL /\ <<v, 2>> # NL /\ <<v, 1>> # <<v, 2>>
  <1>1. <<v, 1>> \in Byte /\ <<v, 2>> \in Byte /\ NL \in Byte
    BY DEF Byte
  <1>2. <<v, 1>> # NL /\ <<v, 2>> # NL /\ <<v, 1>> # <<v, 2>>
    BY DEF NL
  <1>. QED  BY <1>1, <1>2 DEF Line

\* Which PDU and which part of it a byte is.
LEMMA Halves ==
    ASSUME NEW v, NEW w, NEW i \in {1, 2}, NEW j \in {1, 2}
    PROVE  /\ <<v, i>> = <<w, j>> <=> v = w /\ i = j
           /\ <<v, i>> # NL /\ <<v, i>>[1] = v
  BY DEF NL

\* The bytes of a stream, by PDU.
LEMMA BytesFacts ==
    ASSUME NEW s \in Seq(Pdu)
    PROVE  /\ Bytes(s) \in Seq(Byte) /\ Len(Bytes(s)) = 3 * Len(s)
           /\ \A i \in 1..Len(s) : /\ Bytes(s)[3 * i - 2] = <<s[i], 1>>
                                    /\ Bytes(s)[3 * i - 1] = <<s[i], 2>>
                                    /\ Bytes(s)[3 * i] = NL
           /\ \A k \in 1..(3 * Len(s)) :
                 \E i \in 1..Len(s) : k \in {3 * i - 2, 3 * i - 1, 3 * i}
  <1>1. Len(s) \in Nat
    OBVIOUS
  <1>2. ASSUME NEW k \in 1..(3 * Len(s))
        PROVE  LET i == (k + 2) \div 3 IN i \in 1..Len(s) /\ k \in {3 * i - 2, 3 * i - 1, 3 * i}
    BY <1>1
  <1>3. ASSUME NEW i \in 1..Len(s)
        PROVE  /\ 3 * i - 2 \in 1..(3 * Len(s)) /\ (3 * i - 2 + 2) \div 3 = i
               /\ ((3 * i - 2 + 2) % 3) + 1 = 1
               /\ 3 * i - 1 \in 1..(3 * Len(s)) /\ (3 * i - 1 + 2) \div 3 = i
               /\ ((3 * i - 1 + 2) % 3) + 1 = 2
               /\ 3 * i \in 1..(3 * Len(s)) /\ (3 * i + 2) \div 3 = i
               /\ ((3 * i + 2) % 3) + 1 = 3
    BY <1>1
  <1>4. ASSUME NEW i \in 1..Len(s)
        PROVE  /\ Bytes(s)[3 * i - 2] = <<s[i], 1>>
               /\ Bytes(s)[3 * i - 1] = <<s[i], 2>>
               /\ Bytes(s)[3 * i] = NL
    <2>1. s[i] \in Pdu
      OBVIOUS
    <2>2. \A k \in 1..(3 * Len(s)) : Bytes(s)[k] = Line(s[(k + 2) \div 3])[((k + 2) % 3) + 1]
      BY DEF Bytes
    <2>3. /\ Bytes(s)[3 * i - 2] = Line(s[i])[1] /\ Bytes(s)[3 * i - 1] = Line(s[i])[2]
          /\ Bytes(s)[3 * i] = Line(s[i])[3]
      BY <1>3, <2>2, Zenon
    <2>. QED  BY <2>1, <2>3, LineFacts, Zenon
  <1>5. \A i \in 1..Len(s) : s[i] \in Pdu
    OBVIOUS
  <1>6. ASSUME NEW k \in 1..(3 * Len(s)) PROVE Bytes(s)[k] \in Byte
    <2>1. PICK i \in 1..Len(s) : k \in {3 * i - 2, 3 * i - 1, 3 * i}
      BY <1>2
    <2>2. <<s[i], 1>> \in Byte /\ <<s[i], 2>> \in Byte /\ NL \in Byte
      BY <1>5, LineFacts
    <2>3. /\ Bytes(s)[3 * i - 2] = <<s[i], 1>> /\ Bytes(s)[3 * i - 1] = <<s[i], 2>>
          /\ Bytes(s)[3 * i] = NL
      BY <1>4
    <2>4. k = 3 * i - 2 \/ k = 3 * i - 1 \/ k = 3 * i
      BY <2>1
    <2>. QED  BY <2>2, <2>3, <2>4, Zenon
  <1>7. 3 * Len(s) \in Nat
    BY <1>1
  <1>8. Bytes(s) \in [1..(3 * Len(s)) -> Byte]
    BY <1>6 DEF Bytes
  <1>9. Bytes(s) \in Seq(Byte) /\ Len(Bytes(s)) = 3 * Len(s)
    BY <1>7, <1>8
  <1>. QED  BY <1>2, <1>4, <1>9

\* A PDU more is a line more.
LEMMA BytesAppend ==
    ASSUME NEW s \in Seq(Pdu), NEW v \in Pdu
    PROVE  /\ \A k \in 1..(3 * Len(s)) : Bytes(Append(s, v))[k] = Bytes(s)[k]
           /\ \A k \in 1..3 : Bytes(Append(s, v))[3 * Len(s) + k] = Line(v)[k]
  <1>1. /\ Append(s, v) \in Seq(Pdu) /\ Len(Append(s, v)) = Len(s) + 1 /\ Len(s) \in Nat
        /\ Append(s, v)[Len(s) + 1] = v
        /\ \A i \in 1..Len(s) : Append(s, v)[i] = s[i]
    OBVIOUS
  <1>2. ASSUME NEW k \in 1..(3 * Len(s)) PROVE Bytes(Append(s, v))[k] = Bytes(s)[k]
    <2>1. PICK i \in 1..Len(s) : k \in {3 * i - 2, 3 * i - 1, 3 * i}
      BY BytesFacts
    <2>2. i \in 1..Len(Append(s, v))
      BY <1>1
    <2>3. \A t \in Seq(Pdu) : i \in 1..Len(t) =>
             /\ Bytes(t)[3 * i - 2] = <<t[i], 1>> /\ Bytes(t)[3 * i - 1] = <<t[i], 2>>
             /\ Bytes(t)[3 * i] = NL
      BY BytesFacts, Zenon
    <2>. QED  BY <1>1, <2>1, <2>2, <2>3, Zenon
  <1>3. ASSUME NEW k \in 1..3 PROVE Bytes(Append(s, v))[3 * Len(s) + k] = Line(v)[k]
    <2>1. LET i == Len(s) + 1
          IN  3 * Len(s) + 1 = 3 * i - 2 /\ 3 * Len(s) + 2 = 3 * i - 1 /\ 3 * Len(s) + 3 = 3 * i
              /\ i \in 1..Len(Append(s, v))
      BY <1>1
    <2>2. k = 1 \/ k = 2 \/ k = 3
      OBVIOUS
    <2>3. LET i == Len(s) + 1
              t == Append(s, v)
          IN  /\ Bytes(t)[3 * i - 2] = <<v, 1>> /\ Bytes(t)[3 * i - 1] = <<v, 2>>
              /\ Bytes(t)[3 * i] = NL
      <3>1. PICK t \in Seq(Pdu) : t = Append(s, v)
        BY <1>1, Zenon
      <3>2. PICK i \in 1..Len(t) : i = Len(s) + 1 /\ t[i] = v
        BY <1>1, <2>1, <3>1, Zenon
      <3>3. /\ Bytes(t)[3 * i - 2] = <<t[i], 1>> /\ Bytes(t)[3 * i - 1] = <<t[i], 2>>
            /\ Bytes(t)[3 * i] = NL
        BY BytesFacts, Zenon
      <3>. QED  BY <3>1, <3>2, <3>3, Zenon
    <2>. QED  BY <2>1, <2>2, <2>3, LineFacts, Zenon
  <1>. QED  BY <1>2, <1>3

\* A run of bytes in two parts.
LEMMA RunSplit ==
    ASSUME NEW a \in Seq(Byte), NEW b \in Seq(Byte), NEW s, NEW pos \in Nat
    PROVE  Run(a \o b, s, pos) <=> Run(a, s, pos) /\ Run(b, s, pos + Len(a))
  <1>1. /\ Len(a) \in Nat /\ Len(b) \in Nat /\ Len(a \o b) = Len(a) + Len(b)
        /\ \A k \in 1..Len(a) : (a \o b)[k] = a[k]
        /\ \A k \in 1..Len(b) : (a \o b)[Len(a) + k] = b[k]
    OBVIOUS
  <1>2. ASSUME Run(a \o b, s, pos), NEW k \in 1..Len(a) PROVE a[k] = Bytes(s)[pos + k]
    <2>1. k \in 1..Len(a \o b)
      BY <1>1
    <2>. QED  BY <1>1, <1>2, <2>1 DEF Run
  <1>3. ASSUME Run(a \o b, s, pos), NEW k \in 1..Len(b) PROVE b[k] = Bytes(s)[(pos + Len(a)) + k]
    <2>1. Len(a) + k \in 1..Len(a \o b) /\ pos + (Len(a) + k) = (pos + Len(a)) + k
      BY <1>1
    <2>. QED  BY <1>1, <1>3, <2>1, Zenon DEF Run
  <1>4. ASSUME Run(a, s, pos), Run(b, s, pos + Len(a)), NEW k \in 1..Len(a \o b)
        PROVE  (a \o b)[k] = Bytes(s)[pos + k]
    <2>1. CASE k \in 1..Len(a)
      BY <1>1, <1>4, <2>1 DEF Run
    <2>2. CASE k \notin 1..Len(a)
      <3>1. /\ k - Len(a) \in 1..Len(b) /\ Len(a) + (k - Len(a)) = k
            /\ (pos + Len(a)) + (k - Len(a)) = pos + k
        BY <1>1, <2>2
      <3>. QED  BY <1>1, <1>4, <3>1 DEF Run
    <2>. QED  BY <2>1, <2>2
  <1>. QED  BY <1>2, <1>3, <1>4 DEF Run

\* A sequence cut in two.
LEMMA Cut ==
    ASSUME NEW s \in Seq(Byte), NEW k \in 0..Len(s)
    PROVE  /\ SubSeq(s, 1, k) \in Seq(Byte) /\ Len(SubSeq(s, 1, k)) = k
           /\ SubSeq(s, k + 1, Len(s)) \in Seq(Byte) /\ Len(SubSeq(s, k + 1, Len(s))) = Len(s) - k
           /\ s = SubSeq(s, 1, k) \o SubSeq(s, k + 1, Len(s))
  <1>. DEFINE a == SubSeq(s, 1, k)
              b == SubSeq(s, k + 1, Len(s))
  <1>1. /\ a \in Seq(Byte) /\ Len(a) = k /\ \A i \in 1..k : a[i] = s[i]
        /\ b \in Seq(Byte) /\ Len(b) = Len(s) - k
        /\ \A i \in 1..(Len(s) - k) : b[i] = s[k + i]
    OBVIOUS
  <1>. HIDE DEF a, b
  <1>2. /\ a \o b \in Seq(Byte) /\ Len(a \o b) = Len(s)
        /\ \A i \in 1..Len(s) : (a \o b)[i] = IF i <= k THEN a[i] ELSE b[i - k]
    BY <1>1
  <1>3. \A i \in 1..Len(s) : (a \o b)[i] = s[i]
    BY <1>1, <1>2
  <1>4. s = a \o b
    <2>1. PICK t : t = a \o b
      BY Zenon
    <2>2. t \in Seq(Byte) /\ Len(t) = Len(s) /\ \A i \in 1..Len(s) : t[i] = s[i]
      BY <1>2, <1>3, <2>1
    <2>3. t = s
      BY <2>2
    <2>. QED  BY <2>1, <2>3
  <1>. QED  BY <1>1, <1>4, Zenon DEF a, b

\* The elements of a concatenation.
LEMMA Concat ==
    ASSUME NEW S, NEW s \in Seq(S), NEW t \in Seq(S)
    PROVE  /\ s \o t \in Seq(S) /\ Len(s \o t) = Len(s) + Len(t)
           /\ \A k \in 1..Len(s) : (s \o t)[k] = s[k]
           /\ \A k \in 1..Len(t) : (s \o t)[Len(s) + k] = t[k]
  OBVIOUS

\* Concatenation is associative.
LEMMA Regroup ==
    ASSUME NEW a \in Seq(Byte), NEW b \in Seq(Byte), NEW c \in Seq(Byte)
    PROVE  (a \o b) \o c = a \o (b \o c)
  OBVIOUS

\* What is queued after four pieces is queued after their concatenation.
Chain(a, b, c, d) == a \o (b \o (c \o d))
Queue(s, t) == s \o t
Joined(f, a, b, c, d) == f \o a \o b \o c \o d
LEMMA AtTheEnd ==
    ASSUME NEW a \in Seq(Byte), NEW b \in Seq(Byte), NEW c \in Seq(Byte), NEW d \in Seq(Byte),
           NEW e \in Seq(Byte)
    PROVE  /\ Chain(a, b, c, d) \in Seq(Byte)
           /\ Chain(a, b, c, Queue(d, e)) = Queue(Chain(a, b, c, d), e)
  <1>. DEFINE Cat(x, y) == x \o y
  <1>1. \A x \in Seq(Byte) : \A y \in Seq(Byte) : Cat(x, y) \in Seq(Byte)
    OBVIOUS
  <1>2. \A x \in Seq(Byte) : \A y \in Seq(Byte) : \A z \in Seq(Byte) :
           Cat(Cat(x, y), z) = Cat(x, Cat(y, z))
    BY Regroup, Zenon
  <1>3. SUFFICES /\ Cat(a, Cat(b, Cat(c, d))) \in Seq(Byte)
                 /\ Cat(a, Cat(b, Cat(c, Cat(d, e)))) = Cat(Cat(a, Cat(b, Cat(c, d))), e)
    BY DEF Chain, Queue
  <1>. HIDE DEF Cat
  <1>4. Cat(c, d) \in Seq(Byte) /\ Cat(c, Cat(d, e)) = Cat(Cat(c, d), e)
    BY <1>1, <1>2
  <1>5. /\ Cat(b, Cat(c, d)) \in Seq(Byte)
        /\ Cat(b, Cat(Cat(c, d), e)) = Cat(Cat(b, Cat(c, d)), e)
    BY <1>1, <1>2, <1>4
  <1>6. /\ Cat(a, Cat(b, Cat(c, d))) \in Seq(Byte)
        /\ Cat(a, Cat(Cat(b, Cat(c, d)), e)) = Cat(Cat(a, Cat(b, Cat(c, d))), e)
    BY <1>1, <1>2, <1>5
  <1>. QED  BY <1>4, <1>5, <1>6

\* The pieces after a prefix, however they are grouped.
LEMMA Grouped ==
    ASSUME NEW f \in Seq(Byte), NEW a \in Seq(Byte), NEW b \in Seq(Byte), NEW c \in Seq(Byte),
           NEW d \in Seq(Byte)
    PROVE  /\ Chain(a, b, c, d) \in Seq(Byte)
           /\ Joined(f, a, b, c, d) = Queue(f, Chain(a, b, c, d))
  <1>. DEFINE Cat(x, y) == x \o y
  <1>1. \A x \in Seq(Byte) : \A y \in Seq(Byte) : Cat(x, y) \in Seq(Byte)
    OBVIOUS
  <1>2. \A x \in Seq(Byte) : \A y \in Seq(Byte) : \A z \in Seq(Byte) :
           Cat(Cat(x, y), z) = Cat(x, Cat(y, z))
    BY Regroup, Zenon
  <1>3. SUFFICES /\ Cat(a, Cat(b, Cat(c, d))) \in Seq(Byte)
                 /\ Cat(Cat(Cat(Cat(f, a), b), c), d) = Cat(f, Cat(a, Cat(b, Cat(c, d))))
    BY DEF Chain, Queue, Joined
  <1>. HIDE DEF Cat
  <1>4. /\ Cat(c, d) \in Seq(Byte) /\ Cat(f, a) \in Seq(Byte)
        /\ Cat(b, Cat(c, d)) \in Seq(Byte) /\ Cat(Cat(f, a), b) \in Seq(Byte)
        /\ Cat(a, Cat(b, Cat(c, d))) \in Seq(Byte)
    BY <1>1
  <1>5. Cat(Cat(Cat(Cat(f, a), b), c), d) = Cat(Cat(Cat(f, a), b), Cat(c, d))
    BY <1>2, <1>4
  <1>6. Cat(Cat(Cat(f, a), b), Cat(c, d)) = Cat(Cat(f, a), Cat(b, Cat(c, d)))
    BY <1>2, <1>4
  <1>7. Cat(Cat(f, a), Cat(b, Cat(c, d))) = Cat(f, Cat(a, Cat(b, Cat(c, d))))
    BY <1>2, <1>4
  <1>. QED  BY <1>4, <1>5, <1>6, <1>7

\* Bytes at the front of one piece put at the end of the piece before it.
LEMMA TakenOver ==
    ASSUME NEW a \in Seq(Byte), NEW b \in Seq(Byte), NEW t \in Seq(Byte), NEW r \in Seq(Byte),
           NEW e \in Seq(Byte)
    PROVE  Queue(b, t) \in Seq(Byte) /\ Chain(a, b, Queue(t, r), e) = Chain(a, Queue(b, t), r, e)
  <1>. DEFINE Cat(x, y) == x \o y
  <1>1. \A x \in Seq(Byte) : \A y \in Seq(Byte) : Cat(x, y) \in Seq(Byte)
    OBVIOUS
  <1>2. \A x \in Seq(Byte) : \A y \in Seq(Byte) : \A z \in Seq(Byte) :
           Cat(Cat(x, y), z) = Cat(x, Cat(y, z))
    BY Regroup, Zenon
  <1>3. SUFFICES /\ Cat(b, t) \in Seq(Byte)
                 /\ Cat(a, Cat(b, Cat(Cat(t, r), e))) = Cat(a, Cat(Cat(b, t), Cat(r, e)))
    BY DEF Chain, Queue
  <1>. HIDE DEF Cat
  <1>4. Cat(t, r) \in Seq(Byte) /\ Cat(r, e) \in Seq(Byte) /\ Cat(b, t) \in Seq(Byte)
    BY <1>1
  <1>5. Cat(Cat(t, r), e) = Cat(t, Cat(r, e)) /\ Cat(Cat(b, t), Cat(r, e)) = Cat(b, Cat(t, Cat(r, e)))
    BY <1>2, <1>4
  <1>. QED  BY <1>4, <1>5

\* A byte taken from the front of a sequence and put at the end of the one before it.
LEMMA MovedOver ==
    ASSUME NEW a \in Seq(Byte), NEW b \in Seq(Byte), b # <<>>
    PROVE  /\ Append(a, Head(b)) \in Seq(Byte) /\ Tail(b) \in Seq(Byte)
           /\ Append(a, Head(b)) \o Tail(b) = a \o b
  OBVIOUS

\* A sequence that agrees with another up to its own length is a prefix of it.
LEMMA Agree ==
    ASSUME NEW s \in Seq(Byte), NEW t \in Seq(Byte), Len(s) <= Len(t),
           \A k \in 1..Len(s) : s[k] = t[k]
    PROVE  s = SubSeq(t, 1, Len(s)) /\ (Len(s) = Len(t) => s = t)
  OBVIOUS

-----------------------------------------------------------------------------
(* Reading. *)

\* A line that parses is the next PDU of the stream.
LEMMA ParseOk ==
    ASSUME sent \in Seq(Pdu), NEW t \in Seq(Byte), NEW pos \in Nat, Run(t, sent, pos),
           pos + Len(t) <= 3 * Len(sent), parse(t).tag = "ok"
    PROVE  \E i \in 1..Len(sent) : pos = 3 * i - 3 /\ parse(t) = Ok(sent[i]) /\ Len(t) = 2
  <1>1. PICK j \in DOMAIN sent : t # <<>> /\ Line(sent[j]) = Append(t, NL) /\ parse(t) = Ok(Head(t)[1])
    BY Zenon DEF parse, Err
  <1>2. sent[j] \in Pdu
    BY <1>1
  <1>3. Len(t) = 2 /\ t[1] = <<sent[j], 1>> /\ Head(t) = t[1]
    <2>1. Len(Append(t, NL)) = 3
      BY <1>1, <1>2, LineFacts, Zenon
    <2>2. NL \in Byte /\ Len(Append(t, NL)) = Len(t) + 1 /\ Len(t) \in Nat
      BY DEF Byte
    <2>3. Len(t) = 2
      <3>1. PICK n \in Nat : n = Len(t)
        OBVIOUS
      <3>2. 3 = n + 1
        BY <2>1, <2>2, <3>1, Zenon
      <3>3. n = 2
        BY <3>2
      <3>. QED  BY <3>1, <3>3
    <2>4. Append(t, NL)[1] = t[1] /\ Head(t) = t[1]
      BY <2>2, <2>3
    <2>5. Append(t, NL)[1] = <<sent[j], 1>>
      BY <1>1, <1>2, LineFacts, Zenon
    <2>. QED  BY <2>3, <2>4, <2>5
  <1>4. parse(t) = Ok(sent[j])
    BY <1>1, <1>3
  <1>5. Bytes(sent)[pos + 1] = <<sent[j], 1>>
    BY <1>3 DEF Run
  <1>6. Len(sent) \in Nat /\ pos + 1 \in 1..(3 * Len(sent))
    BY <1>3
  <1>7. PICK i \in 1..Len(sent) : pos + 1 \in {3 * i - 2, 3 * i - 1, 3 * i}
    BY <1>6, BytesFacts
  <1>8. /\ Bytes(sent)[3 * i - 2] = <<sent[i], 1>> /\ Bytes(sent)[3 * i - 1] = <<sent[i], 2>>
        /\ Bytes(sent)[3 * i] = NL
    BY BytesFacts, Zenon
  <1>9. pos + 1 = 3 * i - 2 /\ sent[i] = sent[j]
    <2>1. <<sent[j], 1>> # NL /\ <<sent[j], 1>> # <<sent[i], 2>>
      BY Halves
    <2>2. pos + 1 # 3 * i - 1 /\ pos + 1 # 3 * i
      BY <1>5, <1>8, <2>1, Zenon
    <2>3. pos + 1 = 3 * i - 2
      BY <1>7, <2>2
    <2>4. <<sent[i], 1>> = <<sent[j], 1>>
      BY <1>5, <1>8, <2>3
    <2>. QED  BY <2>3, <2>4, Halves
  <1>10. pos = 3 * i - 3
    BY <1>9
  <1>. QED  BY <1>3, <1>4, <1>9, <1>10

\* A result that is no PDU; none of them is an io::Error itself.
Refusal(r) ==
    r = None \/ \E kind : r = Err("ProtocolError", kind) \/ r = Err("Context", kind)

LEMMA ParseOther ==
    ASSUME NEW t PROVE parse(t).tag = "ok" \/ Refusal(parse(t))
  BY Zenon DEF parse, Ok, Err, Refusal

\* The types of the command line.
LEMMA OptsFacts ==
    ASSUME opts \in Options
    PROVE  /\ opts.job \in {"wait", "make", "cli"}
           /\ opts.dirs \in Seq(Dirs) /\ opts.dirs # <<>>
           /\ opts.max_events \in Nat
           /\ Requests(opts) \in Seq(Request) /\ Len(Requests(opts)) > 0
           /\ opts.job = "cli" => Requests(opts) = <<[cmd |-> "subscribe", dir |-> opts.dirs[1]]>>
  <1>1. opts.job \in {"wait", "make", "cli"} /\ opts.dirs \in Seq(Dirs) /\ opts.dirs # <<>>
        /\ opts.max_events \in Nat
    BY CompanionAssumption
  <1>. DEFINE watch == [i \in DOMAIN opts.dirs |-> [cmd |-> "watch-project", dir |-> opts.dirs[i]]]
              subscribe == <<[cmd |-> "subscribe", dir |-> opts.dirs[1]]>>
  <1>2. opts.dirs[1] \in Dirs /\ DOMAIN opts.dirs = 1..Len(opts.dirs) /\ Len(opts.dirs) \in Nat
        /\ \A i \in 1..Len(opts.dirs) : opts.dirs[i] \in Dirs
    BY <1>1
  <1>3. watch \in [1..Len(opts.dirs) -> Request]
    BY <1>2 DEF Request
  <1>4. watch \in Seq(Request)
    <2>. HIDE DEF watch
    <2>1. PICK n \in Nat : n = Len(opts.dirs)
      BY <1>2
    <2>2. watch \in [1..n -> Request]
      BY <1>3, <2>1
    <2>. QED  BY <2>2
  <1>5. [cmd |-> "subscribe", dir |-> opts.dirs[1]] \in Request
    BY <1>2 DEF Request
  <1>6. subscribe \in Seq(Request) /\ Len(subscribe) = 1 /\ Len(subscribe) > 0
    BY <1>5
  <1>7. Requests(opts) = IF opts.job = "cli" THEN subscribe ELSE watch \o subscribe
    BY Zenon DEF Requests
  <1>8. watch \o subscribe \in Seq(Request) /\ Len(watch \o subscribe) > 0
    <2>. HIDE DEF watch, subscribe
    <2>. QED  BY <1>4, <1>6
  <1>. QED  BY <1>1, <1>6, <1>7, <1>8, Zenon

\* The handler of a result.
LEMMA OnIs ==
    ASSUME NEW r, On(r), pc \in {"await", "read"}, opts.job \in {"wait", "make", "cli"}
    PROVE  LET result == IF r = None /\ opts.job # "cli" THEN Err("Context", "Closed") ELSE r
           IN  /\ opts.job = "cli" /\ pc = "await" => respond(result)
               /\ opts.job = "cli" /\ pc = "read" => drain(result)
               /\ opts.job # "cli" /\ pc = "await" => swallow(result)
               /\ opts.job = "wait" /\ pc = "read" => wait(result)
               /\ opts.job = "make" /\ pc = "read" => make(result)
  BY Zenon DEF On

\* What a read leaves alone.
ReadFrame ==
    /\ UNCHANGED <<opts, daemon, step, late, sent>>
    /\ line' \in Seq(Byte) /\ buf' \in Seq(Byte) /\ sock' \in Seq(Byte)

\* The ids of an unchanged stream.
LEMMA SameStream ==
    ASSUME sent' = sent PROVE Pushed' = Pushed /\ (PushIds => PushIds')
  BY DEF Pushed, PushIds

\* err_present is read from the first PDU, and an error is the first.
LEMMA NoErrorYet ==
    ASSUME IInv, opts.job = "cli", pc \in {"top", "read"}, ~failed
    PROVE  Response(FALSE) \notin Range(sent)
  <1>. SUFFICES ASSUME Response(FALSE) \in Range(sent) PROVE FALSE
    BY Zenon
  <1>1. sent = <<Response(FALSE)>> /\ printed # <<>> /\ printed[1] # Response(FALSE)
    BY Zenon DEF IInv, CliAsks
  <1>2. printed \in Seq(Pdu) /\ \A k \in DOMAIN printed : printed[k] = sent[k]
    BY Zenon DEF IInv, Types, Stream, InStream, CliAt
  <1>3. 1 \in DOMAIN printed
    BY <1>1, <1>2
  <1>. QED  BY <1>1, <1>2, <1>3, Zenon

\* Any result that is no PDU ends the client.
LEMMA RefusedEnds ==
    ASSUME IInv, pc \in {"await", "read"}, NEW r, Refusal(r), On(r)
    PROVE  /\ pc' = "done" /\ UNCHANGED effects
           /\ exit' = "ok" => opts.job = "cli" /\ pc = "read" /\ ~failed
  <1>. DEFINE result == IF r = None /\ opts.job # "cli" THEN Err("Context", "Closed") ELSE r
  <1>1. opts.job \in {"wait", "make", "cli"}
    BY OptsFacts, Zenon DEF IInv, Types
  <1>2. /\ result.tag # "ok" /\ (opts.job # "cli" => result.tag = "err" /\ ~timed_out(result))
    BY DEF Refusal, None, Err, timed_out
  <1>. HIDE DEF result
  <1>3. CASE opts.job = "cli" /\ pc = "await"
    <2>1. respond(result)
      BY <1>1, <1>3, OnIs, Zenon DEF result
    <2>. QED  BY <1>2, <1>3, <2>1 DEF respond, Finish, effects
  <1>4. CASE opts.job = "cli" /\ pc = "read"
    <2>1. drain(result)
      BY <1>1, <1>4, OnIs, Zenon DEF result
    <2>. QED  BY <1>2, <1>4, <2>1 DEF drain, Finish, effects
  <1>5. CASE opts.job # "cli" /\ pc = "await"
    <2>1. swallow(result)
      BY <1>1, <1>5, OnIs, Zenon DEF result
    <2>. QED  BY <1>2, <1>5, <2>1 DEF swallow, Finish, effects
  <1>6. CASE opts.job = "wait" /\ pc = "read"
    <2>1. wait(result)
      BY <1>1, <1>6, OnIs, Zenon DEF result
    <2>. QED  BY <1>2, <1>6, <2>1 DEF wait, Finish, effects
  <1>7. CASE opts.job = "make" /\ pc = "read"
    <2>1. make(result)
      BY <1>1, <1>7, OnIs, Zenon DEF result
    <2>. QED  BY <1>2, <1>7, <2>1, Zenon DEF make, Finish, effects
  <1>. QED  BY <1>1, <1>3, <1>4, <1>5, <1>6, <1>7

\* What it printed and what the daemon sent is then final.
LEMMA RefusedStep ==
    ASSUME IInv, pc \in {"await", "read"}, NEW r, Refusal(r), On(r), ReadFrame
    PROVE  IInv'
  <1>1. pc' = "done" /\ UNCHANGED <<failed, last_event, fired, printed>>
        /\ (exit' = "ok" => opts.job = "cli" /\ pc = "read" /\ ~failed)
    BY RefusedEnds DEF effects
  <1>2. UNCHANGED <<opts, roots, inbox, answering, pushing, open, out, step, late, sent>>
        /\ line' \in Seq(Byte) /\ buf' \in Seq(Byte) /\ sock' \in Seq(Byte)
    BY DEF ReadFrame, daemon
  <1>3. Types'
    BY <1>1, <1>2 DEF IInv, Types
  <1>4. Handshake'
    BY <1>1, <1>2 DEF IInv, Handshake, Requests
  <1>5. Stream' /\ PushIds' /\ Pushed' = Pushed
    BY <1>1, <1>2, SameStream DEF IInv, Stream
  <1>6. WaitPrinted'
    BY <1>1, <1>2, <1>5 DEF IInv, WaitPrinted, WaitOutput
  <1>7. CliAsks'
    <2>1. ErrorExits'
      <3>. SUFFICES ASSUME opts'.job = "cli", exit' = "ok"
                    PROVE  Response(FALSE) \notin Range(sent')
        BY Zenon DEF ErrorExits
      <3>. QED  BY <1>1, <1>2, NoErrorYet, Zenon
    <2>. QED  BY <1>1, <1>2, <2>1, Zenon DEF IInv, CliAsks, Requests
  <1>. QED  BY <1>3, <1>4, <1>5, <1>6, <1>7 DEF IInv

\* A PDU taken from the stream: the i-th, leaving the client at position q.
Taken(i, q) ==
    /\ pc \in {"await", "read"} /\ ReadFrame
    /\ InStream(3 * i - 3)
    /\ At(q)' /\ q >= 3 * i /\ (opts.job = "cli" => q = 3 * i)
    /\ On(Ok(sent[i]))

\* `watchman` prints it, and looks for an error in the first.
LEMMA CliTakes ==
    ASSUME IInv, opts.job = "cli", NEW i \in 1..Len(sent), NEW q \in 0..(3 * Len(sent)), Taken(i, q)
    PROVE  IInv'
  <1>. DEFINE v == sent[i]
  <1>1. UNCHANGED <<opts, roots, inbox, answering, pushing, open, out, step, late, sent>>
        /\ line' \in Seq(Byte) /\ buf' \in Seq(Byte) /\ sock' \in Seq(Byte)
    BY DEF Taken, ReadFrame, daemon
  <1>2. sent \in Seq(Pdu) /\ printed \in Seq(Pdu) /\ step \in Nat /\ exit = "none"
    BY DEF IInv, Types, Handshake, Taken
  <1>3. Len(Requests(opts)) = 1
    BY OptsFacts DEF IInv, Types
  <1>4. i = Len(printed) + 1 /\ v \in Pdu /\ \A k \in DOMAIN printed : printed[k] = sent[k]
    BY <1>2 DEF Taken, InStream, CliAt
  <1>5. /\ printed' = Append(printed, v)
        /\ UNCHANGED <<last_event, fired>> /\ failed' \in BOOLEAN
        /\ failed' = (printed'[1] = Response(FALSE))
        /\ pc' \in {"top", "done"} /\ (pc' = "top" => exit' = exit)
        /\ exit' = "ok" => ~failed' /\ pc = "await"
    <2>1. Ok(v) # None /\ Ok(v).tag = "ok" /\ Ok(v).pdu = v
      BY DEF Ok, None
    <2>. HIDE DEF v
    <2>2. CASE pc = "await"
      <3>1. respond(Ok(v))
        BY <2>1, <2>2, OnIs, Zenon DEF Taken, v
      <3>2. printed = <<>>
        BY <2>2, Zenon DEF IInv, CliAsks
      <3>3. Append(printed, v)[1] = v
        BY <1>4, <3>2
      <3>. QED  BY <1>2, <2>1, <2>2, <3>1, <3>3, Zenon DEF respond, Goto, Finish
    <2>3. CASE pc = "read"
      <3>1. drain(Ok(v))
        BY <2>1, <2>3, OnIs, Zenon DEF Taken, v
      <3>2. printed # <<>> /\ failed = (printed[1] = Response(FALSE)) /\ failed \in BOOLEAN
        BY <2>3, Zenon DEF IInv, CliAsks, Types
      <3>3. Append(printed, v)[1] = printed[1]
        BY <1>2, <1>4, <3>2
      <3>. QED  BY <1>2, <2>1, <3>1, <3>2, <3>3, Zenon DEF drain, Goto
    <2>. QED  BY <2>2, <2>3, Zenon DEF Taken
  <1>. HIDE DEF v
  <1>6. /\ printed' \in Seq(Pdu) /\ Len(printed') = i /\ printed' # <<>>
        /\ \A k \in DOMAIN printed' : k \in DOMAIN sent /\ printed'[k] = sent[k]
    BY <1>2, <1>4, <1>5 DEF v
  <1>7. Types'
    BY <1>1, <1>5, <1>6 DEF IInv, Types
  <1>8. Handshake'
    BY <1>1, <1>2, <1>3, <1>5 DEF IInv, Handshake, Requests, Taken
  <1>9. Stream' /\ PushIds'
    <2>1. CliAt(q)'
      BY <1>1, <1>6 DEF CliAt, Taken
    <2>. QED  BY <1>1, <2>1, SameStream DEF IInv, Stream, InStream, Taken
  <1>10. WaitPrinted'
    BY <1>1 DEF WaitPrinted
  <1>11. CliAsks'
    <2>1. ErrorExits'
      <3>. SUFFICES ASSUME exit' = "ok", Response(FALSE) \in Range(sent) PROVE FALSE
        BY <1>1, Zenon DEF ErrorExits
      <3>1. sent = <<Response(FALSE)>>
        BY Zenon DEF IInv, CliAsks
      <3>2. 1 \in DOMAIN printed'
        BY <1>6
      <3>3. printed'[1] = Response(FALSE)
        BY <1>6, <3>1, <3>2, Zenon
      <3>. QED  BY <1>5, <3>3, Zenon
    <2>2. pc' \notin {"send", "await"}
      BY <1>5
    <2>. QED  BY <1>1, <1>5, <1>6, <2>1, <2>2, Zenon DEF IInv, CliAsks, Requests
  <1>. QED  BY <1>7, <1>8, <1>9, <1>10, <1>11 DEF IInv

\* The answers to the handshake, whatever they say.
LEMMA AnswerTaken ==
    ASSUME IInv, opts.job # "cli", pc = "await",
           NEW i \in 1..Len(sent), NEW q \in 0..(3 * Len(sent)), Taken(i, q)
    PROVE  IInv'
  <1>1. UNCHANGED <<opts, roots, inbox, answering, pushing, open, out, step, late, sent>>
        /\ line' \in Seq(Byte) /\ buf' \in Seq(Byte) /\ sock' \in Seq(Byte)
    BY DEF Taken, ReadFrame, daemon
  <1>2. opts.job \in {"wait", "make", "cli"} /\ Len(Requests(opts)) \in Nat
    BY OptsFacts DEF IInv, Types
  <1>3. step \in Nat /\ fired \in Nat /\ step <= Len(Requests(opts)) /\ step > 0 /\ exit = "none"
    BY DEF IInv, Types, Handshake
  <1>4. UNCHANGED <<failed, last_event, fired, printed>>
        /\ \/ pc' = "done" /\ exit' = "err"
           \/ pc' = "send" /\ exit' = exit /\ step < Len(Requests(opts))
           \/ pc' = "top" /\ exit' = exit /\ ~(step < Len(Requests(opts)))
    <2>1. Ok(sent[i]) # None /\ Ok(sent[i]).tag = "ok"
      BY DEF Ok, None
    <2>2. swallow(Ok(sent[i]))
      BY <1>2, <2>1, OnIs, Zenon DEF Taken
    <2>. QED  BY <2>1, <2>2 DEF swallow, Goto, Finish, effects
  <1>5. Types'
    BY <1>1, <1>4 DEF IInv, Types
  <1>6. Handshake'
    BY <1>1, <1>2, <1>3, <1>4 DEF IInv, Handshake, Requests
  <1>7. Stream' /\ PushIds' /\ Pushed' = Pushed
    <2>1. ASSUME opts.job = "wait" PROVE WaitAt(q)'
      <3>1. WaitAt(3 * i - 3) /\ \A j \in DOMAIN sent : 3 * j > q => 3 * j > 3 * i - 3
        BY <2>1 DEF Taken, InStream, IInv, Types
      <3>. QED  BY <1>1, <1>4, <3>1, Zenon DEF WaitAt
    <2>2. ASSUME opts.job = "make", pc' # "done" PROVE MakeAt(q)'
      <3>1. Owed' = Owed /\ Owed \in Nat /\ Answered = step - 1 /\ Answered' = step
        BY <1>1, <1>4, <2>2 DEF Owed, Answered
      <3>2. 3 * (fired + Owed + (step - 1)) <= 3 * i - 3 /\ q >= 3 * i
        BY <2>2, <3>1 DEF Taken, InStream, MakeAt
      <3>3. 3 * (fired + Owed + step) <= q
        BY <1>3, <3>1, <3>2
      <3>. QED  BY <1>4, <3>1, <3>3 DEF MakeAt
    <2>. QED  BY <1>1, <2>1, <2>2, SameStream DEF IInv, Stream, InStream, Taken
  <1>8. WaitPrinted'
    BY <1>1, <1>4, <1>7 DEF IInv, WaitPrinted, WaitOutput
  <1>9. CliAsks'
    BY <1>1 DEF CliAsks
  <1>. QED  BY <1>5, <1>6, <1>7, <1>8, <1>9 DEF IInv

\* The lesser of two numbers.
LEMMA MinOfTwo ==
    ASSUME NEW a \in Nat, NEW b \in Nat
    PROVE  Min({a, b}) \in Nat /\ Min({a, b}) <= a /\ Min({a, b}) <= b
           /\ (a > 0 /\ b > 0 => Min({a, b}) > 0)
  <1>1. \E x \in {a, b} : \A y \in {a, b} : x <= y
    BY DEF Min
  <1>2. Min({a, b}) \in {a, b} /\ \A y \in {a, b} : Min({a, b}) <= y
    BY <1>1, Zenon DEF Min
  <1>. QED  BY <1>2

\* The names of a PDU that are printed.
LEMMA NamesTaken ==
    ASSUME IInv, opts.job = "wait", pc = "read", NEW v \in Pdu, On(Ok(v))
    PROVE  \E m \in Nat :
              LET names == [n \in 1..m |-> <<v.id, n>>]
              IN  /\ UNCHANGED <<failed, last_event, fired>>
                  /\ printed' = printed \o names
                  /\ m > 0 => v.kind = "push"
                  /\ opts.max_events > 0 => Len(printed) + m <= opts.max_events
                  /\ \/ /\ pc' = "done" /\ exit' = "ok"
                        /\ opts.max_events > 0 /\ Len(printed) + m = opts.max_events
                     \/ /\ pc' = "top" /\ exit' = exit
                        /\ opts.max_events > 0 => Len(printed) + m < opts.max_events
  <1>1. /\ opts.max_events \in Nat /\ printed \in Seq(Nat \X Nat) /\ Len(printed) \in Nat
        /\ opts.max_events > 0 => Len(printed) < opts.max_events
    <2>1. opts.max_events \in Nat /\ printed \in Seq(Nat \X Nat)
      BY OptsFacts DEF IInv, Types
    <2>2. opts.max_events > 0 => Len(printed) < opts.max_events
      BY DEF IInv, WaitPrinted
    <2>. QED  BY <2>1, <2>2
  <1>2. wait(Ok(v)) /\ Ok(v).tag = "ok" /\ Ok(v).pdu = v
    <2>1. Ok(v) # None /\ Ok(v).tag = "ok" /\ Ok(v).pdu = v
      BY DEF Ok, None
    <2>. QED  BY <2>1, OnIs, Zenon
  <1>. DEFINE size == Len(Names(v))
              room == IF opts.max_events = 0 THEN size ELSE opts.max_events - Len(printed)
              m == Min({room, size})
              names == SubSeq(Names(v), 1, m)
  <1>3. v.kind = "push" => v.id \in Nat /\ v.files \in Nat
    BY PduFacts, Zenon
  <1>4. /\ Names(v) \in Seq(Nat \X Nat) /\ size \in Nat /\ (size > 0 => v.kind = "push")
        /\ \A n \in 1..size : Names(v)[n] = <<v.id, n>>
    <2>1. CASE v.kind = "push"
      <3>1. Names(v) = [n \in 1..v.files |-> <<v.id, n>>]
        BY <2>1 DEF Names
      <3>2. Names(v) \in [1..v.files -> Nat \X Nat]
        BY <1>3, <2>1, <3>1
      <3>3. Names(v) \in Seq(Nat \X Nat) /\ size = v.files
        BY <1>3, <2>1, <3>2
      <3>. QED  BY <1>3, <2>1, <3>1, <3>3
    <2>2. CASE v.kind # "push"
      <3>1. Names(v) = <<>>
        BY <2>2 DEF Names
      <3>. QED  BY <3>1
    <2>. QED  BY <2>1, <2>2
  <1>5. room \in Nat /\ m \in Nat /\ m <= room /\ m <= size
    <2>1. room \in Nat
      BY <1>1, <1>4
    <2>. HIDE DEF room
    <2>. QED  BY <1>4, <2>1, MinOfTwo
  <1>6. /\ UNCHANGED <<failed, last_event, fired>>
        /\ printed' = printed \o names
        /\ IF opts.max_events > 0 /\ Len(printed \o names) >= opts.max_events
           THEN Finish("ok", "none") ELSE Goto("top")
    BY <1>2, Zenon DEF wait
  <1>7. names = [n \in 1..m |-> <<v.id, n>>] /\ names \in Seq(Nat \X Nat) /\ Len(names) = m
    <2>. HIDE DEF room, m
    <2>1. /\ names \in Seq(Nat \X Nat) /\ Len(names) = m
          /\ \A n \in 1..m : names[n] = Names(v)[n]
      BY <1>4, <1>5
    <2>2. \A n \in 1..m : names[n] = <<v.id, n>>
      BY <1>4, <1>5, <2>1
    <2>. HIDE DEF names
    <2>3. names = [n \in 1..m |-> names[n]]
      BY <2>1
    <2>4. names = [n \in 1..m |-> <<v.id, n>>]
      BY <2>2, <2>3, Zenon
    <2>. QED  BY <2>1, <2>4
  <1>. HIDE DEF names
  <1>8. Len(printed \o names) = Len(printed) + m
    <2>. HIDE DEF m
    <2>1. PICK S : printed \in Seq(S) /\ names \in Seq(S)
      BY <1>1, <1>7, Zenon
    <2>2. Len(printed \o names) = Len(printed) + Len(names)
      BY <2>1
    <2>3. Len(names) = m
      BY <1>7, Zenon
    <2>. QED  BY <2>2, <2>3, Zenon
  <1>9. opts.max_events > 0 => Len(printed) + m <= opts.max_events
    <2>1. opts.max_events > 0 => room = opts.max_events - Len(printed)
      BY <1>1
    <2>. HIDE DEF m, room
    <2>. QED  BY <1>1, <1>5, <2>1
  <1>10. m > 0 => v.kind = "push"
    BY <1>4, <1>5
  <1>11. \/ /\ pc' = "done" /\ exit' = "ok"
            /\ opts.max_events > 0 /\ Len(printed) + m = opts.max_events
         \/ /\ pc' = "top" /\ exit' = exit
            /\ opts.max_events > 0 => Len(printed) + m < opts.max_events
    <2>. HIDE DEF m, room
    <2>. QED  BY <1>1, <1>5, <1>6, <1>8, <1>9 DEF Finish, Goto
  <1>. HIDE DEF m
  <1>. QED  BY <1>5, <1>6, <1>7, <1>9, <1>10, <1>11, Zenon

\* watchman-wait reads a PDU and prints its names.
LEMMA WaitTakes ==
    ASSUME IInv, opts.job = "wait", pc = "read",
           NEW i \in 1..Len(sent), NEW q \in 0..(3 * Len(sent)), Taken(i, q)
    PROVE  IInv'
  <1>. DEFINE v == sent[i]
  <1>1. UNCHANGED <<opts, roots, inbox, answering, pushing, open, out, step, late, sent>>
        /\ line' \in Seq(Byte) /\ buf' \in Seq(Byte) /\ sock' \in Seq(Byte)
    BY DEF Taken, ReadFrame, daemon
  <1>2. /\ sent \in Seq(Pdu) /\ printed \in Seq(Nat \X Nat) /\ exit = "none" /\ v \in Pdu
        /\ Len(sent) \in Nat /\ Len(printed) \in Nat
    BY DEF IInv, Types, Handshake
  <1>3. PICK m \in Nat :
           /\ UNCHANGED <<failed, last_event, fired>>
           /\ printed' = printed \o [n \in 1..m |-> <<v.id, n>>]
           /\ m > 0 => v.kind = "push"
           /\ opts.max_events > 0 => Len(printed) + m <= opts.max_events
           /\ \/ /\ pc' = "done" /\ exit' = "ok"
                 /\ opts.max_events > 0 /\ Len(printed) + m = opts.max_events
              \/ /\ pc' = "top" /\ exit' = exit
                 /\ opts.max_events > 0 => Len(printed) + m < opts.max_events
    BY <1>2, NamesTaken, Zenon DEF Taken
  <1>4. m > 0 => v.id \in Nat
    BY <1>2, <1>3, PduFacts, Zenon
  <1>5. PICK l \in Nat :
           /\ l = Len(printed) /\ DOMAIN printed = 1..l
           /\ printed' \in Seq(Nat \X Nat) /\ Len(printed') = l + m /\ DOMAIN printed' = 1..(l + m)
           /\ \A k \in 1..l : printed'[k] = printed[k]
           /\ \A n \in 1..m : printed'[l + n] = <<v.id, n>>
    <2>. DEFINE names == [n \in 1..m |-> <<v.id, n>>]
    <2>1. names \in [1..m -> Nat \X Nat]
      BY <1>4
    <2>2. names \in Seq(Nat \X Nat) /\ Len(names) = m
      <3>. HIDE DEF names
      <3>. QED  BY <2>1
    <2>3. \A n \in 1..m : names[n] = <<v.id, n>>
      OBVIOUS
    <2>4. printed' = printed \o names
      BY <1>3, Zenon
    <2>. HIDE DEF names, v
    <2>5. /\ printed' \in Seq(Nat \X Nat) /\ Len(printed') = Len(printed) + m
          /\ \A k \in 1..Len(printed) : printed'[k] = printed[k]
          /\ \A n \in 1..m : printed'[Len(printed) + n] = <<v.id, n>>
      <3>1. /\ printed \o names \in Seq(Nat \X Nat)
            /\ Len(printed \o names) = Len(printed) + Len(names)
            /\ \A k \in 1..Len(printed) : (printed \o names)[k] = printed[k]
            /\ \A n \in 1..Len(names) : (printed \o names)[Len(printed) + n] = names[n]
        <4>1. PICK S : S = Nat \X Nat
          BY Zenon
        <4>2. printed \in Seq(S) /\ names \in Seq(S)
          BY <1>2, <2>2, <4>1, Zenon
        <4>3. /\ printed \o names \in Seq(S)
              /\ Len(printed \o names) = Len(printed) + Len(names)
          BY <4>2, Concat
        <4>4. \A k \in 1..Len(printed) : (printed \o names)[k] = printed[k]
          BY <4>2, Concat
        <4>5. \A n \in 1..Len(names) : (printed \o names)[Len(printed) + n] = names[n]
          BY <4>2, Concat
        <4>. QED  BY <4>1, <4>3, <4>4, <4>5, Zenon
      <3>. QED  BY <2>2, <2>3, <2>4, <3>1, Zenon
    <2>6. DOMAIN printed = 1..Len(printed) /\ DOMAIN printed' = 1..Len(printed')
      BY <1>2, <2>5
    <2>. QED  BY <1>2, <2>5, <2>6, Zenon
  <1>. HIDE DEF v
  <1>6. \A k \in 1..(l + m) : k \in 1..l \/ \E n \in 1..m : k = l + n
    <2>. TAKE k \in 1..(l + m)
    <2>1. k \in 1..l \/ (k - l \in 1..m /\ k = l + (k - l))
      OBVIOUS
    <2>. QED  BY <2>1, Zenon
  <1>7. Types'
    BY <1>1, <1>3, <1>5, Zenon DEF IInv, Types
  <1>8. Handshake'
    BY <1>1, <1>2, <1>3 DEF IInv, Handshake, Requests
  <1>9. Stream' /\ PushIds' /\ Pushed' = Pushed
    <2>1. ASSUME NEW k \in 1..(l + m), NEW j \in DOMAIN sent, 3 * j > q, sent[j].kind = "push"
          PROVE  printed'[k][1] < sent[j].id
      <3>1. 3 * j > 3 * i - 3 /\ i < j /\ i \in DOMAIN sent
        BY <1>2, <2>1 DEF Taken
      <3>2. CASE k \in 1..l
        BY <1>5, <2>1, <3>1, <3>2, Zenon DEF Taken, InStream, WaitAt
      <3>3. ASSUME NEW n \in 1..m, k = l + n PROVE printed'[k][1] < sent[j].id
        <4>1. printed'[k] = <<v.id, n>>
          BY <1>5, <3>3, Zenon
        <4>2. m > 0 /\ <<v.id, n>>[1] = v.id
          OBVIOUS
        <4>3. v.id < sent[j].id
          BY <1>3, <2>1, <3>1, <4>2, Zenon DEF IInv, PushIds, v
        <4>. QED  BY <4>1, <4>2, <4>3, Zenon
      <3>. QED  BY <1>6, <3>2, <3>3
    <2>2. WaitAt(q)'
      BY <1>1, <1>5, <2>1, Zenon DEF WaitAt
    <2>. QED  BY <1>1, <2>2, SameStream DEF IInv, Stream, InStream, Taken
  <1>10. ASSUME NEW k \in 1..(l + m) PROVE printed'[k][1] <= Pushed
    <2>1. CASE k \in 1..l
      BY <1>5, <2>1, Zenon DEF IInv, WaitPrinted
    <2>2. ASSUME NEW n \in 1..m, k = l + n PROVE printed'[k][1] <= Pushed
      <3>1. printed'[k] = <<v.id, n>>
        BY <1>5, <2>2, Zenon
      <3>2. i \in DOMAIN sent /\ m > 0 /\ <<v.id, n>>[1] = v.id
        BY <1>2
      <3>3. v.id <= Pushed
        BY <1>3, <3>2, Zenon DEF IInv, PushIds, v
      <3>. QED  BY <3>1, <3>2, <3>3, Zenon
    <2>. QED  BY <1>6, <2>1, <2>2
  <1>11. ASSUME NEW k \in 1..(l + m)
         PROVE  IF printed'[k][2] > 1
                THEN k > 1 /\ printed'[k - 1] = <<printed'[k][1], printed'[k][2] - 1>>
                ELSE k > 1 => printed'[k - 1][1] < printed'[k][1]
    <2>1. CASE k \in 1..l
      <3>1. k > 1 => k - 1 \in 1..l
        BY <2>1
      <3>2. k \in DOMAIN printed /\ printed'[k] = printed[k]
            /\ (k > 1 => printed'[k - 1] = printed[k - 1])
        BY <1>5, <2>1, <3>1, Zenon
      <3>. QED  BY <3>2, Zenon DEF IInv, WaitPrinted, WaitOutput
    <2>2. CASE k = l + 1
      <3>1. m > 0 /\ 1 \in 1..m /\ k - 1 = l /\ (k > 1 => l \in 1..l)
        BY <2>2
      <3>2. printed'[k] = <<v.id, 1>> /\ (k > 1 => printed'[k - 1] = printed[l])
        BY <1>5, <2>2, <3>1, Zenon
      <3>3. k > 1 => printed[l][1] < v.id
        <4>1. WaitAt(3 * i - 3)
          BY DEF Taken, InStream
        <4>2. 3 * i > 3 * i - 3 /\ i \in DOMAIN sent
          BY <1>2
        <4>. QED  BY <1>3, <1>5, <3>1, <4>1, <4>2, Zenon DEF WaitAt, v
      <3>. QED  BY <3>2, <3>3
    <2>3. ASSUME NEW n \in 1..m, k = l + n, n # 1
          PROVE  k > 1 /\ printed'[k] = <<v.id, n>> /\ printed'[k - 1] = <<v.id, n - 1>> /\ n > 1
      <3>1. n - 1 \in 1..m /\ k - 1 = l + (n - 1) /\ k > 1 /\ n > 1
        BY <2>3
      <3>. QED  BY <1>5, <2>3, <3>1, Zenon
    <2>4. CASE \E n \in 1..m : k = l + n /\ n # 1
      <3>1. PICK n \in 1..m : k = l + n /\ n # 1
        BY <2>4
      <3>2. k > 1 /\ printed'[k] = <<v.id, n>> /\ printed'[k - 1] = <<v.id, n - 1>> /\ n > 1
        BY <2>3, <3>1, Zenon
      <3>3. <<v.id, n>>[1] = v.id /\ <<v.id, n>>[2] = n
        OBVIOUS
      <3>. QED  BY <3>2, <3>3, Zenon
    <2>. QED  BY <1>6, <2>1, <2>2, <2>4, Zenon
  <1>12. WaitPrinted'
    <2>1. WaitOutput'
      <3>1. \A k \in DOMAIN printed' :
               LET id == printed'[k][1]
                   n  == printed'[k][2]
               IN  IF n > 1 THEN k > 1 /\ printed'[k - 1] = <<id, n - 1>>
                            ELSE k > 1 => printed'[k - 1][1] < id
        BY <1>5, <1>11, Zenon
      <3>2. opts.max_events > 0 => Len(printed') <= opts.max_events
        BY <1>3, <1>5
      <3>3. exit' = "ok" => opts.max_events > 0 /\ Len(printed') = opts.max_events
        BY <1>2, <1>3, <1>5
      <3>. QED  BY <1>1, <3>1, <3>2, <3>3, Zenon DEF WaitOutput
    <2>. QED  BY <1>1, <1>3, <1>5, <1>9, <1>10, <2>1, Zenon DEF WaitPrinted
  <1>13. CliAsks'
    BY <1>1 DEF CliAsks
  <1>. QED  BY <1>7, <1>8, <1>9, <1>12, <1>13 DEF IInv

\* watchman-make reads a PDU: it owes at most one run more.
LEMMA MakeTakes ==
    ASSUME IInv, opts.job = "make", pc = "read",
           NEW i \in 1..Len(sent), NEW q \in 0..(3 * Len(sent)), Taken(i, q)
    PROVE  IInv'
  <1>1. UNCHANGED <<opts, roots, inbox, answering, pushing, open, out, step, late, sent>>
        /\ line' \in Seq(Byte) /\ buf' \in Seq(Byte) /\ sock' \in Seq(Byte)
    BY DEF Taken, ReadFrame, daemon
  <1>2. step \in Nat /\ fired \in Nat /\ last_event \in BOOLEAN /\ exit = "none" /\ Len(sent) \in Nat
    BY DEF IInv, Types, Handshake
  <1>3. /\ UNCHANGED <<failed, printed, exit>> /\ pc' = "top" /\ last_event' \in BOOLEAN
        /\ fired' \in Nat /\ fired' + Owed' <= fired + Owed + 1
    <2>1. Ok(sent[i]) # None /\ Ok(sent[i]).tag = "ok"
      BY DEF Ok, None
    <2>2. make(Ok(sent[i]))
      BY <2>1, OnIs, Zenon DEF Taken
    <2>3. UNCHANGED <<failed, printed, exit>> /\ pc' = "top"
      BY <2>1, <2>2 DEF make, Goto
    <2>4. \E settled \in BOOLEAN : last_event' = ~settled
                                   /\ fired' = IF settled THEN fired + 1 ELSE fired
      BY <2>1, <2>2 DEF make
    <2>. QED  BY <1>2, <2>3, <2>4 DEF Owed
  <1>4. Types'
    BY <1>1, <1>3 DEF IInv, Types
  <1>5. Handshake'
    BY <1>1, <1>2, <1>3 DEF IInv, Handshake, Requests
  <1>6. Stream' /\ PushIds'
    <2>1. Owed \in Nat /\ Owed' \in Nat /\ Answered = step /\ Answered' = step
      BY <1>1, <1>3 DEF Owed, Answered
    <2>2. 3 * (fired + Owed + step) <= 3 * i - 3 /\ q >= 3 * i
      BY <2>1 DEF Taken, InStream, MakeAt
    <2>3. 3 * (fired' + Owed' + step) <= q
      <3>1. PICK a \in Nat, b \in Nat, c \in Nat, d \in Nat :
               a = fired /\ b = Owed /\ c = fired' /\ d = Owed'
        BY <1>2, <1>3, <2>1, Zenon
      <3>2. c + d <= a + b + 1 /\ 3 * (a + b + step) <= 3 * i - 3
        BY <1>3, <2>2, <3>1, Zenon
      <3>3. 3 * (c + d + step) <= q
        BY <1>2, <2>2, <3>2
      <3>. QED  BY <3>1, <3>3, Zenon
    <2>4. MakeAt(q)'
      BY <2>1, <2>3 DEF MakeAt
    <2>. QED  BY <1>1, <2>4, SameStream DEF IInv, Stream, InStream, Taken
  <1>7. WaitPrinted' /\ CliAsks'
    BY <1>1, Zenon DEF WaitPrinted, CliAsks
  <1>. QED  BY <1>4, <1>5, <1>6, <1>7 DEF IInv

\* Whoever the client is, it takes a PDU well.
LEMMA TakenStep ==
    ASSUME IInv, NEW i \in 1..Len(sent), NEW q \in 0..(3 * Len(sent)), Taken(i, q)
    PROVE  IInv'
  <1>1. pc \in {"await", "read"} /\ opts.job \in {"wait", "make", "cli"}
    BY OptsFacts DEF Taken, IInv, Types
  <1>. QED  BY <1>1, CliTakes, AnswerTaken, WaitTakes, MakeTakes, Zenon

-----------------------------------------------------------------------------
(* The steps of the client. *)

\* At the end of the stream a line without its newline still counts.
LEMMA ReadEofStep == ASSUME IInv, ReadEof PROVE IInv'
  <1>1. /\ pc \in {"await", "read"} /\ buf = <<>> /\ sock = <<>> /\ ~open /\ line' = <<>>
        /\ On(IF line = <<>> THEN None ELSE parse(line))
        /\ UNCHANGED <<opts, daemon, sock, step, buf, late, sent>>
    BY DEF ReadEof, Starved, Reading
  <1>2. /\ line \in Seq(Byte) /\ buf \in Seq(Byte) /\ sock \in Seq(Byte) /\ sent \in Seq(Pdu)
        /\ out = <<>> /\ Len(sent) \in Nat
    BY <1>1 DEF IInv, Types, Handshake
  <1>3. ReadFrame
    BY <1>1, <1>2 DEF ReadFrame
  <1>4. CASE line = <<>> \/ Refusal(parse(line))
    <2>1. Refusal(IF line = <<>> THEN None ELSE parse(line))
      BY <1>4 DEF Refusal
    <2>. QED  BY <1>1, <1>3, <2>1, RefusedStep
  <1>5. CASE line # <<>> /\ parse(line).tag = "ok"
    <2>1. PICK pos \in 0..(3 * Len(sent)) : InStream(pos)
      BY <1>1 DEF IInv, Stream
    <2>2. Pending = line
      BY <1>1, <1>2 DEF Pending
    <2>3. Run(line, sent, pos) /\ pos + Len(line) <= 3 * Len(sent) /\ pos \in Nat
      BY <1>2, <2>1, <2>2 DEF InStream, At
    <2>4. PICK i \in 1..Len(sent) : pos = 3 * i - 3 /\ parse(line) = Ok(sent[i])
      BY <1>2, <1>5, <2>3, ParseOk
    <2>5. 3 * i \in 0..(3 * Len(sent)) /\ 3 * i <= 3 * Len(sent) /\ 3 * i >= 3 * i /\ 3 * i + 0 = 3 * i
      BY <1>2
    <2>6. Pending' = <<>> /\ sent' = sent /\ open' = FALSE
      BY <1>1, <1>2 DEF Pending, daemon
    <2>7. At(3 * i)'
      <3>1. 3 * i + Len(Pending') <= 3 * Len(sent')
        BY <2>5, <2>6
      <3>2. Run(Pending', sent', 3 * i)
        BY <2>6 DEF Run
      <3>. QED  BY <2>6, <3>1, <3>2 DEF At
    <2>8. Taken(i, 3 * i)
      BY <1>1, <1>3, <1>5, <2>1, <2>4, <2>5, <2>7, Zenon DEF Taken
    <2>. QED  BY <2>5, <2>8, TakenStep
  <1>. QED  BY <1>4, <1>5, ParseOther

\* A timeout comes as a ProtocolError.
LEMMA ReadTimeoutStep == ASSUME IInv, ReadTimeout PROVE IInv'
  <1>1. /\ pc \in {"await", "read"} /\ line' = <<>> /\ On(Err("ProtocolError", "TimedOut"))
        /\ UNCHANGED <<opts, daemon, sock, step, buf, late, sent>>
    BY DEF ReadTimeout, Starved, Reading
  <1>2. ReadFrame
    BY <1>1 DEF ReadFrame, IInv, Types
  <1>3. Refusal(Err("ProtocolError", "TimedOut"))
    BY Zenon DEF Refusal
  <1>. QED  BY <1>1, <1>2, <1>3, RefusedStep

\* The first newline is one.
LEMMA MinIn ==
    ASSUME NEW S \in SUBSET Nat, S # {} PROVE Min(S) \in S
  <1>. DEFINE R == {ss \in Nat \X Nat : ss[1] < ss[2]}
  <1>1. IsWellFoundedOn(R, Nat)
    BY NatLessThanWellFounded DEF OpToRel
  <1>2. PICK n \in S : \A m \in S : <<m, n>> \notin R
    <2>. HIDE DEF R
    <2>. QED  BY <1>1, WFMin, Zenon
  <1>3. \A m \in S : n <= m
    <2>. TAKE m \in S
    <2>1. m \in Nat /\ n \in Nat /\ ~(m < n)
      BY <1>2, Zenon
    <2>. QED  BY <2>1
  <1>. QED  BY <1>3, Zenon DEF Min

\* A read has data before it and leaves rest in the socket.
Split(data, rest) == Pending = line \o (data \o (rest \o out))

\* What a read takes from the socket and leaves there.
LEMMA Filled ==
    ASSUME IInv, NEW k \in 0..Len(sock)
    PROVE  LET data == buf \o SubSeq(sock, 1, k)
               rest == SubSeq(sock, k + 1, Len(sock))
           IN  /\ data \in Seq(Byte) /\ rest \in Seq(Byte)
               /\ Split(data, rest)
  <1>. DEFINE taken == SubSeq(sock, 1, k)
              rest == SubSeq(sock, k + 1, Len(sock))
  <1>1. line \in Seq(Byte) /\ buf \in Seq(Byte) /\ sock \in Seq(Byte) /\ out \in Seq(Byte)
    BY DEF IInv, Types
  <1>2. taken \in Seq(Byte) /\ rest \in Seq(Byte) /\ sock = taken \o rest
    BY <1>1, Cut, Zenon
  <1>. HIDE DEF taken, rest
  <1>3. PICK a \in Seq(Byte), b \in Seq(Byte), t \in Seq(Byte), r \in Seq(Byte), e \in Seq(Byte) :
           a = line /\ b = buf /\ t = taken /\ r = rest /\ e = out
    BY <1>1, <1>2
  <1>4. Queue(b, t) \in Seq(Byte) /\ Chain(a, b, Queue(t, r), e) = Chain(a, Queue(b, t), r, e)
    BY TakenOver
  <1>5. Pending = Chain(a, b, Queue(t, r), e)
    BY <1>2, <1>3, Zenon DEF Pending, Chain, Queue
  <1>6. Split(Queue(b, t), r) <=> Pending = Chain(a, Queue(b, t), r, e)
    BY <1>3, Zenon DEF Split, Chain
  <1>7. Queue(b, t) = buf \o taken
    BY <1>3, Zenon DEF Queue
  <1>. QED  BY <1>2, <1>3, <1>4, <1>5, <1>6, <1>7, Zenon DEF taken, rest

\* A read that ends no line only moves bytes.
LEMMA NoLineStep ==
    ASSUME IInv, NEW data \in Seq(Byte), NEW rest \in Seq(Byte),
           Split(data, rest), sock' = rest, line' = line \o data, buf' = <<>>,
           UNCHANGED <<pc, effects, exit, why>>, UNCHANGED <<opts, daemon, step, late, sent>>
    PROVE  IInv'
  <1>1. line \in Seq(Byte) /\ out \in Seq(Byte)
    BY DEF IInv, Types
  <1>2. UNCHANGED <<opts, roots, inbox, answering, pushing, open, out, pc, step, failed, late,
                    last_event, fired, printed, exit, sent>>
    BY DEF daemon, effects
  <1>3. Pending' = Pending
    <2>1. rest \o out \in Seq(Byte) /\ line \o data \in Seq(Byte)
      BY <1>1
    <2>2. <<>> \o (rest \o out) = rest \o out
      BY <2>1
    <2>3. (line \o data) \o (rest \o out) = line \o (data \o (rest \o out))
      <3>1. PICK c \in Seq(Byte) : c = rest \o out
        BY <2>1, Zenon
      <3>2. line \in Seq(Byte) /\ data \in Seq(Byte) /\ c \in Seq(Byte)
        BY <1>1, Zenon
      <3>3. (line \o data) \o c = line \o (data \o c)
        BY ONLY <3>2
      <3>. QED  BY <3>1, <3>3, Zenon
    <2>. QED  BY <1>2, <2>2, <2>3, Zenon DEF Pending, Split
  <1>4. Types'
    BY <1>1, <1>2 DEF IInv, Types
  <1>5. Stream'
    BY <1>2, <1>3 DEF IInv, Stream, InStream, At, CliAt, WaitAt, MakeAt, Answered, Owed
  <1>6. Handshake' /\ WaitPrinted' /\ PushIds'
    <2>1. Handshake'
      BY <1>2 DEF IInv, Handshake, Requests
    <2>2. PushIds' /\ Pushed' = Pushed
      BY <1>2, SameStream DEF IInv
    <2>3. WaitPrinted'
      <3>1. WaitOutput' = WaitOutput
        BY ONLY <1>2 DEF WaitOutput
      <3>. QED  BY <1>2, <2>2, <3>1, Zenon DEF IInv, WaitPrinted
    <2>. QED  BY <2>1, <2>2, <2>3
  <1>7. CliAsks'
    BY <1>2, Zenon DEF IInv, CliAsks, ErrorExits, Requests
  <1>. QED  BY <1>4, <1>5, <1>6, <1>7 DEF IInv

\* A line read: everything up to its newline, and the rest of the BufReader
\* kept by `watchman` and dropped with the BufReader by the others.
LineRead(data, rest, m) ==
    /\ pc \in {"await", "read"} /\ sock' = rest /\ line' = <<>>
    /\ buf' = Keep(SubSeq(data, m + 1, Len(data)))
    /\ On(parse(line \o SubSeq(data, 1, m - 1)))
    /\ UNCHANGED <<opts, daemon, step, late, sent>>

\* It is the next PDU or the end of the client.
LEMMA LineStep ==
    ASSUME IInv, NEW data \in Seq(Byte), NEW rest \in Seq(Byte), NEW m \in 1..Len(data),
           Split(data, rest), LineRead(data, rest, m)
    PROVE  IInv'
  <1>. DEFINE head == SubSeq(data, 1, m - 1)
              tail == SubSeq(data, m + 1, Len(data))
              t == line \o head
  <1>1. /\ line \in Seq(Byte) /\ out \in Seq(Byte) /\ sent \in Seq(Pdu)
        /\ Len(sent) \in Nat /\ Len(line) \in Nat /\ Len(out) \in Nat /\ Len(data) \in Nat
        /\ Len(rest) \in Nat
    BY DEF IInv, Types
  <1>2. /\ head \in Seq(Byte) /\ Len(head) = m - 1
        /\ tail \in Seq(Byte) /\ Len(tail) = Len(data) - m
        /\ data = SubSeq(data, 1, m) \o tail /\ data = head \o SubSeq(data, m, Len(data))
        /\ SubSeq(data, 1, m) \in Seq(Byte) /\ Len(SubSeq(data, 1, m)) = m
        /\ SubSeq(data, m, Len(data)) \in Seq(Byte)
    <2>1. m \in 0..Len(data) /\ m - 1 \in 0..Len(data) /\ (m - 1) + 1 = m
      BY <1>1
    <2>. QED  BY <2>1, Cut
  <1>. HIDE DEF head, tail
  <1>3. t \in Seq(Byte) /\ Len(t) = Len(line) + (m - 1)
    <2>1. line \in Seq(Byte) /\ head \in Seq(Byte)
      BY <1>1, <1>2
    <2>2. Len(line \o head) = Len(line) + Len(head) /\ line \o head \in Seq(Byte)
      BY <2>1
    <2>. QED  BY <1>2, <2>2, Zenon
  <1>. HIDE DEF t
  <1>4. Keep(tail) \in Seq(Byte) /\ (opts.job = "cli" => Keep(tail) = tail)
        /\ (opts.job # "cli" => Keep(tail) = <<>>)
    BY <1>2 DEF Keep
  <1>5. /\ ReadFrame /\ buf' = Keep(tail) /\ On(parse(t)) /\ pc \in {"await", "read"}
        /\ sock' = rest /\ line' = <<>> /\ sent' = sent /\ open' = open /\ out' = out
        /\ opts' = opts
    BY <1>4 DEF LineRead, ReadFrame, daemon, head, tail, t
  <1>6. CASE Refusal(parse(t))
    BY <1>5, <1>6, RefusedStep
  <1>7. CASE parse(t).tag = "ok"
    <2>1. PICK pos \in 0..(3 * Len(sent)) : InStream(pos)
      BY <1>5 DEF IInv, Stream
    <2>2. /\ rest \o out \in Seq(Byte) /\ Len(rest \o out) = Len(rest) + Len(out)
          /\ data \o (rest \o out) \in Seq(Byte)
          /\ Len(Pending) = Len(line) + Len(data) + Len(rest) + Len(out)
      BY <1>1 DEF Split
    <2>3. Run(line, sent, pos) /\ Run(data, sent, pos + Len(line))
          /\ Run(rest \o out, sent, (pos + Len(line)) + Len(data))
      <3>1. pos \in Nat /\ pos + Len(line) \in Nat /\ Run(Pending, sent, pos)
        BY <1>1, <2>1 DEF InStream, At
      <3>. QED  BY <1>1, <2>2, <3>1, RunSplit, Zenon DEF Split
    <2>4. Run(head, sent, pos + Len(line)) /\ Run(tail, sent, (pos + Len(line)) + m)
      <3>1. pos + Len(line) \in Nat
        BY <1>1
      <3>2. Run(head \o SubSeq(data, m, Len(data)), sent, pos + Len(line))
            /\ Run(SubSeq(data, 1, m) \o tail, sent, pos + Len(line))
        BY <1>2, <2>3, Zenon
      <3>. QED  BY <1>2, <3>1, <3>2, RunSplit, Zenon
    <2>5. Run(t, sent, pos)
      BY <1>1, <1>2, <2>3, <2>4, RunSplit DEF t
    <2>6. pos + Len(Pending) <= 3 * Len(sent) /\ (open => pos + Len(Pending) = 3 * Len(sent))
      BY <2>1 DEF InStream, At
    <2>7. pos \in Nat /\ pos + Len(t) <= 3 * Len(sent)
      BY <1>1, <1>3, <2>2, <2>6
    <2>8. PICK i \in 1..Len(sent) : pos = 3 * i - 3 /\ parse(t) = Ok(sent[i]) /\ Len(t) = 2
      BY <1>1, <1>3, <1>7, <2>5, <2>7, ParseOk, Zenon
    <2>9. PICK l \in Nat, d \in Nat, r \in Nat, o \in Nat, n \in Nat :
             l = Len(line) /\ d = Len(data) /\ r = Len(rest) /\ o = Len(out) /\ n = Len(sent)
      BY <1>1, Zenon
    <2>10. /\ l + m = 3 /\ (pos + l) + m = 3 * i /\ m \in 1..d /\ 3 * i \in 0..(3 * n)
           /\ 3 * i + ((d - m) + (r + o)) = pos + (l + d + r + o)
           /\ (pos + l) + d = 3 * i + (d - m) /\ (pos + l) + d >= 3 * i
           /\ ((pos + l) + d) + (r + o) = pos + (l + d + r + o)
           /\ (pos + l) + d \in 0..(3 * n)
      <3>1. l + (m - 1) = 2 /\ pos = 3 * i - 3 /\ m \in 1..d /\ i \in 1..n
        BY <1>3, <2>8, <2>9, Zenon
      <3>2. pos + (l + d + r + o) <= 3 * n
        BY <2>2, <2>6, <2>9
      <3>. QED  BY <3>1, <3>2
    <2>11. CASE opts.job = "cli"
      <3>1. Pending' = tail \o (rest \o out)
        <4>1. <<>> \o (tail \o (rest \o out)) = tail \o (rest \o out)
          BY <1>2, <2>2
        <4>. QED  BY <1>4, <1>5, <2>11, <4>1, Zenon DEF Pending
      <3>2. Len(Pending') = (d - m) + (r + o)
        <4>1. PICK c \in Seq(Byte) : c = rest \o out
          BY <2>2, Zenon
        <4>2. tail \in Seq(Byte)
          BY <1>2
        <4>3. Len(tail \o c) = Len(tail) + Len(c)
          BY <4>2
        <4>. QED  BY <1>2, <2>2, <2>9, <3>1, <4>1, <4>3, Zenon
      <3>3. Run(Pending', sent, 3 * i)
        <4>1. 3 * i \in Nat
          BY <2>10
        <4>2. Run(tail, sent, 3 * i) /\ Run(rest \o out, sent, 3 * i + Len(tail))
          BY <1>2, <2>3, <2>4, <2>9, <2>10, Zenon
        <4>. QED  BY <1>2, <2>2, <3>1, <4>1, <4>2, RunSplit, Zenon
      <3>4. 3 * i + Len(Pending') = pos + Len(Pending)
        BY <2>2, <2>9, <2>10, <3>2, Zenon
      <3>5. At(3 * i)'
        BY <1>5, <2>6, <3>3, <3>4, Zenon DEF At
      <3>6. 3 * i \in 0..(3 * Len(sent)) /\ 3 * i >= 3 * i
        BY <2>9, <2>10
      <3>7. Taken(i, 3 * i)
        BY <1>5, <2>1, <2>8, <3>5, <3>6, Zenon DEF Taken
      <3>. QED  BY <3>6, <3>7, TakenStep
    <2>12. CASE opts.job # "cli"
      <3>. PICK q : q = (pos + l) + d
        OBVIOUS
      <3>1. Pending' = rest \o out
        <4>1. <<>> \o (<<>> \o (rest \o out)) = rest \o out
          BY <2>2
        <4>. QED  BY <1>4, <1>5, <2>12, <4>1, Zenon DEF Pending
      <3>2. Run(Pending', sent, q)
        BY <2>3, <2>9, <3>1
      <3>3. q + Len(Pending') = pos + Len(Pending) /\ q >= 3 * i /\ q \in 0..(3 * Len(sent))
        BY <2>2, <2>9, <2>10, <3>1, Zenon
      <3>4. At(q)'
        <4>1. q + Len(Pending') <= 3 * Len(sent) /\ (open => q + Len(Pending') = 3 * Len(sent))
          BY <2>6, <3>3, Zenon
        <4>. QED  BY <1>5, <3>2, <4>1, Zenon DEF At
      <3>5. Taken(i, q)
        BY <1>5, <2>1, <2>8, <2>12, <3>3, <3>4, Zenon DEF Taken
      <3>. QED  BY <3>3, <3>5, TakenStep
    <2>. QED  BY <2>11, <2>12
  <1>. QED  BY <1>6, <1>7, ParseOther

\* A read ends a line or does not.
LEMMA ReadStep == ASSUME IInv, Read PROVE IInv'
  <1>. DEFINE k == IF buf = <<>> THEN Min({Capacity, Len(sock)}) ELSE 0
              data == buf \o SubSeq(sock, 1, k)
              rest == SubSeq(sock, k + 1, Len(sock))
              ends == {i \in DOMAIN data : data[i] = NL}
  <1>1. k \in 0..Len(sock)
    <2>1. Len(sock) \in Nat /\ Capacity \in Nat
      BY CompanionAssumption DEF IInv, Types
    <2>. QED  BY <2>1, MinOfTwo
  <1>2. data \in Seq(Byte) /\ rest \in Seq(Byte) /\ Split(data, rest)
    BY <1>1, Filled, Zenon
  <1>3. /\ pc \in {"await", "read"} /\ sock' = rest
        /\ UNCHANGED <<opts, daemon, step, late, sent>>
        /\ IF ends = {}
           THEN /\ line' = line \o data /\ buf' = <<>>
                /\ UNCHANGED <<pc, effects, exit, why>>
           ELSE /\ line' = <<>>
                /\ buf' = Keep(SubSeq(data, Min(ends) + 1, Len(data)))
                /\ On(parse(line \o SubSeq(data, 1, Min(ends) - 1)))
    BY Zenon DEF Read, Reading
  <1>4. ends \in SUBSET (1..Len(data))
    <2>. HIDE DEF data
    <2>. QED  BY <1>2
  <1>. HIDE DEF k, data, rest, ends
  <1>5. CASE ends = {}
    BY <1>2, <1>3, <1>5, NoLineStep, Zenon
  <1>6. CASE ends # {}
    <2>1. PICK m : m = Min(ends)
      OBVIOUS
    <2>2. ends \in SUBSET Nat
      BY <1>4
    <2>3. m \in 1..Len(data)
      BY <1>4, <1>6, <2>1, <2>2, MinIn, Zenon
    <2>4. LineRead(data, rest, m)
      BY <1>3, <1>6, <2>1, Zenon DEF LineRead
    <2>. QED  BY <1>2, <2>3, <2>4, LineStep, Zenon
  <1>. QED  BY <1>5, <1>6

\* Sending the next request.
LEMMA SendStep == ASSUME IInv, Send PROVE IInv'
  <1>1. pc = "send" /\ UNCHANGED <<opts, roots, answering, pushing, open, out, sock, buf, line, late,
                                  failed, last_event, fired, printed, sent>>
    BY DEF Send, reader, effects
  <1>2. step \in Nat /\ step < Len(Requests(opts)) /\ inbox \in Seq(Request) /\ exit = "none"
    BY <1>1 DEF IInv, Types, Handshake
  <1>3. Requests(opts) \in Seq(Request) /\ Len(Requests(opts)) \in Nat
    BY OptsFacts DEF IInv, Types
  <1>4. Requests(opts)[step + 1] \in Request
    BY <1>2, <1>3
  <1>5. \/ /\ inbox' = Append(inbox, Requests(opts)[step + 1]) /\ step' = step + 1
           /\ pc' = "await" /\ exit' = exit
        \/ inbox' = inbox /\ step' = step /\ pc' = "done" /\ exit' = "err"
    BY DEF Send, Goto, Finish
  <1>6. Types'
    <2>1. inbox' \in Seq(Request) /\ step' \in Nat /\ pc' \in {"await", "done"}
      BY <1>2, <1>4, <1>5
    <2>. QED  BY <1>1, <2>1 DEF IInv, Types
  <1>7. Handshake'
    BY <1>1, <1>2, <1>3, <1>5 DEF IInv, Handshake, Requests
  <1>8. Stream' /\ PushIds' /\ Pushed' = Pushed
    <2>1. ASSUME pc' # "done" PROVE Answered' = Answered
      BY <1>1, <1>2, <1>5, <2>1 DEF Answered
    <2>2. Pending' = Pending
      BY <1>1 DEF Pending
    <2>3. pc' # "done" => \A pos \in 0..(3 * Len(sent)) : InStream(pos) => InStream(pos)'
      BY <1>1, <2>1, <2>2 DEF InStream, At, CliAt, WaitAt, MakeAt, Owed
    <2>. QED  BY <1>1, <2>3, SameStream DEF IInv, Stream
  <1>9. WaitPrinted'
    BY <1>1, <1>2, <1>5, <1>8 DEF IInv, WaitPrinted, WaitOutput
  <1>10. CliAsks'
    <2>. SUFFICES ASSUME opts.job = "cli" PROVE CliAsks'
      BY <1>1, Zenon DEF CliAsks
    <2>1. inbox = <<>> /\ sent = <<>> /\ ~pushing /\ ~answering /\ printed = <<>>
      BY <1>1 DEF IInv, CliAsks
    <2>2. Len(Requests(opts)) = 1 /\ Requests(opts) = <<Requests(opts)[1]>>
      BY OptsFacts DEF IInv, Types
    <2>3. step = 0
      BY <1>2, <2>2
    <2>4. inbox' \in {<<>>, Requests(opts)}
      BY <1>5, <2>1, <2>2, <2>3
    <2>5. Response(FALSE) \notin Range(sent')
      BY <1>1, <2>1 DEF Range
    <2>6. Requests(opts)' = Requests(opts)
      BY <1>1 DEF Requests
    <2>. QED  BY <1>1, <1>2, <1>5, <2>1, <2>4, <2>5, <2>6, Zenon DEF CliAsks, ErrorExits
  <1>. QED  BY <1>6, <1>7, <1>8, <1>9, <1>10 DEF IInv

\* The top of a client's loop: watchman-wait looks at its deadline.
LEMMA TopStep == ASSUME IInv, Top PROVE IInv'
  <1>1. /\ pc = "top" /\ UNCHANGED <<opts, inbox, answering, pushing, open, out, sock, step, buf, line,
                                     late, failed, last_event, fired, printed, sent>>
        /\ \/ opts.job = "wait" /\ late /\ pc' = "done" /\ exit' = "ok"
           \/ pc' = "read" /\ exit' = exit
    BY DEF Top, Goto, Finish, daemon, reader, effects
  <1>2. Types'
    BY <1>1 DEF IInv, Types
  <1>3. Handshake'
    BY <1>1 DEF IInv, Handshake, Requests
  <1>4. Stream' /\ PushIds' /\ Pushed' = Pushed
    <2>1. Pending' = Pending
      BY <1>1 DEF Pending
    <2>2. \A pos \in 0..(3 * Len(sent)) : InStream(pos) => InStream(pos)'
      BY <1>1, <2>1 DEF InStream, At, CliAt, WaitAt, MakeAt, Owed, Answered
    <2>. QED  BY <1>1, <2>2, SameStream DEF IInv, Stream
  <1>5. WaitPrinted'
    BY <1>1, <1>4 DEF IInv, WaitPrinted, WaitOutput
  <1>6. CliAsks'
    BY <1>1, Zenon DEF IInv, CliAsks, ErrorExits, Requests
  <1>. QED  BY <1>2, <1>3, <1>4, <1>5, <1>6 DEF IInv

\* The deadline passes.
LEMMA ExpireStep == ASSUME IInv, Expire PROVE IInv'
  <1>1. /\ opts.job = "wait" /\ late' = TRUE
        /\ UNCHANGED <<opts, inbox, answering, pushing, open, out, sock, pc, step, buf, line,
                       failed, last_event, fired, printed, exit, sent>>
    BY DEF Expire, daemon, reader, effects
  <1>2. Types' /\ Handshake' /\ CliAsks'
    <2>1. Types'
      BY <1>1 DEF IInv, Types
    <2>2. Handshake'
      BY <1>1 DEF IInv, Handshake, Requests
    <2>3. CliAsks'
      BY <1>1 DEF CliAsks
    <2>. QED  BY <2>1, <2>2, <2>3
  <1>3. Stream' /\ PushIds' /\ Pushed' = Pushed
    <2>1. Pending' = Pending
      BY <1>1 DEF Pending
    <2>2. \A pos \in 0..(3 * Len(sent)) : InStream(pos) => InStream(pos)'
      BY <1>1, <2>1 DEF InStream, At, WaitAt
    <2>. QED  BY <1>1, <2>2, SameStream DEF IInv, Stream
  <1>4. WaitPrinted'
    BY <1>1, <1>3 DEF IInv, WaitPrinted, WaitOutput
  <1>. QED  BY <1>2, <1>3, <1>4 DEF IInv

-----------------------------------------------------------------------------
(* The steps of the daemon. *)

\* A PDU more counts if it is a push.
LEMMA CountPushes ==
    ASSUME sent \in Seq(Pdu), NEW v \in Pdu, sent' = Append(sent, v)
    PROVE  Pushed \in Nat /\ Pushed' = IF v.kind = "push" THEN Pushed + 1 ELSE Pushed
  <1>. DEFINE P == {i \in DOMAIN sent : sent[i].kind = "push"}
              Q == {i \in DOMAIN sent' : sent'[i].kind = "push"}
              n == Len(sent) + 1
  <1>1. /\ Len(sent) \in Nat /\ DOMAIN sent = 1..Len(sent) /\ DOMAIN sent' = 1..n /\ sent'[n] = v
        /\ \A i \in 1..Len(sent) : sent'[i] = sent[i]
    OBVIOUS
  <1>2. IsFiniteSet(P) /\ Cardinality(P) \in Nat
    <2>1. IsFiniteSet(1..Len(sent))
      BY <1>1, FS_Interval
    <2>2. P \subseteq 1..Len(sent)
      BY <1>1
    <2>. HIDE DEF P
    <2>. QED  BY <2>1, <2>2, FS_Subset, FS_CardinalityType, Zenon
  <1>3. n \notin P /\ \A i \in 1..n : i \in 1..Len(sent) \/ i = n
    BY <1>1
  <1>4. Q = IF v.kind = "push" THEN P \cup {n} ELSE P
    <2>1. \A i : i \in P => i \in Q
      BY <1>1, <1>3
    <2>2. \A i : i \in Q => i \in P \/ i = n
      BY <1>1, <1>3
    <2>3. n \in Q <=> v.kind = "push"
      BY <1>1, <1>3
    <2>. HIDE DEF P, Q, n
    <2>4. CASE v.kind = "push"
      <3>1. Q = P \cup {n}
        BY <2>1, <2>2, <2>3, <2>4
      <3>. QED  BY <2>4, <3>1
    <2>5. CASE v.kind # "push"
      <3>1. Q = P
        BY <2>1, <2>2, <2>3, <2>5
      <3>. QED  BY <2>5, <3>1
    <2>. QED  BY <2>4, <2>5
  <1>5. Pushed = Cardinality(P) /\ Pushed' = Cardinality(Q)
    BY DEF Pushed
  <1>. HIDE DEF P, Q
  <1>6. Cardinality(P \cup {n}) = Cardinality(P) + 1
    BY <1>2, <1>3, FS_AddElement, Zenon
  <1>. QED  BY <1>2, <1>4, <1>5, <1>6

\* Queueing a PDU leaves the client where it is in the stream.
LEMMA EnqueueStep ==
    ASSUME IInv, open, NEW v \in Pdu, Enqueue(v), v.kind = "push" => v.id = Pushed + 1,
           UNCHANGED <<opts, open, sock, pc, step, reader, late, effects, exit>>
    PROVE  sent' \in Seq(Pdu) /\ out' \in Seq(Byte) /\ Stream' /\ PushIds' /\ WaitPrinted'
  <1>1. /\ UNCHANGED <<opts, open, sock, pc, step, buf, line, late, failed, last_event, fired,
                       printed, exit>>
        /\ out' = out \o Line(v) /\ sent' = Append(sent, v)
    BY DEF reader, effects, Enqueue
  <1>2. /\ sent \in Seq(Pdu) /\ line \in Seq(Byte) /\ buf \in Seq(Byte) /\ sock \in Seq(Byte)
        /\ out \in Seq(Byte) /\ Line(v) \in Seq(Byte) /\ Len(Line(v)) = 3
    BY LineFacts, Zenon DEF IInv, Types
  <1>3. PICK n \in Nat : /\ n = Len(sent) /\ Len(sent') = n + 1 /\ DOMAIN sent = 1..n
                          /\ DOMAIN sent' = 1..(n + 1) /\ sent'[n + 1] = v /\ sent' \in Seq(Pdu)
                          /\ \A i \in 1..n : sent'[i] = sent[i]
    <2>1. Append(sent, v) \in Seq(Pdu)
      BY <1>2
    <2>2. /\ Len(sent) \in Nat /\ Len(Append(sent, v)) = Len(sent) + 1
          /\ DOMAIN sent = 1..Len(sent) /\ Append(sent, v)[Len(sent) + 1] = v
          /\ \A i \in 1..Len(sent) : Append(sent, v)[i] = sent[i]
          /\ DOMAIN Append(sent, v) = 1..(Len(sent) + 1)
      BY <1>2
    <2>. QED  BY <1>1, <2>1, <2>2, Zenon
  <1>4. \A i \in 1..(n + 1) : i \in 1..n \/ i = n + 1
    OBVIOUS
  <1>5. Pushed \in Nat /\ Pushed' = IF v.kind = "push" THEN Pushed + 1 ELSE Pushed
    BY <1>1, <1>2, CountPushes
  <1>6. \A i \in 1..n : sent[i].kind = "push" => sent[i].id \in Nat /\ sent[i].id <= Pushed
    <2>1. \A i \in 1..n : sent[i] \in Pdu
      BY <1>2, <1>3
    <2>. QED  BY <1>3, <2>1, PduFacts, Zenon DEF IInv, PushIds
  <1>7. PushIds'
    <2>1. ASSUME NEW i \in 1..(n + 1), sent'[i].kind = "push"
          PROVE  sent'[i].id <= Pushed' /\ (i \in 1..n => sent'[i].id < Pushed + 1)
      <3>1. CASE i \in 1..n
        BY <1>3, <1>5, <1>6, <2>1, <3>1
      <3>2. CASE i = n + 1
        BY <1>3, <1>5, <2>1, <3>2
      <3>. QED  BY <1>4, <3>1, <3>2
    <2>2. ASSUME NEW i \in 1..(n + 1), NEW j \in 1..(n + 1), i < j,
                 sent'[i].kind = "push", sent'[j].kind = "push"
          PROVE  sent'[i].id < sent'[j].id
      <3>1. i \in 1..n
        BY <2>2
      <3>2. CASE j \in 1..n
        BY <1>3, <2>2, <3>1, <3>2, Zenon DEF IInv, PushIds
      <3>3. CASE j = n + 1
        <4>1. sent'[j].id = Pushed + 1
          BY <1>3, <2>2, <3>3
        <4>. QED  BY <2>1, <2>2, <3>1, <4>1
      <3>. QED  BY <1>4, <3>2, <3>3
    <2>. QED  BY <1>3, <2>1, <2>2, Zenon DEF PushIds
  <1>8. WaitPrinted'
    <2>. SUFFICES ASSUME opts.job = "wait" PROVE WaitPrinted'
      BY <1>1 DEF WaitPrinted
    <2>1. printed \in Seq(Nat \X Nat) /\ \A k \in DOMAIN printed : printed[k][1] <= Pushed
      BY DEF IInv, Types, WaitPrinted
    <2>2. \A k \in DOMAIN printed : printed[k][1] \in Nat
      BY <2>1
    <2>3. \A k \in DOMAIN printed : printed[k][1] <= Pushed'
      BY <1>5, <2>1, <2>2
    <2>4. WaitOutput'
      <3>1. WaitOutput
        BY Zenon DEF IInv, WaitPrinted
      <3>2. UNCHANGED <<opts, printed, exit, late>>
        BY <1>1, Zenon
      <3>. QED  BY <3>1, <3>2 DEF WaitOutput
    <2>. QED  BY <1>1, <2>3, <2>4 DEF IInv, WaitPrinted
  <1>9. Stream'
    <2>. SUFFICES ASSUME pc # "done" PROVE Stream'
      BY <1>1 DEF Stream
    <2>1. PICK pos \in 0..(3 * n) : InStream(pos)
      BY <1>3 DEF IInv, Stream
    <2>2. Pending \in Seq(Byte) /\ Pending' = Pending \o Line(v)
      <3>1. PICK e \in Seq(Byte) : e = Line(v)
        BY <1>2
      <3>2. PICK a \in Seq(Byte), b \in Seq(Byte), c \in Seq(Byte), d \in Seq(Byte) :
               a = line /\ b = buf /\ c = sock /\ d = out
        BY <1>2
      <3>3. /\ Chain(a, b, c, d) \in Seq(Byte)
            /\ Chain(a, b, c, Queue(d, e)) = Queue(Chain(a, b, c, d), e)
        BY AtTheEnd
      <3>. QED  BY <1>1, <3>1, <3>2, <3>3, Zenon DEF Pending, Chain, Queue
    <2>3. PICK l \in Nat : l = Len(Pending) /\ Len(Pending') = l + 3
      <3>1. Len(Pending) \in Nat /\ Len(Pending \o Line(v)) = Len(Pending) + Len(Line(v))
        <4>1. PICK p \in Seq(Byte), e \in Seq(Byte) : p = Pending /\ e = Line(v)
          BY <1>2, <2>2
        <4>2. Len(p) \in Nat /\ Len(p \o e) = Len(p) + Len(e)
          OBVIOUS
        <4>. QED  BY <4>1, <4>2
      <3>. QED  BY <1>2, <2>2, <3>1
    <2>4. pos + l = 3 * n /\ pos \in Nat /\ Run(Pending, sent, pos)
      BY <1>3, <2>1, <2>3 DEF InStream, At
    <2>5. Run(Pending, sent', pos)
      <3>1. ASSUME NEW k \in 1..l PROVE Bytes(sent')[pos + k] = Bytes(sent)[pos + k]
        <4>1. pos + k \in 1..(3 * n)
          BY <2>4
        <4>. QED  BY <1>1, <1>2, <1>3, <4>1, BytesAppend, Zenon
      <3>. QED  BY <2>3, <2>4, <3>1, Zenon DEF Run
    <2>6. Run(Line(v), sent', pos + l)
      <3>1. ASSUME NEW k \in 1..3 PROVE Line(v)[k] = Bytes(sent')[3 * n + k]
        BY <1>1, <1>2, <1>3, BytesAppend, Zenon
      <3>. QED  BY <1>2, <2>4, <3>1, Zenon DEF Run
    <2>7. Run(Pending', sent', pos)
      BY <1>2, <2>2, <2>3, <2>4, <2>5, <2>6, RunSplit
    <2>8. /\ pos + Len(Pending') = 3 * Len(sent') /\ pos + Len(Pending') <= 3 * Len(sent')
          /\ pos \in 0..(3 * Len(sent'))
      <3>1. PICK a \in Nat, b \in Nat, m \in Nat : a = Len(Pending') /\ b = Len(sent') /\ m = n
        BY <1>3, <2>3
      <3>2. a = l + 3 /\ b = m + 1 /\ pos + l = 3 * m
        BY <1>3, <2>3, <2>4, <3>1, Zenon
      <3>3. pos + a = 3 * b /\ pos + a <= 3 * b /\ pos \in 0..(3 * b)
        BY <2>4, <3>2, Z3
      <3>. QED  BY <3>1, <3>3, Zenon
    <2>9. At(pos)'
      BY <2>7, <2>8 DEF At
    <2>10. opts.job = "cli" => CliAt(pos)'
      BY <1>1, <1>3, <2>1 DEF InStream, CliAt
    <2>11. ASSUME opts.job = "wait", NEW k \in DOMAIN printed, NEW i \in 1..(n + 1), 3 * i > pos,
                  sent'[i].kind = "push"
           PROVE  printed[k][1] < sent'[i].id
      <3>1. CASE i \in 1..n
        BY <1>3, <2>1, <2>11, <3>1, Zenon DEF InStream, WaitAt
      <3>2. CASE i = n + 1
        <4>1. printed[k][1] <= Pushed /\ printed[k][1] \in Nat
          BY <2>11 DEF IInv, Types, WaitPrinted
        <4>2. sent'[i].id = Pushed + 1
          BY <1>3, <2>11, <3>2
        <4>. QED  BY <1>5, <4>1, <4>2
      <3>. QED  BY <1>4, <3>1, <3>2
    <2>12. opts.job = "wait" => WaitAt(pos)'
      BY <1>1, <1>3, <2>11, Zenon DEF WaitAt
    <2>13. opts.job = "make" => MakeAt(pos)'
      BY <1>1, <2>1 DEF InStream, MakeAt, Answered, Owed
    <2>14. InStream(pos)'
      BY <1>1, <2>9, <2>10, <2>12, <2>13 DEF InStream
    <2>. QED  BY <2>8, <2>14, Zenon DEF Stream
  <1>10. out' \in Seq(Byte)
    <2>1. PICK a \in Seq(Byte), b \in Seq(Byte) : a = out /\ b = Line(v)
      BY <1>2, Zenon
    <2>2. a \o b \in Seq(Byte)
      BY Concat
    <2>. QED  BY <1>1, <2>1, <2>2, Zenon
  <1>. QED  BY <1>3, <1>7, <1>8, <1>9, <1>10, Zenon

\* A PDU queued by the handler or by the push loop.
LEMMA QueuedStep ==
    ASSUME IInv, Connected, NEW v \in Pdu, Enqueue(v), v.kind = "push" => v.id = Pushed + 1,
           UNCHANGED <<opts, open, sock, pc, step, reader, late, effects, exit>>,
           inbox' \in Seq(Request), answering' \in BOOLEAN, pushing' \in BOOLEAN, CliAsks'
    PROVE  IInv'
  <1>1. sent' \in Seq(Pdu) /\ out' \in Seq(Byte) /\ Stream' /\ PushIds' /\ WaitPrinted'
    BY EnqueueStep DEF Connected
  <1>2. UNCHANGED <<opts, open, sock, pc, step, buf, line, late, failed, last_event, fired,
                    printed, exit>>
    BY DEF reader, effects
  <1>3. Types'
    BY <1>1, <1>2 DEF IInv, Types
  <1>4. Handshake'
    BY <1>2 DEF IInv, Handshake, Requests, Connected
  <1>. QED  BY <1>1, <1>3, <1>4 DEF IInv

\* Once `watchman` is subscribed, no error comes.
LEMMA SubscribedAsks ==
    ASSUME IInv, Connected, answering \/ pushing, NEW v \in Pdu, v # Response(FALSE),
           sent' = Append(sent, v),
           UNCHANGED <<opts, inbox, pc, reader, effects, exit>>
    PROVE  CliAsks'
  <1>. SUFFICES ASSUME opts.job = "cli" PROVE CliAsks'
    BY Zenon DEF CliAsks
  <1>1. UNCHANGED <<failed, printed>>
    BY DEF effects
  <1>2. pc # "send" /\ inbox = <<>> /\ Response(FALSE) \notin Range(sent) /\ exit = "none"
    BY Zenon DEF IInv, CliAsks, Connected, Handshake
  <1>3. Response(FALSE) \notin Range(sent')
    <2>1. sent \in Seq(Pdu)
      BY DEF IInv, Types
    <2>2. ASSUME NEW i \in DOMAIN sent' PROVE sent'[i] # Response(FALSE)
      <3>1. CASE i \in DOMAIN sent
        <4>1. sent'[i] = sent[i]
          BY <2>1, <3>1
        <4>. QED  BY <1>2, <3>1, <4>1, Zenon DEF Range
      <3>2. CASE i \notin DOMAIN sent
        <4>1. sent'[i] = v
          BY <2>1, <3>2
        <4>. QED  BY <4>1, Zenon
      <3>. QED  BY <3>1, <3>2, Zenon
    <2>. QED  BY <2>2, Zenon DEF Range
  <1>. QED  BY <1>1, <1>2, <1>3, Zenon DEF IInv, CliAsks, ErrorExits

\* The daemon handles a request.
LEMMA HandleStep == ASSUME IInv, Handle PROVE IInv'
  <1>1. /\ Connected /\ ~answering /\ inbox # <<>> /\ inbox' = Tail(inbox)
        /\ UNCHANGED <<opts, open, sock, pc, step, reader, late, effects, exit>>
    BY DEF Handle
  <1>2. inbox' \in Seq(Request) /\ answering \in BOOLEAN /\ pushing \in BOOLEAN
    BY <1>1 DEF IInv, Types
  <1>3. Response(TRUE) \in Pdu /\ Response(FALSE) \in Pdu
    BY PduKinds, Zenon
  <1>4. Response(TRUE).kind # "push" /\ Response(FALSE).kind # "push"
    BY PduKinds, Zenon
  <1>5. UNCHANGED <<buf, line, failed, last_event, fired, printed>>
    BY <1>1 DEF reader, effects
  <1>6. \/ Head(inbox).cmd = "watch-project" /\ Enqueue(Response(TRUE)) /\ UNCHANGED <<answering, pushing>>
        \/ answering' = TRUE /\ pushing' = TRUE /\ UNCHANGED <<out, sent>>
        \/ Enqueue(Response(FALSE)) /\ UNCHANGED <<answering, pushing>>
    BY Zenon DEF Handle
  <1>7. opts.job = "cli" =>
           /\ Head(inbox).cmd = "subscribe" /\ inbox' = <<>> /\ sent = <<>> /\ ~pushing
           /\ pc # "send" /\ exit = "none"
    <2>. SUFFICES ASSUME opts.job = "cli"
                  PROVE  /\ Head(inbox).cmd = "subscribe" /\ inbox' = <<>> /\ sent = <<>> /\ ~pushing
                         /\ pc # "send" /\ exit = "none"
      OBVIOUS
    <2>1. inbox = Requests(opts) /\ sent = <<>> /\ ~pushing /\ pc # "send" /\ exit = "none"
      BY <1>1 DEF IInv, CliAsks, Connected, Handshake
    <2>2. inbox = <<[cmd |-> "subscribe", dir |-> opts.dirs[1]]>>
      BY <2>1, OptsFacts DEF IInv, Types
    <2>. QED  BY <1>1, <2>1, <2>2
  <1>8. CASE Head(inbox).cmd = "watch-project" /\ Enqueue(Response(TRUE)) /\ UNCHANGED <<answering, pushing>>
    <2>1. CliAsks'
      BY <1>1, <1>7, <1>8 DEF CliAsks
    <2>2. answering' \in BOOLEAN /\ pushing' \in BOOLEAN
      BY <1>2, <1>8
    <2>. QED  BY <1>1, <1>2, <1>3, <1>4, <1>8, <2>1, <2>2, QueuedStep, Zenon
  <1>9. CASE Enqueue(Response(FALSE)) /\ UNCHANGED <<answering, pushing>>
    <2>1. opts.job = "cli" => sent' = <<Response(FALSE)>>
      <3>1. \A v : Append(<<>>, v) = <<v>>
        OBVIOUS
      <3>. QED  BY <1>7, <1>9, <3>1, Zenon DEF Enqueue
    <2>2. CliAsks'
      BY <1>1, <1>5, <1>7, <1>9, <2>1, Zenon DEF IInv, CliAsks, ErrorExits
    <2>3. answering' \in BOOLEAN /\ pushing' \in BOOLEAN
      BY <1>2, <1>9
    <2>. QED  BY <1>1, <1>2, <1>3, <1>4, <1>9, <2>2, <2>3, QueuedStep, Zenon
  <1>10. CASE answering' = TRUE /\ pushing' = TRUE /\ UNCHANGED <<out, sent>>
    <2>1. Types'
      BY <1>1, <1>2, <1>5, <1>10 DEF IInv, Types
    <2>2. Handshake'
      BY <1>1, <1>10 DEF IInv, Handshake, Requests
    <2>3. Stream' /\ PushIds' /\ Pushed' = Pushed
      <3>1. Pending' = Pending
        BY <1>1, <1>5, <1>10 DEF Pending
      <3>2. \A pos \in 0..(3 * Len(sent)) : InStream(pos) => InStream(pos)'
        BY <1>1, <1>5, <1>10, <3>1 DEF InStream, At, CliAt, WaitAt, MakeAt, Owed, Answered
      <3>. QED  BY <1>1, <1>10, <3>2, SameStream DEF IInv, Stream
    <2>4. WaitPrinted'
      BY <1>1, <1>5, <1>10, <2>3 DEF IInv, WaitPrinted, WaitOutput
    <2>5. CliAsks'
      <3>1. opts.job = "cli" => Response(FALSE) \notin Range(sent')
        BY <1>7, <1>10 DEF Range
      <3>. QED  BY <1>1, <1>5, <1>7, <1>10, <3>1, Zenon DEF IInv, CliAsks, ErrorExits
    <2>. QED  BY <2>1, <2>2, <2>3, <2>4, <2>5 DEF IInv
  <1>. QED  BY <1>6, <1>8, <1>9, <1>10, Zenon

\* The answer to subscribe.
LEMMA AnswerStep == ASSUME IInv, Answer PROVE IInv'
  <1>1. /\ Connected /\ answering /\ answering' = FALSE /\ Enqueue(Response(TRUE))
        /\ UNCHANGED <<opts, inbox, pushing, open, sock, pc, step, reader, late, effects, exit>>
    BY Zenon DEF Answer
  <1>2. Response(TRUE) \in Pdu /\ Response(TRUE).kind # "push" /\ Response(TRUE) # Response(FALSE)
    BY PduKinds, Zenon
  <1>3. inbox' \in Seq(Request) /\ answering' \in BOOLEAN /\ pushing' \in BOOLEAN
    BY <1>1, Zenon DEF IInv, Types
  <1>4. CliAsks'
    BY <1>1, <1>2, SubscribedAsks, Zenon DEF Enqueue
  <1>. QED  BY <1>1, <1>2, <1>3, <1>4, QueuedStep, Zenon

\* A change is pushed.
LEMMA ChangeStep == ASSUME IInv, NEW n \in Files, Change(n) PROVE IInv'
  <1>1. /\ Connected /\ pushing /\ Enqueue(Push(Pushed + 1, n))
        /\ UNCHANGED <<opts, inbox, answering, pushing, open, sock, pc, step, reader, late, effects,
                       exit>>
    BY DEF Change
  <1>2. Pushed \in Nat
    <2>1. sent \in Seq(Pdu)
      BY DEF IInv, Types
    <2>2. IsFiniteSet(1..Len(sent)) /\ {i \in DOMAIN sent : sent[i].kind = "push"} \subseteq 1..Len(sent)
      BY <2>1, FS_Interval
    <2>. QED  BY <2>2, FS_Subset, FS_CardinalityType DEF Pushed
  <1>3. PICK v \in Pdu : /\ v = Push(Pushed + 1, n) /\ v.id = Pushed + 1 /\ v # Response(FALSE)
    <2>1. n \in Nat /\ Pushed + 1 \in Nat
      <3>1. n \in Nat
        BY CompanionAssumption, Zenon
      <3>2. Pushed + 1 \in Nat
        <4>1. PICK k \in Nat : k = Pushed
          BY <1>2, Zenon
        <4>. QED  BY <4>1, Z3
      <3>. QED  BY <3>1, <3>2, Zenon
    <2>. QED  BY <2>1, PduKinds, Zenon
  <1>4. inbox' \in Seq(Request) /\ answering' \in BOOLEAN /\ pushing' \in BOOLEAN
    BY <1>1 DEF IInv, Types
  <1>5. CliAsks'
    BY <1>1, <1>3, SubscribedAsks, Zenon DEF Enqueue
  <1>. QED  BY <1>1, <1>3, <1>4, <1>5, QueuedStep

\* A byte arrives.
LEMMA ArriveStep == ASSUME IInv, Arrive PROVE IInv'
  <1>1. /\ open /\ out # <<>> /\ sock' = Append(sock, Head(out)) /\ out' = Tail(out)
        /\ UNCHANGED <<opts, inbox, answering, pushing, open, pc, step, buf, line, late,
                       failed, last_event, fired, printed, exit, sent>>
    BY DEF Arrive, Connected, reader, effects
  <1>2. sock \in Seq(Byte) /\ out \in Seq(Byte)
    BY DEF IInv, Types
  <1>3. sock' \in Seq(Byte) /\ out' \in Seq(Byte) /\ sock' \o out' = sock \o out
    BY <1>1, <1>2, MovedOver
  <1>4. Types'
    BY <1>1, <1>3 DEF IInv, Types
  <1>5. Handshake'
    BY <1>1 DEF IInv, Handshake, Requests
  <1>6. Stream' /\ PushIds' /\ Pushed' = Pushed
    <2>1. Pending' = Pending
      BY <1>1, <1>3, Zenon DEF Pending
    <2>2. \A pos \in 0..(3 * Len(sent)) : InStream(pos) => InStream(pos)'
      BY <1>1, <2>1 DEF InStream, At, CliAt, WaitAt, MakeAt, Owed, Answered
    <2>. QED  BY <1>1, <2>2, SameStream DEF IInv, Stream
  <1>7. WaitPrinted'
    BY <1>1, <1>6 DEF IInv, WaitPrinted, WaitOutput
  <1>8. CliAsks'
    BY <1>1, Zenon DEF IInv, CliAsks, ErrorExits, Requests
  <1>. QED  BY <1>4, <1>5, <1>6, <1>7, <1>8 DEF IInv

\* The daemon ends, and what it had not written is lost.
LEMMA CloseStep == ASSUME IInv, Close PROVE IInv'
  <1>1. /\ open' = FALSE /\ out' = <<>>
        /\ UNCHANGED <<opts, inbox, answering, pushing, sock, pc, step, buf, line, late,
                       failed, last_event, fired, printed, exit, sent>>
    BY DEF Close, reader, effects
  <1>2. line \in Seq(Byte) /\ buf \in Seq(Byte) /\ sock \in Seq(Byte) /\ out \in Seq(Byte)
    BY DEF IInv, Types
  <1>3. Types'
    <2>1. <<>> \in Seq(Byte)
      OBVIOUS
    <2>2. out' \in Seq(Byte) /\ open' \in BOOLEAN
      BY <1>1, <2>1, Zenon
    <2>. QED  BY <1>1, <2>2, Zenon DEF IInv, Types
  <1>4. Handshake'
    BY <1>1 DEF IInv, Handshake, Requests
  <1>5. PICK p \in Seq(Byte) : p = Pending' /\ Pending = Queue(p, out)
    <2>1. PICK a \in Seq(Byte), b \in Seq(Byte), c \in Seq(Byte), e \in Seq(Byte) :
             a = line /\ b = buf /\ c = sock /\ e = out
      BY <1>2
    <2>2. PICK d \in Seq(Byte) : d = <<>> /\ Queue(d, e) = e
      <3>1. <<>> \in Seq(Byte)
        OBVIOUS
      <3>2. <<>> \o e = e
        OBVIOUS
      <3>. QED  BY <3>1, <3>2, Zenon DEF Queue
    <2>3. /\ Chain(a, b, c, d) \in Seq(Byte)
          /\ Chain(a, b, c, Queue(d, e)) = Queue(Chain(a, b, c, d), e)
      BY AtTheEnd
    <2>4. Pending' = Chain(a, b, c, d) /\ Pending = Chain(a, b, c, e)
      BY <1>1, <2>1, <2>2, Zenon DEF Pending, Chain
    <2>. QED  BY <2>1, <2>2, <2>3, <2>4
  <1>6. ASSUME NEW pos \in Nat, Run(Pending, sent, pos) PROVE Run(p, sent, pos)
    <2>1. PICK e \in Seq(Byte) : e = out
      BY <1>2
    <2>2. Run(Queue(p, e), sent, pos)
      BY <1>5, <1>6, <2>1
    <2>3. Run(p \o e, sent, pos)
      BY <2>2, Zenon DEF Queue
    <2>. QED  BY <2>3, RunSplit
  <1>7. Len(p) \in Nat /\ Len(Pending) \in Nat /\ Len(p) <= Len(Pending)
    <2>1. PICK e \in Seq(Byte) : e = out
      BY <1>2
    <2>2. Len(p) \in Nat /\ Len(Queue(p, e)) \in Nat /\ Len(p) <= Len(Queue(p, e))
      <3>1. Len(p) \in Nat /\ Len(e) \in Nat /\ Len(p \o e) = Len(p) + Len(e)
        BY Concat
      <3>. QED  BY <3>1 DEF Queue
    <2>. QED  BY <1>5, <2>1, <2>2
  <1>8. Stream' /\ PushIds' /\ Pushed' = Pushed
    <2>1. ASSUME NEW pos \in 0..(3 * Len(sent)), InStream(pos) PROVE InStream(pos)'
      <3>1. At(pos)'
        <4>1. Run(Pending', sent, pos)
          BY <1>5, <1>6, <2>1 DEF InStream, At
        <4>2. sent \in Seq(Pdu)
          BY DEF IInv, Types
        <4>3. pos + Len(Pending') <= 3 * Len(sent)
          BY <1>5, <1>7, <2>1, <4>2 DEF InStream, At
        <4>. QED  BY <1>1, <4>1, <4>3 DEF At
      <3>. QED  BY <1>1, <2>1, <3>1 DEF InStream, CliAt, WaitAt, MakeAt, Owed, Answered
    <2>. QED  BY <1>1, <2>1, SameStream DEF IInv, Stream
  <1>9. WaitPrinted'
    BY <1>1, <1>8 DEF IInv, WaitPrinted, WaitOutput
  <1>10. CliAsks'
    BY <1>1, Zenon DEF IInv, CliAsks, ErrorExits, Requests
  <1>. QED  BY <1>3, <1>4, <1>8, <1>9, <1>10 DEF IInv

-----------------------------------------------------------------------------
(* The invariant. *)

\* It holds at first.
LEMMA InitHolds == ASSUME Init PROVE IInv
  <1>1. /\ opts \in Options /\ inbox = <<>> /\ answering = FALSE /\ pushing = FALSE /\ open = TRUE
        /\ out = <<>> /\ sock = <<>> /\ pc = "send" /\ step = 0 /\ buf = <<>> /\ line = <<>>
        /\ failed = FALSE /\ late = FALSE /\ last_event = FALSE /\ fired = 0 /\ printed = <<>>
        /\ exit = "none" /\ sent = <<>>
    BY DEF Init
  <1>2. \A S : <<>> \in Seq(S)
    OBVIOUS
  <1>3. Len(Requests(opts)) \in Nat /\ Len(Requests(opts)) > 0
    BY <1>1, OptsFacts
  <1>4. DOMAIN printed = {} /\ DOMAIN sent = {} /\ Len(sent) = 0 /\ Len(printed) = 0
    BY <1>1
  <1>5. Types
    <2>1. /\ inbox \in Seq(Request) /\ sent \in Seq(Pdu) /\ line \in Seq(Byte) /\ buf \in Seq(Byte)
          /\ sock \in Seq(Byte) /\ out \in Seq(Byte) /\ printed \in Seq(Pdu)
          /\ printed \in Seq(Nat \X Nat)
      BY <1>1, <1>2, Zenon
    <2>2. /\ answering \in BOOLEAN /\ pushing \in BOOLEAN /\ open \in BOOLEAN
          /\ failed \in BOOLEAN /\ late \in BOOLEAN /\ last_event \in BOOLEAN
          /\ pc \in {"send", "await", "top", "read", "done"} /\ step \in Nat /\ fired \in Nat
      BY <1>1, Zenon
    <2>. QED  BY <1>1, <2>1, <2>2, Zenon DEF Types
  <1>6. Handshake
    BY <1>1, <1>3 DEF Handshake
  <1>7. Stream
    <2>1. Pending = <<>>
      <3>1. <<>> \o <<>> = <<>>
        OBVIOUS
      <3>. QED  BY <1>1, <3>1 DEF Pending
    <2>2. At(0)
      <3>1. Len(Pending) = 0
        BY <2>1
      <3>2. \A k \in 1..0 : FALSE
        OBVIOUS
      <3>3. Run(Pending, sent, 0)
        BY <3>1, <3>2 DEF Run
      <3>. QED  BY <1>4, <3>1, <3>3 DEF At
    <2>3. CliAt(0) /\ WaitAt(0)
      BY <1>4 DEF CliAt, WaitAt
    <2>4. MakeAt(0)
      BY <1>1 DEF MakeAt, Owed, Answered
    <2>5. 0 \in 0..(3 * Len(sent))
      BY <1>4
    <2>. QED  BY <2>2, <2>3, <2>4, <2>5 DEF Stream, InStream
  <1>8. PushIds
    BY <1>4 DEF PushIds
  <1>9. WaitPrinted
    <2>1. opts.max_events \in Nat
      BY <1>1, OptsFacts
    <2>. QED  BY <1>1, <1>4, <2>1 DEF WaitPrinted, WaitOutput
  <1>10. CliAsks
    <2>1. Response(FALSE) \notin Range(sent)
      BY <1>4 DEF Range
    <2>. QED  BY <1>1, <2>1, Zenon DEF CliAsks, ErrorExits
  <1>. QED  BY <1>5, <1>6, <1>7, <1>8, <1>9, <1>10 DEF IInv

\* A step that changes nothing.
LEMMA Stutter == ASSUME IInv, UNCHANGED vars PROVE IInv'
  <1>1. UNCHANGED <<opts, inbox, answering, pushing, open, out, sock, pc, step, buf, line, late,
                    failed, last_event, fired, printed, exit, sent>>
    BY DEF vars
  <1>2. Types' /\ Handshake' /\ CliAsks'
    <2>1. Types'
      BY <1>1 DEF IInv, Types
    <2>2. Handshake'
      BY <1>1 DEF IInv, Handshake, Requests
    <2>3. CliAsks'
      BY <1>1, Zenon DEF IInv, CliAsks, Requests, ErrorExits
    <2>. QED  BY <2>1, <2>2, <2>3
  <1>3. Stream' /\ PushIds' /\ Pushed' = Pushed
    <2>1. Pending' = Pending
      BY <1>1 DEF Pending
    <2>2. \A pos \in 0..(3 * Len(sent)) : InStream(pos) => InStream(pos)'
      BY <1>1, <2>1 DEF InStream, At, CliAt, WaitAt, MakeAt, Owed, Answered
    <2>. QED  BY <1>1, <2>2, SameStream DEF IInv, Stream
  <1>4. WaitPrinted'
    BY <1>1, <1>3 DEF IInv, WaitPrinted, WaitOutput
  <1>. QED  BY <1>2, <1>3, <1>4 DEF IInv

\* The clients and the daemon keep the place of every client in its stream.
THEOREM PlaceKept == Spec => []IInv
  <1>1. Init => IInv
    BY InitHolds
  <1>2. ASSUME IInv, [Next]_vars PROVE IInv'
    <2>1. CASE Client
      BY <1>2, <2>1, SendStep, TopStep, ReadStep, ReadEofStep, ReadTimeoutStep DEF Client
    <2>2. CASE Daemon
      BY <1>2, <2>2, HandleStep, AnswerStep DEF Daemon
    <2>3. CASE \E n \in Files : Change(n)
      BY <1>2, <2>3, ChangeStep
    <2>4. CASE Arrive \/ Close \/ Expire
      BY <1>2, <2>4, ArriveStep, CloseStep, ExpireStep
    <2>5. CASE UNCHANGED vars
      BY <1>2, <2>5, Stutter
    <2>. QED  BY <1>2, <2>1, <2>2, <2>3, <2>4, <2>5 DEF Next
  <1>. QED  BY <1>1, <1>2, PTL DEF Spec

-----------------------------------------------------------------------------
(* What it gives. *)

\* What `watchman -p` printed is a run from the beginning of the stream.
LEMMA PrintedRun ==
    ASSUME NEW p \in Seq(Pdu), NEW s \in Seq(Pdu),
           \A k \in DOMAIN p : k \in DOMAIN s /\ p[k] = s[k]
    PROVE  Run(Bytes(p), s, 0)
  <1>1. Len(p) \in Nat /\ Len(s) \in Nat /\ DOMAIN p = 1..Len(p) /\ DOMAIN s = 1..Len(s)
    OBVIOUS
  <1>2. Len(Bytes(p)) = 3 * Len(p)
    BY BytesFacts
  <1>3. ASSUME NEW k \in 1..(3 * Len(p)) PROVE Bytes(p)[k] = Bytes(s)[0 + k]
    <2>1. PICK i \in 1..Len(p) : k \in {3 * i - 2, 3 * i - 1, 3 * i}
      BY BytesFacts, Zenon
    <2>2. i \in 1..Len(s) /\ p[i] = s[i] /\ 0 + k = k
      BY <1>1
    <2>3. /\ Bytes(p)[3 * i - 2] = <<s[i], 1>> /\ Bytes(p)[3 * i - 1] = <<s[i], 2>>
          /\ Bytes(p)[3 * i] = NL
      BY <2>2, BytesFacts, Zenon
    <2>4. /\ Bytes(s)[3 * i - 2] = <<s[i], 1>> /\ Bytes(s)[3 * i - 1] = <<s[i], 2>>
          /\ Bytes(s)[3 * i] = NL
      BY <2>2, BytesFacts, Zenon
    <2>. QED  BY <2>1, <2>2, <2>3, <2>4, Zenon
  <1>. QED  BY <1>2, <1>3 DEF Run

\* A client in its place has the stream.
LEMMA PlaceGivesStream == ASSUME IInv PROVE StreamKept
  <1>. SUFFICES ASSUME opts.job = "cli", pc # "done" PROVE StreamKept
    BY DEF StreamKept
  <1>1. /\ sent \in Seq(Pdu) /\ printed \in Seq(Pdu) /\ line \in Seq(Byte) /\ buf \in Seq(Byte)
        /\ sock \in Seq(Byte) /\ out \in Seq(Byte)
    BY DEF IInv, Types
  <1>2. PICK pos \in 0..(3 * Len(sent)) : InStream(pos)
    BY DEF IInv, Stream
  <1>3. /\ pos = 3 * Len(printed) /\ \A k \in DOMAIN printed : k \in DOMAIN sent /\ printed[k] = sent[k]
        /\ At(pos)
    BY <1>2 DEF InStream, CliAt
  <1>4. PICK f \in Seq(Byte) : f = Bytes(printed) /\ Len(f) = pos /\ Run(f, sent, 0)
    <2>1. Bytes(printed) \in Seq(Byte) /\ Len(Bytes(printed)) = pos
      BY <1>1, <1>3, BytesFacts
    <2>2. Run(Bytes(printed), sent, 0)
      BY <1>1, <1>3, PrintedRun
    <2>. QED  BY <2>1, <2>2, Zenon
  <1>5. PICK a \in Seq(Byte), b \in Seq(Byte), c \in Seq(Byte), d \in Seq(Byte) :
           a = line /\ b = buf /\ c = sock /\ d = out
    BY <1>1
  <1>6. Chain(a, b, c, d) \in Seq(Byte) /\ Joined(f, a, b, c, d) = Queue(f, Chain(a, b, c, d))
    BY Grouped
  <1>7. PICK p \in Seq(Byte) : p = Chain(a, b, c, d)
    BY <1>6
  <1>8. p = Pending
    BY <1>5, <1>7, Zenon DEF Pending, Chain
  <1>9. PICK q \in Seq(Byte) : q = Queue(f, p) /\ Len(q) = Len(f) + Len(p) /\ Run(q, sent, 0)
    <2>1. f \o p \in Seq(Byte) /\ Len(f \o p) = Len(f) + Len(p)
      BY Concat
    <2>2. Run(p, sent, 0 + Len(f))
      <3>1. Len(f) \in Nat /\ 0 + Len(f) = pos
        BY <1>4
      <3>. QED  BY <1>3, <1>8, <3>1 DEF At
    <2>3. Run(f \o p, sent, 0)
      BY <1>4, <2>2, RunSplit
    <2>. QED  BY <2>1, <2>3, Zenon DEF Queue
  <1>10. Bytes(sent) \in Seq(Byte) /\ Len(Bytes(sent)) = 3 * Len(sent)
    BY <1>1, BytesFacts
  <1>11. Len(q) <= Len(Bytes(sent)) /\ (open => Len(q) = Len(Bytes(sent)))
    BY <1>3, <1>4, <1>8, <1>9, <1>10 DEF At
  <1>12. \A k \in 1..Len(q) : q[k] = Bytes(sent)[k]
    <2>1. \A k \in 1..Len(q) : q[k] = Bytes(sent)[0 + k]
      BY <1>9 DEF Run
    <2>2. \A k \in 1..Len(q) : 0 + k = k
      OBVIOUS
    <2>. QED  BY <2>1, <2>2
  <1>13. q = SubSeq(Bytes(sent), 1, Len(q)) /\ (open => q = Bytes(sent))
    BY <1>10, <1>11, <1>12, Agree, Zenon
  <1>14. Bytes(printed) \o line \o buf \o sock \o out = q
    BY <1>4, <1>5, <1>6, <1>7, <1>9, Zenon DEF Joined
  <1>. QED  BY <1>13, <1>14, Zenon DEF StreamKept

\* `watchman -p` loses, repeats and reorders nothing of what the daemon queued:
\* send_and_print keeps one BufReader for all its reads (cli.rs).
THEOREM NothingLost == Spec => []StreamKept
  BY PlaceKept, PlaceGivesStream, PTL

\* `watchman` exits 0 only if no error was answered, although err_present is
\* read from the first PDU alone (cli.rs, send_and_print).
THEOREM ErrorsReported == Spec => []ErrorExits
  <1>1. IInv => ErrorExits
    BY Zenon DEF IInv, CliAsks, ErrorExits
  <1>. QED  BY <1>1, PlaceKept, PTL

\* watchman-wait prints names in order, none twice, at most max_events, and
\* exits 0 only with that many printed or after its deadline.
THEOREM WaitPrintsInOrder == Spec => []WaitOutput
  <1>1. IInv => WaitOutput
    BY DEF IInv, WaitPrinted, WaitOutput
  <1>. QED  BY <1>1, PlaceKept, PTL

\* watchman-make runs its command at most once for each PDU after its
\* handshake, however reads, timeouts and the settle period interleave.
THEOREM RunsAreDue == Spec => []OneRunPerChange
  <1>1. ASSUME IInv PROVE OneRunPerChange
    <2>. SUFFICES ASSUME opts.job = "make", pc \in {"top", "read"}
                  PROVE  fired + Owed + Len(Requests(opts)) <= Len(sent)
      BY DEF OneRunPerChange, Owed
    <2>1. sent \in Seq(Pdu) /\ fired \in Nat /\ step \in Nat /\ step = Len(Requests(opts))
      BY <1>1 DEF IInv, Types, Handshake
    <2>2. PICK pos \in 0..(3 * Len(sent)) : 3 * (fired + Owed + step) <= pos
      BY <1>1 DEF IInv, Stream, InStream, MakeAt, Answered
    <2>3. Owed \in Nat /\ Len(sent) \in Nat
      BY <2>1 DEF Owed
    <2>. QED  BY <2>1, <2>2, <2>3
  <1>. QED  BY <1>1, PlaceKept, PTL
=============================================================================
